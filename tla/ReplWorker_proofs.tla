--------------------------- MODULE ReplWorker_proofs ---------------------------
(***************************************************************************)
(* Proofs about ReplWorker, for any number of iterations and callbacks:    *)
(* no worker is left behind, an answer is the one of the step that asked,  *)
(* and FINAL_VAR gives no value older than the last one received.          *)
(***************************************************************************)
EXTENDS ReplWorker, SequenceTheorems, TLAPS

-----------------------------------------------------------------------------
(* Types, by name.                                                         *)

Cores == {"choose", "step", "ask", "closing", "joining", "ended"}
Outcomes == [how : {"none", "directive", "variable", "snapshot", "object",
                    "exhausted", "failed", "budget", "cancelled"}, x : Value]
Calls == [pc : {"out", "starting", "sending", "waiting", "callback"},
          op : {"execute", "get"}, left : BOOLEAN, joins : 0..MaxIterations]
Processes == [state : WorkerState, x : Value,
              step : 0..MaxIterations, calls : 0..MaxCallbacks]

(* The type invariant, with its sets by name. *)
LEMMA TypesNamed ==
  ReplTypeOK <=> /\ core \in Cores /\ iter \in 0..MaxIterations /\ outcome \in Outcomes
                 /\ exec \in Calls /\ handle \in 0..MaxIterations
                 /\ env \in Value \ {Opaque} /\ worker \in [Workers -> Processes]
                 /\ toWorker \in [Workers -> Seq(ToWorkerMessage)]
                 /\ toParent \in [Workers -> Seq(ToParentMessage)]
                 /\ picked \in Value \ {Opaque}
                 /\ heard \in [asked : 0..MaxIterations, by : 0..MaxIterations]
  BY DEF ReplTypeOK, Cores, Outcomes, Calls, Processes

(* The same after a step. *)
LEMMA TypesNamedNext ==
  ASSUME core' \in Cores, iter' \in 0..MaxIterations, outcome' \in Outcomes,
         exec' \in Calls, handle' \in 0..MaxIterations,
         env' \in Value \ {Opaque}, worker' \in [Workers -> Processes],
         toWorker' \in [Workers -> Seq(ToWorkerMessage)],
         toParent' \in [Workers -> Seq(ToParentMessage)],
         picked' \in Value \ {Opaque},
         heard' \in [asked : 0..MaxIterations, by : 0..MaxIterations]
  PROVE  ReplTypeOK'
  BY DEF ReplTypeOK, Cores, Outcomes, Calls, Processes

(* A process with one field changed. *)
WithState(f, w, s) == [f EXCEPT ![w].state = s]
WithX(f, w, x) == [f EXCEPT ![w].x = x]
WithStep(f, w, n) == [f EXCEPT ![w].step = n]
WithCalls(f, w, n) == [f EXCEPT ![w].calls = n]

(* It has that field, and the others as they were; so have the others. *)
LEMMA StateChanged ==
  ASSUME NEW f \in [Workers -> Processes], NEW w \in Workers, NEW s \in WorkerState
  PROVE  /\ WithState(f, w, s) \in [Workers -> Processes]
         /\ WithState(f, w, s)[w].state = s /\ WithState(f, w, s)[w].x = f[w].x
         /\ WithState(f, w, s)[w].step = f[w].step
         /\ WithState(f, w, s)[w].calls = f[w].calls
         /\ \A v \in Workers : v # w => WithState(f, w, s)[v] = f[v]
  BY DEF WithState, Processes

(* The same for its variable. *)
LEMMA XChanged ==
  ASSUME NEW f \in [Workers -> Processes], NEW w \in Workers, NEW x \in Value
  PROVE  /\ WithX(f, w, x) \in [Workers -> Processes]
         /\ WithX(f, w, x)[w].x = x /\ WithX(f, w, x)[w].state = f[w].state
         /\ WithX(f, w, x)[w].step = f[w].step
         /\ WithX(f, w, x)[w].calls = f[w].calls
         /\ \A v \in Workers : v # w => WithX(f, w, x)[v] = f[v]
  BY DEF WithX, Processes

(* The same for its step. *)
LEMMA StepChanged ==
  ASSUME NEW f \in [Workers -> Processes], NEW w \in Workers, NEW n \in 0..MaxIterations
  PROVE  /\ WithStep(f, w, n) \in [Workers -> Processes]
         /\ WithStep(f, w, n)[w].step = n /\ WithStep(f, w, n)[w].state = f[w].state
         /\ WithStep(f, w, n)[w].x = f[w].x
         /\ WithStep(f, w, n)[w].calls = f[w].calls
         /\ \A v \in Workers : v # w => WithStep(f, w, n)[v] = f[v]
  BY DEF WithStep, Processes

(* The same for its callbacks. *)
LEMMA CallsChanged ==
  ASSUME NEW f \in [Workers -> Processes], NEW w \in Workers, NEW n \in 0..MaxCallbacks
  PROVE  /\ WithCalls(f, w, n) \in [Workers -> Processes]
         /\ WithCalls(f, w, n)[w].calls = n /\ WithCalls(f, w, n)[w].state = f[w].state
         /\ WithCalls(f, w, n)[w].x = f[w].x
         /\ WithCalls(f, w, n)[w].step = f[w].step
         /\ \A v \in Workers : v # w => WithCalls(f, w, n)[v] = f[v]
  BY DEF WithCalls, Processes

-----------------------------------------------------------------------------
(* What the steps are made of.                                             *)

(* A worker the executor has is one of the workers. *)
LEMMA HandleIsWorker ==
  ASSUME ReplTypeOK PROVE handle # NoWorker => handle \in Workers
  BY ReplAssumption, TypesNamed DEF NoWorker, Workers

(* A pipe with one message, before and after. *)
LEMMA OneMessage ==
  ASSUME NEW S, NEW s \in Seq(S)
  PROVE  /\ Len(s) = 1 => Tail(s) = <<>> /\ Head(s) = s[1] /\ s[1] \in S
         /\ s # <<>> => Len(s) > 0 /\ Head(s) = s[1] /\ s[1] \in S /\ Tail(s) \in Seq(S)
         /\ \A m \in S : /\ Append(s, m) \in Seq(S)
                         /\ s = <<>> => Len(Append(s, m)) = 1 /\ Append(s, m)[1] = m
<1>1. ASSUME s # <<>>
      PROVE  Len(s) > 0 /\ Head(s) = s[1] /\ s[1] \in S /\ Tail(s) \in Seq(S)
  BY <1>1, HeadTailProperties
<1>2. ASSUME Len(s) = 1 PROVE Tail(s) = <<>> /\ Head(s) = s[1] /\ s[1] \in S
  <2>1. s # <<>>
    BY <1>2, EmptySeq
  <2>2. Tail(s) \in Seq(S) /\ Len(Tail(s)) = 0
    BY <1>2, <2>1, HeadTailProperties
  <2>3. Tail(s) = <<>>
    BY <2>2, EmptySeq
  <2> QED
    BY <1>1, <2>1, <2>3
<1>3. ASSUME NEW m \in S PROVE Append(s, m) \in Seq(S)
  OBVIOUS
<1>4. ASSUME NEW m \in S, s = <<>> PROVE Len(Append(s, m)) = 1 /\ Append(s, m)[1] = m
  BY <1>4
<1> QED
  BY <1>1, <1>2, <1>3, <1>4

(* The call of the executor ends. *)
LEMMA CallLeft ==
  ASSUME ReplTypeOK, LeaveExecutor
  PROVE  exec' \in Calls /\ exec'.pc = "out" /\ exec'.joins = exec.joins /\ exec'.op = exec.op
<1>1. exec \in Calls
  BY TypesNamed
<1> QED
  BY <1>1 DEF LeaveExecutor, Calls

(* The worker is given up. *)
LEMMA Discarded ==
  ASSUME ReplTypeOK, Discard
  PROVE  /\ handle' = NoWorker /\ handle' \in 0..MaxIterations
         /\ worker' \in [Workers -> Processes]
         /\ \A w \in Workers :
                worker'[w].state = IF w = handle THEN "gone" ELSE worker[w].state
         /\ toWorker' = toWorker /\ toParent' = toParent
<1>1. worker \in [Workers -> Processes]
  BY TypesNamed
<1>2. ASSUME NEW w \in Workers
      PROVE  [worker[w] EXCEPT !.state = "gone"] \in Processes
             /\ [worker[w] EXCEPT !.state = "gone"].state = "gone"
  BY <1>1 DEF Processes, WorkerState
<1>3. handle' \in 0..MaxIterations
  BY ReplAssumption DEF Discard, NoWorker
<1> QED
  BY <1>1, <1>2, <1>3 DEF Discard

(* How the loop goes on after a call: as it was if it did not wait for it, *)
(* with the next iteration, or with its end.                               *)
Goes(x) ==
    \/ core \notin {"step", "ask"} /\ core' = core /\ outcome' = outcome
    \/ core \in {"step", "ask"} /\ core' = "choose" /\ outcome' = outcome
    \/ /\ core \in {"step", "ask"} /\ core' = "closing" /\ outcome' \in Outcomes
       /\ outcome'.how \in {"variable", "snapshot"} => outcome'.x = x /\ x # Absent

(* The ways a call returns. *)
LEMMA Returns ==
  ASSUME ReplTypeOK
  PROVE  /\ Resume(Feedback) => Goes(env)
         /\ Resume(ErrorReturned) => Goes(env)
         /\ Resume(AnswerFromSnapshot) => Goes(env)
         /\ \A x \in Value \ {Absent} : Resume(Conclude("variable", x)) => Goes(x)
         /\ \A how \in {"object", "budget"} : Resume(Conclude(how, Absent)) => Goes(env)
<1>1. env \in Value /\ Absent \in Value
  BY TypesNamed, ReplAssumption DEF Value, Absent, Opaque
<1>2. ASSUME NEW x \in Value, NEW how \in {"object", "budget", "snapshot", "variable"}
      PROVE  [how |-> how, x |-> x] \in Outcomes
  BY <1>2 DEF Outcomes
<1>3. Resume(Feedback) => Goes(env)
  BY DEF Resume, Feedback, Goes
<1>4. ASSUME NEW x \in Value, NEW how \in {"object", "budget", "snapshot", "variable"},
             Conclude(how, x), core \in {"step", "ask"},
             how \in {"snapshot", "variable"} => x # Absent
      PROVE  Goes(x)
  <2>1. outcome' = [how |-> how, x |-> x] /\ core' = "closing" /\ outcome' \in Outcomes
    BY <1>2, <1>4 DEF Conclude
  <2>2. outcome'.how = how /\ outcome'.x = x
    BY <2>1
  <2> QED
    BY <1>4, <2>1, <2>2 DEF Goes
<1>5. ASSUME Resume(AnswerFromSnapshot) PROVE Goes(env)
  <2>1. CASE core \in {"step", "ask"} /\ env # Absent
    BY <1>1, <1>4, <1>5, <2>1 DEF Resume, AnswerFromSnapshot
  <2>2. CASE ~(core \in {"step", "ask"} /\ env # Absent)
    BY <1>3, <1>5, <2>2 DEF Resume, AnswerFromSnapshot
  <2> QED
    BY <2>1, <2>2
<1>6. Resume(ErrorReturned) => Goes(env)
  BY <1>3, <1>5 DEF Resume, ErrorReturned
<1>7. ASSUME NEW x \in Value \ {Absent}, Resume(Conclude("variable", x)) PROVE Goes(x)
  BY <1>3, <1>4, <1>7 DEF Resume, Goes
<1>8. ASSUME NEW how \in {"object", "budget"}, Resume(Conclude(how, Absent)) PROVE Goes(env)
  BY <1>1, <1>4, <1>8 DEF Resume, Goes
<1> QED
  BY <1>3, <1>5, <1>6, <1>7, <1>8

(* The worker that is spawned is the next one. *)
LEMMA SpawnedNext ==
  ASSUME ReplTypeOK, CallsMatch, iter < MaxIterations,
         NEW n \in 0..iter, \A w \in Workers : worker[w].state = "none" <=> n < w
  PROVE  Spawned = n + 1 /\ n + 1 \in Workers
<1>1. iter \in 0..MaxIterations /\ MaxIterations \in Nat
  BY TypesNamed, ReplAssumption
<1>2. n + 1 \in Workers /\ n \in Nat
  BY <1>1 DEF Workers
<1>3. /\ worker[n + 1].state = "none"
      /\ \A v \in 1..((n + 1) - 1) : worker[v].state # "none"
  <2>1. worker[n + 1].state = "none"
    BY <1>2
  <2>2. \A v \in 1..((n + 1) - 1) : v \in Workers /\ ~(n < v)
    BY <1>1, <1>2 DEF Workers
  <2> QED
    BY <2>1, <2>2
<1>4. ASSUME NEW w \in Workers, worker[w].state = "none",
             \A v \in 1..(w - 1) : worker[v].state # "none"
      PROVE  w = n + 1
  <2>1. n < w /\ w \in Nat
    BY <1>4 DEF Workers
  <2>2. ~(n + 1 \in 1..(w - 1))
    BY <1>3, <1>4
  <2> QED
    BY <1>2, <2>1, <2>2
<1>5. Spawned \in Workers /\ worker[Spawned].state = "none"
      /\ \A v \in 1..(Spawned - 1) : worker[v].state # "none"
  BY <1>2, <1>3 DEF Spawned
<1> QED
  BY <1>2, <1>4, <1>5

(* A pipe that gets a message, and one that loses its first. *)
Put(f, w, m) == [f EXCEPT ![w] = Append(@, m)]
Take(f, w) == [f EXCEPT ![w] = Tail(@)]

(* They keep their type, and leave the other pipes alone. *)
LEMMA PipeGets ==
  ASSUME NEW S, NEW f \in [Workers -> Seq(S)], NEW w \in Workers, NEW m \in S
  PROVE  /\ Put(f, w, m) \in [Workers -> Seq(S)]
         /\ f[w] = <<>> => Len(Put(f, w, m)[w]) = 1 /\ Put(f, w, m)[w][1] = m
         /\ \A v \in Workers : v # w => Put(f, w, m)[v] = f[v]
<1>1. Append(f[w], m) \in Seq(S)
  BY OneMessage
<1>2. /\ Put(f, w, m) \in [Workers -> Seq(S)] /\ Put(f, w, m)[w] = Append(f[w], m)
      /\ \A v \in Workers : v # w => Put(f, w, m)[v] = f[v]
  BY <1>1 DEF Put
<1> QED
  BY <1>2, OneMessage

(* The same for the first message of a pipe. *)
LEMMA PipeGives ==
  ASSUME NEW S, NEW f \in [Workers -> Seq(S)], NEW w \in Workers, f[w] # <<>>
  PROVE  /\ Take(f, w) \in [Workers -> Seq(S)]
         /\ Head(f[w]) = f[w][1] /\ f[w][1] \in S
         /\ Len(f[w]) = 1 => Take(f, w)[w] = <<>>
         /\ \A v \in Workers : v # w => Take(f, w)[v] = f[v]
<1>1. Tail(f[w]) \in Seq(S) /\ Head(f[w]) = f[w][1] /\ f[w][1] \in S
      /\ (Len(f[w]) = 1 => Tail(f[w]) = <<>>)
  BY OneMessage
<1> QED
  BY <1>1 DEF Take

(* Messages are messages. *)
LEMMA MessageTypes ==
  ASSUME ReplTypeOK
  PROVE  /\ \A type \in {"execute", "get", "callback_result", "close"} :
                /\ Command(type) \in ToWorkerMessage
                /\ Command(type).type = type /\ Command(type).step = iter
         /\ \A w \in Workers : \A type \in {"ready", "startup_error", "callback", "error"} :
                /\ Message(w, type) \in ToParentMessage /\ Message(w, type).type = type
                /\ Message(w, type).step = worker[w].step /\ Message(w, type).x = worker[w].x
         /\ \A w \in Workers : \A final \in BOOLEAN :
                LET m == [Message(w, "result") EXCEPT !.final = final] IN
                /\ m \in ToParentMessage /\ m.type = "result"
                /\ m.step = worker[w].step /\ m.x = worker[w].x
         /\ \A w \in Workers : \A n \in 0..MaxIterations :
                LET m == [type |-> "variable", step |-> n,
                          x |-> Pickled(worker[w].x), final |-> FALSE] IN
                m \in ToParentMessage /\ m.type = "variable" /\ m.x = Pickled(worker[w].x)
<1>1. iter \in 0..MaxIterations /\ worker \in [Workers -> Processes]
  BY TypesNamed
<1>2. \A w \in Workers : worker[w].step \in 0..MaxIterations /\ worker[w].x \in Value
                         /\ Pickled(worker[w].x) \in Value
  <2>1. \A w \in Workers : worker[w].step \in 0..MaxIterations /\ worker[w].x \in Value
    BY <1>1 DEF Processes
  <2>2. Absent \in Value
    BY ReplAssumption DEF Value, Absent, Opaque
  <2> QED
    BY <2>1, <2>2 DEF Pickled
<1>3. \A type \in {"execute", "get", "callback_result", "close"} :
          /\ Command(type) \in ToWorkerMessage
          /\ Command(type).type = type /\ Command(type).step = iter
  BY <1>1 DEF Command, ToWorkerMessage
<1>4. \A w \in Workers : \A type \in {"ready", "startup_error", "callback", "error", "result"} :
          /\ Message(w, type) \in ToParentMessage /\ Message(w, type).type = type
          /\ Message(w, type).step = worker[w].step /\ Message(w, type).x = worker[w].x
  BY <1>2 DEF Message, ToParentMessage
<1>5. \A w \in Workers : \A final \in BOOLEAN :
          LET m == [Message(w, "result") EXCEPT !.final = final] IN
          /\ m \in ToParentMessage /\ m.type = "result"
          /\ m.step = worker[w].step /\ m.x = worker[w].x
  <2> TAKE w \in Workers
  <2> TAKE final \in BOOLEAN
  <2> DEFINE r == Message(w, "result")
  <2>1. r \in ToParentMessage /\ r.type = "result"
        /\ r.step = worker[w].step /\ r.x = worker[w].x
    BY <1>4
  <2> HIDE DEF r
  <2>2. LET m == [r EXCEPT !.final = final] IN
        /\ m \in ToParentMessage /\ m.type = "result"
        /\ m.step = worker[w].step /\ m.x = worker[w].x
    BY <2>1 DEF ToParentMessage
  <2> QED
    BY <2>2 DEF r
<1>6. \A w \in Workers : \A n \in 0..MaxIterations :
          LET m == [type |-> "variable", step |-> n,
                    x |-> Pickled(worker[w].x), final |-> FALSE] IN
          m \in ToParentMessage /\ m.type = "variable" /\ m.x = Pickled(worker[w].x)
  BY <1>2 DEF ToParentMessage
<1> QED
  BY <1>3, <1>4, <1>5, <1>6

-----------------------------------------------------------------------------
(* The steps of a worker.                                                  *)

(* A worker's step is that of a living process, and touches only its own   *)
(* state and pipes.                                                        *)
OwnMove(w) ==
    /\ worker' \in [Workers -> Processes]
    /\ toWorker' \in [Workers -> Seq(ToWorkerMessage)]
    /\ toParent' \in [Workers -> Seq(ToParentMessage)]
    /\ Alive(w) /\ worker'[w].state # "none"
    /\ \A v \in Workers : v # w => /\ worker'[v] = worker[v]
                                   /\ toWorker'[v] = toWorker[v]
                                   /\ toParent'[v] = toParent[v]
    /\ UNCHANGED <<loopVars, exec, handle, env, history>>

(* What follows when the state and the pipe to the parent change. *)
LEMMA OwnReply ==
  ASSUME ReplTypeOK, NEW w \in Workers, Alive(w),
         NEW s \in WorkerState, s # "none",
         NEW m \in ToParentMessage,
         worker' = WithState(worker, w, s) \/ worker' = worker,
         toParent' = Put(toParent, w, m),
         toWorker' = toWorker \/ (Unread(w) /\ toWorker' = Take(toWorker, w)),
         UNCHANGED <<loopVars, exec, handle, env, history>>
  PROVE  OwnMove(w)
<1>1. /\ worker \in [Workers -> Processes]
      /\ toWorker \in [Workers -> Seq(ToWorkerMessage)]
      /\ toParent \in [Workers -> Seq(ToParentMessage)]
  BY TypesNamed
<1>2. worker' \in [Workers -> Processes] /\ worker'[w].state # "none"
      /\ \A v \in Workers : v # w => worker'[v] = worker[v]
  <2>1. CASE worker' = worker
    BY <1>1, <2>1 DEF Alive
  <2>2. CASE worker' = WithState(worker, w, s)
    <3>1. worker' \in [Workers -> Processes] /\ worker'[w].state = s /\ s # "none"
      BY <1>1, <2>2, StateChanged
    <3>2. \A v \in Workers : v # w => worker'[v] = worker[v]
      BY <1>1, <2>2 DEF WithState
    <3> QED
      BY <3>1, <3>2
  <2> QED
    BY <2>1, <2>2
<1>3. toParent' \in [Workers -> Seq(ToParentMessage)]
      /\ \A v \in Workers : v # w => toParent'[v] = toParent[v]
  <2>1. toParent' \in [Workers -> Seq(ToParentMessage)]
    BY <1>1, PipeGets
  <2>2. \A v \in Workers : v # w => toParent'[v] = toParent[v]
    BY <1>1 DEF Put
  <2> QED
    BY <2>1, <2>2
<1>4. toWorker' \in [Workers -> Seq(ToWorkerMessage)]
  <2>1. CASE toWorker' = toWorker
    BY <1>1, <2>1
  <2>2. CASE Unread(w) /\ toWorker' = Take(toWorker, w)
    BY <1>1, <2>2, PipeGives DEF Unread
  <2> QED
    BY <2>1, <2>2
<1>5. \A v \in Workers : v # w => toWorker'[v] = toWorker[v]
  BY <1>1 DEF Take
<1> QED
  BY <1>2, <1>3, <1>4, <1>5 DEF OwnMove

(* What follows when the pipe to the parent does not change. *)
LEMMA OwnChange ==
  ASSUME ReplTypeOK, NEW w \in Workers, Alive(w),
         worker' \in [Workers -> Processes], worker'[w].state # "none",
         \A v \in Workers : v # w => worker'[v] = worker[v],
         toParent' = toParent,
         toWorker' = toWorker \/ (Unread(w) /\ toWorker' = Take(toWorker, w)),
         UNCHANGED <<loopVars, exec, handle, env, history>>
  PROVE  OwnMove(w)
<1>1. /\ toWorker \in [Workers -> Seq(ToWorkerMessage)]
      /\ toParent \in [Workers -> Seq(ToParentMessage)]
  BY TypesNamed
<1>2. toWorker' \in [Workers -> Seq(ToWorkerMessage)]
  <2>1. CASE toWorker' = toWorker
    BY <1>1, <2>1
  <2>2. CASE Unread(w) /\ toWorker' = Take(toWorker, w)
    BY <1>1, <2>2, PipeGives DEF Unread
  <2> QED
    BY <2>1, <2>2
<1>3. \A v \in Workers : v # w => toWorker'[v] = toWorker[v]
  BY <1>1 DEF Take
<1> QED
  BY <1>1, <1>2, <1>3 DEF OwnMove

(* A worker starts, or reports why it cannot. *)
LEMMA BootMoves ==
  ASSUME ReplTypeOK, NEW w \in Workers, Boot(w)
  PROVE  /\ OwnMove(w) /\ worker[w].state = "booting"
         /\ worker'[w].state \in {"idle", "gone"} /\ worker'[w].x = worker[w].x
         /\ toWorker' = toWorker
         /\ toParent[w] = <<>> => Len(toParent'[w]) = 1
<1>0. worker \in [Workers -> Processes] /\ toParent \in [Workers -> Seq(ToParentMessage)]
  BY TypesNamed
<1>1. PICK s \in {"idle", "gone"}, m \in ToParentMessage :
          worker' = WithState(worker, w, s) /\ toParent' = Put(toParent, w, m)
  BY MessageTypes DEF Boot, SetState, Reply, WithState, Put
<1>2. Alive(w) /\ s \in WorkerState /\ s # "none" /\ worker[w].state = "booting"
      /\ toWorker' = toWorker /\ UNCHANGED <<loopVars, exec, handle, env, history>>
  BY <1>1 DEF Boot, Alive, WorkerState
<1>3. OwnMove(w)
  BY <1>1, <1>2, OwnReply
<1>4. worker'[w].state = s /\ worker'[w].x = worker[w].x
  BY <1>0, <1>1, <1>2, StateChanged
<1>5. toParent[w] = <<>> => Len(toParent'[w]) = 1
  BY <1>0, <1>1, PipeGets
<1> QED
  BY <1>1, <1>2, <1>3, <1>4, <1>5

(* It takes the next command: a program, the question for a variable, the  *)
(* end, or what is no command.                                             *)
LEMMA ServeMoves ==
  ASSUME ReplTypeOK, NEW w \in Workers, Serve(w)
  PROVE  /\ OwnMove(w) /\ worker[w].state = "idle" /\ toWorker[w] # <<>>
         /\ worker'[w].x = worker[w].x
         /\ Len(toWorker[w]) = 1 => toWorker'[w] = <<>>
         /\ toWorker[w][1].type = "execute" =>
                /\ worker'[w].state = "running" /\ worker'[w].step = toWorker[w][1].step
                /\ toParent' = toParent
         /\ toWorker[w][1].type = "get" =>
                /\ worker'[w].state = "idle"
                /\ toParent[w] = <<>> =>
                       /\ Len(toParent'[w]) = 1
                       /\ toParent'[w][1].type = "variable"
                       /\ toParent'[w][1].x = Pickled(worker[w].x)
<1>0. /\ worker \in [Workers -> Processes]
      /\ toWorker \in [Workers -> Seq(ToWorkerMessage)]
      /\ toParent \in [Workers -> Seq(ToParentMessage)]
  BY TypesNamed
<1>1. /\ worker[w].state = "idle" /\ Unread(w) /\ toWorker[w] # <<>> /\ Alive(w)
      /\ toWorker' = Take(toWorker, w) /\ UNCHANGED <<loopVars, exec, handle, env, history>>
  BY DEF Serve, Unread, ReadCommand, Take, Alive
<1> DEFINE c == toWorker[w][1]
<1>2. Head(toWorker[w]) = c /\ c \in ToWorkerMessage
  BY <1>0, <1>1, PipeGives
<1>3. /\ c.type \in {"execute", "get", "callback_result", "close"}
      /\ c.step \in 0..MaxIterations
  BY <1>2 DEF ToWorkerMessage
<1>4. Len(toWorker[w]) = 1 => toWorker'[w] = <<>>
  BY <1>0, <1>1, PipeGives
<1>5. CASE c.type = "execute"
  <2>1. worker' = WithCalls(WithStep(WithState(worker, w, "running"), w, c.step), w, 0)
        /\ toParent' = toParent
    BY <1>2, <1>5 DEF Serve, WithCalls, WithStep, WithState
  <2>2. "running" \in WorkerState /\ 0 \in 0..MaxCallbacks
    BY ReplAssumption DEF WorkerState
  <2> DEFINE f == WithState(worker, w, "running")
             g == WithStep(f, w, c.step)
  <2>3. f \in [Workers -> Processes] /\ f[w].state = "running" /\ f[w].x = worker[w].x
        /\ \A v \in Workers : v # w => f[v] = worker[v]
    BY <1>0, <2>2 DEF WithState, Processes
  <2> HIDE DEF f
  <2>4. g \in [Workers -> Processes] /\ g[w].state = "running" /\ g[w].x = worker[w].x
        /\ g[w].step = c.step /\ \A v \in Workers : v # w => g[v] = worker[v]
    BY <1>3, <2>3, StepChanged
  <2> HIDE DEF g
  <2>5. worker' = WithCalls(g, w, 0)
    BY <2>1 DEF f, g
  <2>6. worker' \in [Workers -> Processes] /\ worker'[w].state = "running"
        /\ worker'[w].x = worker[w].x /\ worker'[w].step = c.step
        /\ \A v \in Workers : v # w => worker'[v] = worker[v]
    BY <2>2, <2>4, <2>5, CallsChanged
  <2>7. OwnMove(w)
    BY <1>1, <2>1, <2>6, OwnChange
  <2> QED
    BY <1>1, <1>4, <1>5, <2>1, <2>6, <2>7
<1>6. CASE c.type = "get"
  <2> DEFINE m == [type |-> "variable", step |-> c.step,
                   x |-> Pickled(worker[w].x), final |-> FALSE]
  <2>1. worker' = worker /\ toParent' = Put(toParent, w, m)
    BY <1>2, <1>6 DEF Serve, Reply, Put
  <2>2. m \in ToParentMessage /\ m.type = "variable" /\ m.x = Pickled(worker[w].x)
    BY <1>3, MessageTypes
  <2> HIDE DEF m
  <2>3. OwnMove(w)
    BY <1>1, <2>1, <2>2, OwnReply DEF WorkerState
  <2>4. toParent[w] = <<>> => Len(toParent'[w]) = 1 /\ toParent'[w][1] = m
    BY <1>0, <2>1, <2>2, PipeGets
  <2> QED
    BY <1>1, <1>4, <1>6, <2>1, <2>2, <2>3, <2>4
<1>7. CASE c.type = "close"
  <2>1. worker' = WithState(worker, w, "gone") /\ toParent' = toParent
    BY <1>2, <1>7 DEF Serve, SetState, WithState
  <2>2. "gone" \in WorkerState
    BY DEF WorkerState
  <2>3. worker' \in [Workers -> Processes] /\ worker'[w].state = "gone"
        /\ worker'[w].x = worker[w].x /\ \A v \in Workers : v # w => worker'[v] = worker[v]
    BY <1>0, <2>1, <2>2 DEF WithState, Processes
  <2>4. OwnMove(w)
    BY <1>1, <2>1, <2>3, OwnChange
  <2> QED
    BY <1>1, <1>4, <1>7, <2>3, <2>4
<1>8. CASE c.type = "callback_result"
  <2>1. worker' = worker /\ toParent' = Put(toParent, w, Message(w, "error"))
    BY <1>2, <1>8 DEF Serve, Reply, Put
  <2>2. Message(w, "error") \in ToParentMessage
    BY MessageTypes
  <2>3. OwnMove(w)
    BY <1>1, <2>1, <2>2, OwnReply DEF WorkerState
  <2> QED
    BY <1>1, <1>4, <1>8, <2>1, <2>3
<1> QED
  BY <1>3, <1>5, <1>6, <1>7, <1>8

(* The program gives x a value of its step, none, or one pickle refuses. *)
LEMMA AssignMoves ==
  ASSUME ReplTypeOK, NEW w \in Workers, Assign(w)
  PROVE  /\ OwnMove(w) /\ worker[w].state = "running" /\ worker'[w].state = "running"
         /\ worker'[w].step = worker[w].step
         /\ worker'[w].x \in {worker[w].step, Absent, Opaque}
         /\ toWorker' = toWorker /\ toParent' = toParent
<1>0. worker \in [Workers -> Processes]
  BY TypesNamed
<1>1. PICK x \in {worker[w].step, Absent, Opaque} : worker' = WithX(worker, w, x)
  BY DEF Assign, WithX
<1>2. x \in Value
  <2>1. worker[w].step \in 0..MaxIterations
    BY <1>0 DEF Processes
  <2> QED
    BY <1>1, <2>1, ReplAssumption DEF Value, Absent, Opaque
<1>3. Alive(w) /\ worker[w].state = "running" /\ toWorker' = toWorker /\ toParent' = toParent
      /\ UNCHANGED <<loopVars, exec, handle, env, history>>
  BY DEF Assign, Alive
<1>4. worker' \in [Workers -> Processes] /\ worker'[w].x = x
      /\ worker'[w].state = worker[w].state /\ worker'[w].step = worker[w].step
  BY <1>0, <1>1, <1>2, XChanged
<1>5. \A v \in Workers : v # w => worker'[v] = worker[v]
  BY <1>0, <1>1 DEF WithX
<1>6. OwnMove(w)
  BY <1>3, <1>4, <1>5, OwnChange
<1> QED
  BY <1>1, <1>3, <1>4, <1>6

(* It asks for a query. *)
LEMMA CallQueryMoves ==
  ASSUME ReplTypeOK, NEW w \in Workers, CallQuery(w)
  PROVE  /\ OwnMove(w) /\ worker[w].state = "running" /\ worker'[w].state = "calling"
         /\ worker'[w].step = worker[w].step /\ worker'[w].x = worker[w].x
         /\ toWorker' = toWorker
         /\ toParent[w] = <<>> =>
                /\ Len(toParent'[w]) = 1 /\ toParent'[w][1].type = "callback"
                /\ toParent'[w][1].step = worker[w].step
                /\ toParent'[w][1].x = worker[w].x
<1>0. /\ worker \in [Workers -> Processes]
      /\ toWorker \in [Workers -> Seq(ToWorkerMessage)]
      /\ toParent \in [Workers -> Seq(ToParentMessage)]
  BY TypesNamed
<1> DEFINE f == WithState(worker, w, "calling")
           n == worker[w].calls + 1
           m == Message(w, "callback")
<1>1. worker' = WithCalls(f, w, n) /\ toParent' = Put(toParent, w, m)
  <2>1. worker' = [worker EXCEPT ![w].state = "calling", ![w].calls = @ + 1]
    BY DEF CallQuery
  <2>2. worker' = [worker EXCEPT ![w].state = "calling", ![w].calls = worker[w].calls + 1]
    BY <1>0, <2>1 DEF Processes
  <2> QED
    BY <2>2 DEF CallQuery, WithState, WithCalls, Reply, Put
<1>2. n \in 0..MaxCallbacks
  <2>1. worker[w].calls \in 0..MaxCallbacks /\ worker[w].calls < MaxCallbacks
    BY <1>0 DEF CallQuery, Processes
  <2> QED
    BY <2>1, ReplAssumption
<1>3. m \in ToParentMessage /\ m.type = "callback" /\ m.step = worker[w].step
      /\ m.x = worker[w].x
  BY MessageTypes
<1>4. Alive(w) /\ worker[w].state = "running" /\ toWorker' = toWorker
      /\ UNCHANGED <<loopVars, exec, handle, env, history>>
  BY DEF CallQuery, Alive
<1>5. "calling" \in WorkerState
  BY DEF WorkerState
<1>6. f \in [Workers -> Processes] /\ f[w].state = "calling"
      /\ f[w].step = worker[w].step /\ f[w].x = worker[w].x
  BY <1>0, <1>5 DEF WithState, Processes
<1>7. \A v \in Workers : v # w => f[v] = worker[v]
  BY <1>0 DEF WithState
<1> HIDE DEF f, n, m
<1>8. worker' \in [Workers -> Processes] /\ worker'[w].state = "calling"
      /\ worker'[w].step = worker[w].step /\ worker'[w].x = worker[w].x
  BY <1>1, <1>2, <1>6, CallsChanged
<1>9. \A v \in Workers : v # w => worker'[v] = worker[v]
  BY <1>1, <1>6, <1>7 DEF WithCalls
<1>10. toParent' \in [Workers -> Seq(ToParentMessage)]
       /\ (toParent[w] = <<>> => Len(toParent'[w]) = 1 /\ toParent'[w][1] = m)
  <2>1. toParent' \in [Workers -> Seq(ToParentMessage)]
    BY <1>0, <1>1, <1>3, PipeGets
  <2>2. toParent[w] = <<>> => Len(toParent'[w]) = 1 /\ toParent'[w][1] = m
    BY <1>0, <1>1, <1>3, PipeGets
  <2> QED
    BY <2>1, <2>2
<1>11. \A v \in Workers : v # w => toParent'[v] = toParent[v]
  BY <1>0, <1>1 DEF Put
<1>12. OwnMove(w)
  BY <1>0, <1>4, <1>8, <1>9, <1>10, <1>11 DEF OwnMove
<1> QED
  BY <1>3, <1>4, <1>8, <1>10, <1>12

(* What follows when only the state changes. *)
LEMMA StateMoves ==
  ASSUME ReplTypeOK, NEW w \in Workers, NEW s \in WorkerState, SetState(w, s)
  PROVE  /\ worker' \in [Workers -> Processes] /\ worker'[w].state = s
         /\ worker'[w].step = worker[w].step /\ worker'[w].x = worker[w].x
         /\ \A v \in Workers : v # w => worker'[v] = worker[v]
<1>0. worker \in [Workers -> Processes]
  BY TypesNamed
<1>1. worker' = WithState(worker, w, s)
  BY DEF SetState, WithState
<1>2. \A v \in Workers : v # w => worker'[v] = worker[v]
  BY <1>0, <1>1 DEF WithState
<1> QED
  BY <1>0, <1>1, <1>2, StateChanged

(* It reads the reply. *)
LEMMA ReadReplyMoves ==
  ASSUME ReplTypeOK, NEW w \in Workers, ReadReply(w)
  PROVE  /\ OwnMove(w) /\ worker[w].state = "calling" /\ worker'[w].state = "running"
         /\ worker'[w].step = worker[w].step /\ worker'[w].x = worker[w].x
         /\ toWorker[w] # <<>> /\ toParent' = toParent
         /\ Len(toWorker[w]) = 1 => toWorker'[w] = <<>>
<1>0. toWorker \in [Workers -> Seq(ToWorkerMessage)]
  BY TypesNamed
<1>1. /\ worker[w].state = "calling" /\ Alive(w) /\ Unread(w) /\ toWorker[w] # <<>>
      /\ toWorker' = Take(toWorker, w) /\ toParent' = toParent
      /\ UNCHANGED <<loopVars, exec, handle, env, history>>
  BY DEF ReadReply, Unread, ReadCommand, Take, Alive
<1>2. /\ worker' \in [Workers -> Processes] /\ worker'[w].state = "running"
      /\ worker'[w].step = worker[w].step /\ worker'[w].x = worker[w].x
      /\ \A v \in Workers : v # w => worker'[v] = worker[v]
  BY StateMoves DEF ReadReply, WorkerState
<1>3. OwnMove(w)
  BY <1>1, <1>2, OwnChange
<1>4. Len(toWorker[w]) = 1 => toWorker'[w] = <<>>
  BY <1>0, <1>1, PipeGives
<1> QED
  BY <1>1, <1>2, <1>3, <1>4

(* The program ends: the answer is its own, with its variables. *)
LEMMA EndProgramMoves ==
  ASSUME ReplTypeOK, NEW w \in Workers, EndProgram(w)
  PROVE  /\ OwnMove(w) /\ worker[w].state = "running" /\ worker'[w].state = "idle"
         /\ worker'[w].x = worker[w].x /\ toWorker' = toWorker
         /\ toParent[w] = <<>> =>
                /\ Len(toParent'[w]) = 1 /\ toParent'[w][1].type # "callback"
                /\ toParent'[w][1].step = worker[w].step
                /\ toParent'[w][1].x = worker[w].x
<1>0. toParent \in [Workers -> Seq(ToParentMessage)] /\ worker \in [Workers -> Processes]
  BY TypesNamed
<1>1. \E m \in ToParentMessage :
          /\ toParent' = Put(toParent, w, m)
          /\ m.type # "callback" /\ m.step = worker[w].step /\ m.x = worker[w].x
  <2>1. CASE Reply(w, Message(w, "error"))
    <3> DEFINE m == Message(w, "error")
    <3>1. m \in ToParentMessage /\ m.type # "callback"
          /\ m.step = worker[w].step /\ m.x = worker[w].x
      BY MessageTypes
    <3>2. toParent' = Put(toParent, w, m)
      BY <2>1 DEF Reply, Put
    <3> QED
      BY <3>1, <3>2
  <2>2. ASSUME NEW final \in BOOLEAN,
               Reply(w, [Message(w, "result") EXCEPT !.final = final])
        PROVE  \E m \in ToParentMessage :
                   /\ toParent' = Put(toParent, w, m)
                   /\ m.type # "callback" /\ m.step = worker[w].step /\ m.x = worker[w].x
    <3> DEFINE m == [Message(w, "result") EXCEPT !.final = final]
    <3>1. m \in ToParentMessage /\ m.type # "callback"
          /\ m.step = worker[w].step /\ m.x = worker[w].x
      BY MessageTypes
    <3>2. toParent' = Put(toParent, w, m)
      BY <2>2 DEF Reply, Put
    <3> QED
      BY <3>1, <3>2
  <2> QED
    BY <2>1, <2>2 DEF EndProgram
<1>2. PICK m \in ToParentMessage :
          /\ toParent' = Put(toParent, w, m)
          /\ m.type # "callback" /\ m.step = worker[w].step /\ m.x = worker[w].x
  BY <1>1
<1>3. /\ worker[w].state = "running" /\ Alive(w) /\ toWorker' = toWorker
      /\ worker' = WithState(worker, w, "idle") /\ SetState(w, "idle")
      /\ UNCHANGED <<loopVars, exec, handle, env, history>>
  BY DEF EndProgram, Alive, SetState, WithState
<1>4. worker'[w].state = "idle" /\ worker'[w].x = worker[w].x /\ "idle" \in WorkerState
  BY <1>3, StateMoves DEF WorkerState
<1>5. OwnMove(w)
  BY <1>2, <1>3, <1>4, OwnReply
<1>6. toParent[w] = <<>> => Len(toParent'[w]) = 1 /\ toParent'[w][1] = m
  BY <1>0, <1>2, PipeGets
<1> QED
  BY <1>2, <1>3, <1>4, <1>5, <1>6

(* The process is gone. *)
LEMMA GoneMoves ==
  ASSUME ReplTypeOK, NEW w \in Workers, LoseParent(w) \/ Die(w)
  PROVE  /\ OwnMove(w) /\ worker'[w].state = "gone"
         /\ toWorker' = toWorker /\ toParent' = toParent
<1>1. /\ SetState(w, "gone") /\ Alive(w) /\ toWorker' = toWorker /\ toParent' = toParent
      /\ UNCHANGED <<loopVars, exec, handle, env, history>> /\ "gone" \in WorkerState
  BY DEF LoseParent, Die, Alive, WorkerState
<1>2. /\ worker' \in [Workers -> Processes] /\ worker'[w].state = "gone"
      /\ \A v \in Workers : v # w => worker'[v] = worker[v]
  BY <1>1, StateMoves
<1>3. OwnMove(w)
  BY <1>1, <1>2, OwnChange
<1> QED
  BY <1>1, <1>2, <1>3

(* Every step of a worker is such a step. *)
LEMMA WorkerMoves ==
  ASSUME ReplTypeOK, NEW w \in Workers, WorkerStep(w)
  PROVE  OwnMove(w)
  BY BootMoves, ServeMoves, AssignMoves, CallQueryMoves, ReadReplyMoves, EndProgramMoves,
     GoneMoves DEF WorkerStep

-----------------------------------------------------------------------------
(* The steps of the executor.                                              *)

(* execute takes the worker it has, or the next one, which starts with the *)
(* parent's copy.                                                          *)
LEMMA ExecuteMoves ==
  ASSUME ReplTypeOK, CallsMatch, Execute
  PROVE  /\ core = "choose" /\ core' = "step" /\ iter' = iter + 1 /\ iter' \in 0..MaxIterations
         /\ exec.pc = "out" /\ exec' \in Calls /\ exec'.op = "execute"
         /\ UNCHANGED <<outcome, env, toWorker, toParent, history>>
         /\ \/ /\ handle # NoWorker /\ Alive(handle) /\ exec'.pc = "sending"
               /\ handle' = handle /\ worker' = worker
            \/ /\ ~(handle # NoWorker /\ Alive(handle)) /\ exec'.pc = "starting"
               /\ handle' \in Workers /\ worker[handle'].state = "none"
               /\ worker' \in [Workers -> Processes]
               /\ worker'[handle'].state = "booting" /\ worker'[handle'].x = env
               /\ \A v \in Workers : v # handle' => worker'[v] = worker[v]
               /\ \E n \in 0..iter' : \A w \in Workers : worker'[w].state = "none" <=> n < w
<1>0. /\ worker \in [Workers -> Processes] /\ iter \in 0..MaxIterations
      /\ env \in Value /\ MaxIterations \in Nat /\ exec \in Calls
  BY TypesNamed, ReplAssumption
<1>1. /\ core = "choose" /\ core' = "step" /\ iter < MaxIterations /\ iter' = iter + 1
      /\ exec.pc = "out" /\ UNCHANGED <<outcome, env, toWorker, toParent, history>>
  BY DEF Execute, NextIteration
<1>2. iter' \in 0..MaxIterations
  BY <1>0, <1>1
<1>3. CASE handle # NoWorker /\ Alive(handle)
  <2>1. exec' = [exec EXCEPT !.pc = "sending", !.op = "execute"]
        /\ handle' = handle /\ worker' = worker
    BY <1>3 DEF Execute
  <2>2. exec' \in Calls /\ exec'.pc = "sending" /\ exec'.op = "execute"
    BY <1>0, <2>1 DEF Calls
  <2> QED
    BY <1>1, <1>2, <1>3, <2>1, <2>2
<1>4. CASE ~(handle # NoWorker /\ Alive(handle))
  <2>1. exec' = [exec EXCEPT !.pc = "starting", !.op = "execute"]
        /\ handle' = Spawned /\ worker' = [worker EXCEPT ![Spawned] = NewWorker]
    BY <1>4 DEF Execute
  <2>2. exec' \in Calls /\ exec'.pc = "starting" /\ exec'.op = "execute"
    BY <1>0, <2>1 DEF Calls
  <2>3. PICK n \in 0..iter : \A w \in Workers : worker[w].state = "none" <=> n < w
    BY DEF CallsMatch
  <2>4. Spawned = n + 1 /\ n + 1 \in Workers
    BY <1>1, <2>3, SpawnedNext
  <2>5. NewWorker \in Processes /\ NewWorker.state = "booting" /\ NewWorker.x = env
    BY <1>0, ReplAssumption DEF NewWorker, Processes, WorkerState
  <2>6. /\ worker' \in [Workers -> Processes] /\ worker'[n + 1] = NewWorker
        /\ \A v \in Workers : v # n + 1 => worker'[v] = worker[v]
    BY <1>0, <2>1, <2>4, <2>5
  <2>7. worker[n + 1].state = "none"
    BY <1>0, <2>3, <2>4
  <2>8. n + 1 \in 0..iter' /\ \A w \in Workers : worker'[w].state = "none" <=> n + 1 < w
    <3>1. n + 1 \in 0..iter'
      BY <1>0, <1>1
    <3>2. ASSUME NEW w \in Workers PROVE worker'[w].state = "none" <=> n + 1 < w
      <4>1. CASE w = n + 1
        BY <1>0, <2>5, <2>6, <4>1
      <4>2. CASE w # n + 1
        <5>1. worker'[w].state = "none" <=> n < w
          BY <2>3, <2>6, <4>2
        <5>2. n < w <=> n + 1 < w
          BY <1>0, <4>2 DEF Workers
        <5> QED
          BY <5>1, <5>2
      <4> QED
        BY <4>1, <4>2
    <3> QED
      BY <3>1, <3>2
  <2>9. \E k \in 0..iter' : \A w \in Workers : worker'[w].state = "none" <=> k < w
    BY <2>8
  <2> QED
    BY <1>1, <1>2, <1>4, <2>1, <2>2, <2>4, <2>5, <2>6, <2>7, <2>9
<1> QED
  BY <1>3, <1>4

(* The worker is ready. *)
LEMMA ReadyMoves ==
  ASSUME ReplTypeOK, ReceiveReady
  PROVE  /\ exec.pc = "starting" /\ exec' \in Calls /\ exec'.pc = "sending"
         /\ exec'.op = exec.op /\ exec'.joins = exec.joins
         /\ toParent' \in [Workers -> Seq(ToParentMessage)] /\ handle \in Workers
         /\ toParent[handle] # <<>>
         /\ Len(toParent[handle]) = 1 => toParent'[handle] = <<>>
         /\ \A v \in Workers : v # handle => toParent'[v] = toParent[v]
         /\ UNCHANGED <<loopVars, handle, env, worker, toWorker, history>>
<1>0. toParent \in [Workers -> Seq(ToParentMessage)]
  BY TypesNamed
<1>1. /\ exec.pc = "starting" /\ exec' = [exec EXCEPT !.pc = "sending"]
      /\ toParent[handle] # <<>> /\ toParent' = Take(toParent, handle)
      /\ UNCHANGED <<loopVars, handle, env, worker, toWorker, history>> /\ handle # NoWorker
  BY DEF ReceiveReady, HasMessage, Inbox, TakeMessage, Take
<1>2. handle \in Workers
  BY <1>1, HandleIsWorker
<1>3. exec' \in Calls /\ exec'.pc = "sending" /\ exec'.op = exec.op /\ exec'.joins = exec.joins
  <2>1. exec \in Calls
    BY TypesNamed
  <2> QED
    BY <1>1, <2>1 DEF Calls
<1>4. toParent' \in [Workers -> Seq(ToParentMessage)]
  BY <1>0, <1>1, <1>2, PipeGives
<1>5. Len(toParent[handle]) = 1 => toParent'[handle] = <<>>
  BY <1>0, <1>1, <1>2, PipeGives
<1>6. \A v \in Workers : v # handle => toParent'[v] = toParent[v]
  BY <1>0, <1>1 DEF Take
<1> QED
  BY <1>1, <1>2, <1>3, <1>4, <1>5, <1>6

(* The worker asks for a query. *)
LEMMA CallbackMoves ==
  ASSUME ReplTypeOK, ReceiveCallback
  PROVE  /\ exec.pc = "waiting" /\ exec' \in Calls /\ exec'.pc = "callback"
         /\ exec'.op = exec.op /\ exec'.joins = exec.joins
         /\ toParent' \in [Workers -> Seq(ToParentMessage)] /\ handle \in Workers
         /\ toParent[handle] # <<>> /\ toParent[handle][1].type = "callback"
         /\ Len(toParent[handle]) = 1 => toParent'[handle] = <<>>
         /\ \A v \in Workers : v # handle => toParent'[v] = toParent[v]
         /\ UNCHANGED <<loopVars, handle, env, worker, toWorker, history>>
<1>0. toParent \in [Workers -> Seq(ToParentMessage)]
  BY TypesNamed
<1>1. /\ exec.pc = "waiting" /\ Head(toParent[handle]).type = "callback"
      /\ toParent[handle] # <<>> /\ toParent' = Take(toParent, handle)
      /\ UNCHANGED <<loopVars, handle, env, worker, toWorker, history>> /\ handle # NoWorker
  BY DEF ReceiveCallback, HasMessage, Inbox, TakeMessage, Take
<1>2. handle \in Workers
  BY <1>1, HandleIsWorker
<1>3. exec' \in Calls /\ exec'.pc = "callback" /\ exec'.op = exec.op /\ exec'.joins = exec.joins
  <2>1. PICK left \in BOOLEAN : exec' = [exec EXCEPT !.pc = "callback", !.left = left]
    BY DEF ReceiveCallback
  <2>2. exec \in Calls
    BY TypesNamed
  <2> QED
    BY <2>1, <2>2 DEF Calls
<1>4. toParent' \in [Workers -> Seq(ToParentMessage)]
  BY <1>0, <1>1, <1>2, PipeGives
<1>5. Len(toParent[handle]) = 1 => toParent'[handle] = <<>>
  BY <1>0, <1>1, <1>2, PipeGives
<1>6. Head(toParent[handle]) = toParent[handle][1]
  BY <1>0, <1>1, <1>2, PipeGives
<1>7. \A v \in Workers : v # handle => toParent'[v] = toParent[v]
  BY <1>0, <1>1 DEF Take
<1> QED
  BY <1>1, <1>2, <1>3, <1>4, <1>5, <1>6, <1>7

(* Every step of a call: it goes on, in the loop's eyes as before, or it   *)
(* ends; the worker is kept or given up; only its own pipes change.        *)
ExecutorMove ==
    /\ exec.pc # "out" /\ iter' = iter
    /\ exec' \in Calls /\ exec'.joins = exec.joins
    /\ exec'.pc \in {"starting", "sending", "callback"} => exec'.op = "execute"
    /\ \/ exec'.pc # "out" /\ UNCHANGED <<core, outcome, handle>>
       \/ exec'.pc = "out" /\ \E x \in Value : Goes(x)
    /\ \/ handle' = handle /\ worker' = worker
       \/ handle' = NoWorker /\ worker' \in [Workers -> Processes]
          /\ \A w \in Workers :
                 worker'[w].state = IF w = handle THEN "gone" ELSE worker[w].state
    /\ toWorker' \in [Workers -> Seq(ToWorkerMessage)]
    /\ toParent' \in [Workers -> Seq(ToParentMessage)]
    /\ \A v \in Workers : v # handle => toWorker'[v] = toWorker[v] /\ toParent'[v] = toParent[v]
    /\ env' \in Value \ {Opaque} /\ picked' \in Value \ {Opaque}
    /\ heard' \in [asked : 0..MaxIterations, by : 0..MaxIterations]

(* The history variables and the parent's copy, when a step leaves them. *)
LEMMA CopiesTyped ==
  ASSUME ReplTypeOK, UNCHANGED <<env, history>>
  PROVE  /\ env' \in Value \ {Opaque} /\ picked' \in Value \ {Opaque}
         /\ heard' \in [asked : 0..MaxIterations, by : 0..MaxIterations]
  BY TypesNamed DEF history

(* A command goes to the worker. *)
LEMMA Told ==
  ASSUME ReplTypeOK, handle \in Workers,
         NEW type \in {"execute", "get", "callback_result", "close"},
         toWorker' = Put(toWorker, handle, Command(type))
  PROVE  /\ toWorker' \in [Workers -> Seq(ToWorkerMessage)]
         /\ toWorker[handle] = <<>> =>
                Len(toWorker'[handle]) = 1 /\ toWorker'[handle][1].type = type
                /\ toWorker'[handle][1].step = iter
         /\ \A v \in Workers : v # handle => toWorker'[v] = toWorker[v]
<1>1. toWorker \in [Workers -> Seq(ToWorkerMessage)]
  BY TypesNamed
<1> DEFINE m == Command(type)
<1>2. m \in ToWorkerMessage /\ m.type = type /\ m.step = iter
  BY MessageTypes
<1>3. toWorker' = Put(toWorker, handle, m)
  OBVIOUS
<1> HIDE DEF m
<1>4. toWorker' \in [Workers -> Seq(ToWorkerMessage)]
  BY <1>1, <1>2, <1>3, PipeGets
<1>5. toWorker[handle] = <<>> => Len(toWorker'[handle]) = 1 /\ toWorker'[handle][1] = m
  BY <1>1, <1>2, <1>3, PipeGets
<1>6. \A v \in Workers : v # handle => toWorker'[v] = toWorker[v]
  BY <1>1, <1>3 DEF Put
<1> QED
  BY <1>2, <1>4, <1>5, <1>6

(* The executor takes the first message of its worker. *)
LEMMA Taken ==
  ASSUME ReplTypeOK, HasMessage, TakeMessage
  PROVE  /\ handle \in Workers /\ toParent[handle] # <<>>
         /\ Head(Inbox) = toParent[handle][1] /\ toParent[handle][1] \in ToParentMessage
         /\ toParent' \in [Workers -> Seq(ToParentMessage)]
         /\ Len(toParent[handle]) = 1 => toParent'[handle] = <<>>
         /\ \A v \in Workers : v # handle => toParent'[v] = toParent[v]
<1>1. toParent \in [Workers -> Seq(ToParentMessage)]
  BY TypesNamed
<1>2. handle \in Workers /\ toParent[handle] # <<>> /\ toParent' = Take(toParent, handle)
  BY HandleIsWorker DEF HasMessage, Inbox, TakeMessage, Take
<1>3. Head(Inbox) = toParent[handle][1] /\ toParent[handle][1] \in ToParentMessage
  BY <1>1, <1>2, PipeGives DEF Inbox
<1>4. toParent' \in [Workers -> Seq(ToParentMessage)]
  BY <1>1, <1>2, PipeGives
<1>5. Len(toParent[handle]) = 1 => toParent'[handle] = <<>>
  BY <1>1, <1>2, PipeGives
<1>6. \A v \in Workers : v # handle => toParent'[v] = toParent[v]
  BY <1>1, <1>2 DEF Take
<1> QED
  BY <1>2, <1>3, <1>4, <1>5, <1>6

(* The program is sent, or the pipe is broken. *)
LEMMA SendMoves ==
  ASSUME ReplTypeOK, CallsMatch, SendProgram
  PROVE  /\ exec.pc = "sending" /\ exec.op = "execute" /\ ExecutorMove
         /\ UNCHANGED <<iter, handle, env, worker, toParent, history>>
         /\ exec'.pc = "waiting" \/ exec'.pc = "out"
         /\ exec'.pc = "waiting" =>
                /\ exec'.op = "execute"
                /\ toWorker[handle] = <<>> =>
                       Len(toWorker'[handle]) = 1 /\ toWorker'[handle][1].type = "execute"
                       /\ toWorker'[handle][1].step = iter
         /\ exec'.pc = "out" => Goes(env)
<1>1. /\ exec.pc = "sending" /\ exec.op = "execute" /\ handle \in Workers
      /\ UNCHANGED <<iter, handle, env, worker, toParent, history>>
  BY HandleIsWorker DEF SendProgram, CallsMatch
<1>2. exec \in Calls /\ toWorker \in [Workers -> Seq(ToWorkerMessage)]
      /\ toParent \in [Workers -> Seq(ToParentMessage)] /\ env \in Value
  BY TypesNamed
<1>3. CASE Alive(handle)
  <2>1. exec' = [exec EXCEPT !.pc = "waiting"] /\ UNCHANGED <<core, outcome>>
        /\ toWorker' = Put(toWorker, handle, Command("execute"))
    BY <1>3 DEF SendProgram, Put
  <2>2. exec' \in Calls /\ exec'.pc = "waiting" /\ exec'.op = "execute"
        /\ exec'.joins = exec.joins
    BY <1>1, <1>2, <2>1 DEF Calls
  <2>3. /\ toWorker' \in [Workers -> Seq(ToWorkerMessage)]
        /\ toWorker[handle] = <<>> =>
               Len(toWorker'[handle]) = 1 /\ toWorker'[handle][1].type = "execute"
               /\ toWorker'[handle][1].step = iter
        /\ \A v \in Workers : v # handle => toWorker'[v] = toWorker[v]
    BY <1>1, <2>1, Told
  <2> QED
    BY <1>1, <1>2, <2>1, <2>2, <2>3, CopiesTyped DEF ExecutorMove
<1>4. CASE ~Alive(handle)
  <2>1. LeaveExecutor /\ Resume(Feedback) /\ toWorker' = toWorker
    BY <1>4 DEF SendProgram
  <2>2. exec' \in Calls /\ exec'.pc = "out" /\ exec'.joins = exec.joins
    BY <2>1, CallLeft
  <2>3. Goes(env)
    BY <2>1, Returns
  <2> QED
    BY <1>1, <1>2, <2>1, <2>2, <2>3, CopiesTyped DEF ExecutorMove
<1> QED
  BY <1>3, <1>4

(* The query is answered; or a limit is exceeded and the call ends, as it  *)
(* does when the pipe is broken.                                           *)
LEMMA AnswerMoves ==
  ASSUME ReplTypeOK, CallsMatch, CallbackReturns \/ AbortStep
  PROVE  /\ exec.pc = "callback" /\ exec.op = "execute" /\ ExecutorMove
         /\ UNCHANGED <<iter, handle, env, worker, toParent, history>>
         /\ exec'.pc = "waiting" \/ exec'.pc = "out"
         /\ exec'.pc = "waiting" =>
                /\ exec'.op = "execute"
                /\ toWorker[handle] = <<>> =>
                       Len(toWorker'[handle]) = 1
                       /\ toWorker'[handle][1].type = "callback_result"
         /\ exec'.pc = "out" => Goes(env)
<1>1. /\ exec.pc = "callback" /\ exec.op = "execute" /\ handle \in Workers
      /\ UNCHANGED <<iter, handle, env, worker, toParent, history>>
  BY HandleIsWorker DEF CallbackReturns, AbortStep, CallsMatch
<1>2. exec \in Calls /\ toWorker \in [Workers -> Seq(ToWorkerMessage)]
      /\ toParent \in [Workers -> Seq(ToParentMessage)] /\ env \in Value
  BY TypesNamed
<1>3. CASE CallbackReturns /\ Alive(handle)
  <2>1. exec' = [exec EXCEPT !.pc = "waiting"] /\ UNCHANGED <<core, outcome>>
        /\ toWorker' = Put(toWorker, handle, Command("callback_result"))
    BY <1>3 DEF CallbackReturns, Put
  <2>2. exec' \in Calls /\ exec'.pc = "waiting" /\ exec'.op = "execute"
        /\ exec'.joins = exec.joins
    BY <1>1, <1>2, <2>1 DEF Calls
  <2>3. /\ toWorker' \in [Workers -> Seq(ToWorkerMessage)]
        /\ toWorker[handle] = <<>> =>
               Len(toWorker'[handle]) = 1 /\ toWorker'[handle][1].type = "callback_result"
        /\ \A v \in Workers : v # handle => toWorker'[v] = toWorker[v]
    BY <1>1, <2>1, Told
  <2> QED
    BY <1>1, <1>2, <2>1, <2>2, <2>3, CopiesTyped DEF ExecutorMove
<1>4. CASE ~(CallbackReturns /\ Alive(handle))
  <2>1. /\ LeaveExecutor
        /\ Resume(Feedback) \/ Resume(Conclude("budget", Absent))
        /\ toWorker' = toWorker \/ toWorker' = Put(toWorker, handle, Command("callback_result"))
    BY <1>4 DEF CallbackReturns, AbortStep, Put
  <2>2. exec' \in Calls /\ exec'.pc = "out" /\ exec'.joins = exec.joins
    BY <2>1, CallLeft
  <2>3. Goes(env)
    BY <2>1, Returns
  <2>4. /\ toWorker' \in [Workers -> Seq(ToWorkerMessage)]
        /\ \A v \in Workers : v # handle => toWorker'[v] = toWorker[v]
    BY <1>1, <1>2, <2>1, Told
  <2> QED
    BY <1>1, <1>2, <2>2, <2>3, <2>4, CopiesTyped DEF ExecutorMove
<1> QED
  BY <1>3, <1>4

(* The worker is given up before it is ready, or without an answer. *)
LEMMA LostMoves ==
  ASSUME ReplTypeOK, StartFails \/ StepLost
  PROVE  /\ ExecutorMove /\ exec'.pc = "out" /\ Goes(env) /\ handle' = NoWorker
         /\ UNCHANGED <<iter, env, history>>
<1>1. /\ exec.pc # "out" /\ Discard /\ LeaveExecutor /\ Resume(ErrorReturned)
      /\ UNCHANGED <<iter, env, history>>
  BY DEF StartFails, StepLost
<1>2. exec' \in Calls /\ exec'.pc = "out" /\ exec'.joins = exec.joins
  BY <1>1, CallLeft
<1>3. Goes(env) /\ env \in Value
  BY <1>1, Returns, TypesNamed
<1>4. /\ handle' = NoWorker /\ worker' \in [Workers -> Processes]
      /\ \A w \in Workers :
             worker'[w].state = IF w = handle THEN "gone" ELSE worker[w].state
      /\ toWorker' = toWorker /\ toParent' = toParent
  BY <1>1, Discarded
<1>5. toWorker \in [Workers -> Seq(ToWorkerMessage)]
      /\ toParent \in [Workers -> Seq(ToParentMessage)]
  BY TypesNamed
<1> QED
  BY <1>1, <1>2, <1>3, <1>4, <1>5, CopiesTyped DEF ExecutorMove

(* Taking a ready or a callback message is such a step. *)
LEMMA TakesMove ==
  ASSUME ReplTypeOK, CallsMatch, PipesInStep, ReceiveReady \/ ReceiveCallback
  PROVE  ExecutorMove
<1>1. /\ exec.pc # "out" /\ exec' \in Calls /\ exec'.pc \in {"sending", "callback"}
      /\ exec'.op = exec.op /\ exec'.joins = exec.joins
      /\ toParent' \in [Workers -> Seq(ToParentMessage)]
      /\ \A v \in Workers : v # handle => toParent'[v] = toParent[v]
      /\ UNCHANGED <<loopVars, handle, env, worker, toWorker, history>>
  BY ReadyMoves, CallbackMoves
<1>2. exec.op = "execute"
  <2>1. CASE ReceiveReady
    BY <2>1 DEF ReceiveReady, CallsMatch
  <2>2. CASE ReceiveCallback
    <3>1. /\ exec.pc = "waiting" /\ handle \in Workers /\ toParent[handle] # <<>>
          /\ toParent[handle][1].type = "callback"
      BY <2>2, CallbackMoves
    <3>2. 1 \in 1..Len(toParent[handle])
      <4>1. toParent[handle] \in Seq(ToParentMessage)
        BY <3>1, TypesNamed
      <4>2. Len(toParent[handle]) \in Nat /\ Len(toParent[handle]) > 0
        BY <3>1, <4>1, OneMessage
      <4> QED
        BY <4>2
    <3>3. InUse
      BY <3>1, ReplAssumption DEF InUse, Workers, NoWorker
    <3>4. exec.op # "execute" => toParent[handle][1].type = "variable"
      BY <3>1, <3>2, <3>3 DEF PipesInStep, Fits
    <3> QED
      BY <3>1, <3>4
  <2> QED
    BY <2>1, <2>2
<1>3. toWorker \in [Workers -> Seq(ToWorkerMessage)]
  BY TypesNamed
<1> QED
  BY <1>1, <1>2, <1>3, CopiesTyped DEF ExecutorMove, loopVars

(* FINAL_VAR: the worker is asked, or the parent's copy answers, or the    *)
(* pipe is broken.                                                         *)
LEMMA AskMoves ==
  ASSUME ReplTypeOK, AskVariable
  PROVE  /\ core = "choose" /\ iter < MaxIterations /\ iter' = iter + 1
         /\ iter' \in 0..MaxIterations /\ exec.pc = "out"
         /\ UNCHANGED <<handle, env, worker, toParent, history>>
         /\ \/ /\ handle \in Workers /\ Alive(handle) /\ core' = "ask" /\ outcome' = outcome
               /\ exec' \in Calls /\ exec'.pc = "waiting" /\ exec'.op = "get"
               /\ toWorker' \in [Workers -> Seq(ToWorkerMessage)]
               /\ toWorker[handle] = <<>> =>
                      Len(toWorker'[handle]) = 1 /\ toWorker'[handle][1].type = "get"
               /\ \A v \in Workers : v # handle => toWorker'[v] = toWorker[v]
            \/ /\ exec' = exec /\ toWorker' = toWorker
               /\ \/ core' = "choose" /\ outcome' = outcome /\ handle = NoWorker
                  \/ /\ core' = "closing" /\ outcome' \in Outcomes
                     /\ outcome'.how \in {"snapshot", "failed"}
                     /\ outcome'.how = "snapshot" => outcome'.x = env
<1>1. /\ core = "choose" /\ iter < MaxIterations /\ iter' = iter + 1 /\ exec.pc = "out"
      /\ UNCHANGED <<handle, env, worker, toParent, history>>
  BY DEF AskVariable, NextIteration
<1>2. iter \in 0..MaxIterations /\ MaxIterations \in Nat /\ exec \in Calls /\ env \in Value
  BY TypesNamed, ReplAssumption
<1>3. iter' \in 0..MaxIterations
  BY <1>1, <1>2
<1>4. CASE handle = NoWorker
  <2>1. AnswerFromSnapshot /\ exec' = exec /\ toWorker' = toWorker
    BY <1>4 DEF AskVariable
  <2>2. CASE env # Absent
    <3>1. core' = "closing" /\ outcome' = [how |-> "snapshot", x |-> env]
      BY <2>1, <2>2 DEF AnswerFromSnapshot, Conclude
    <3>2. outcome' \in Outcomes /\ outcome'.how = "snapshot" /\ outcome'.x = env
      BY <1>2, <3>1 DEF Outcomes
    <3> QED
      BY <1>1, <1>3, <2>1, <3>1, <3>2
  <2>3. CASE env = Absent
    <3>1. core' = "choose" /\ outcome' = outcome
      BY <2>1, <2>3 DEF AnswerFromSnapshot, Feedback
    <3> QED
      BY <1>1, <1>3, <1>4, <2>1, <3>1
  <2> QED
    BY <2>2, <2>3
<1>5. CASE handle # NoWorker /\ Alive(handle)
  <2>1. /\ core' = "ask" /\ outcome' = outcome
        /\ exec' = [exec EXCEPT !.pc = "waiting", !.op = "get"]
        /\ toWorker' = Put(toWorker, handle, Command("get"))
    BY <1>5 DEF AskVariable, Put
  <2>2. handle \in Workers
    BY <1>5, HandleIsWorker
  <2>3. exec' \in Calls /\ exec'.pc = "waiting" /\ exec'.op = "get"
    BY <1>2, <2>1 DEF Calls
  <2>4. /\ toWorker' \in [Workers -> Seq(ToWorkerMessage)]
        /\ toWorker[handle] = <<>> =>
               Len(toWorker'[handle]) = 1 /\ toWorker'[handle][1].type = "get"
        /\ \A v \in Workers : v # handle => toWorker'[v] = toWorker[v]
    BY <2>1, <2>2, Told
  <2> QED
    BY <1>1, <1>3, <1>5, <2>1, <2>2, <2>3, <2>4
<1>6. CASE handle # NoWorker /\ ~Alive(handle)
  <2>1. /\ core' = "closing" /\ outcome' = [how |-> "failed", x |-> Absent]
        /\ exec' = exec /\ toWorker' = toWorker
    BY <1>6 DEF AskVariable, Conclude
  <2>2. Absent \in Value
    BY ReplAssumption DEF Value, Absent, Opaque
  <2>3. outcome' \in Outcomes /\ outcome'.how = "failed"
    BY <2>1, <2>2 DEF Outcomes
  <2> QED
    BY <1>1, <1>3, <2>1, <2>3
<1> QED
  BY <1>4, <1>5, <1>6

(* The answer is taken.  That of a program is merged; that to FINAL_VAR is *)
(* the outcome, or the parent's copy is when the message is no answer.     *)
LEMMA ReceiveMoves ==
  ASSUME ReplTypeOK, ReceiveAnswer
  PROVE  /\ ExecutorMove /\ exec.pc = "waiting" /\ exec'.pc = "out" /\ handle \in Workers
         /\ UNCHANGED <<iter, handle, worker, toWorker>>
         /\ toParent[handle] # <<>>
         /\ Len(toParent[handle]) = 1 => toParent'[handle] = <<>>
         /\ exec.op = "get" =>
                /\ UNCHANGED <<env, history>>
                /\ \/ Goes(env)
                   \/ /\ toParent[handle][1].type = "variable"
                      /\ Goes(toParent[handle][1].x)
         /\ exec.op = "execute" =>
                /\ env' = Merged(toParent[handle][1])
                /\ picked' = IF Pickled(toParent[handle][1].x) # Absent
                             THEN toParent[handle][1].x ELSE picked
                /\ heard' = [asked |-> iter, by |-> toParent[handle][1].step]
                /\ \/ core \notin {"step", "ask"} /\ core' = core /\ outcome' = outcome
                   \/ core \in {"step", "ask"} /\ core' = "choose" /\ outcome' = outcome
                   \/ core \in {"step", "ask"} /\ core' = "closing"
                      /\ outcome'.how = "object"
<1> DEFINE m == toParent[handle][1]
<1>1. /\ exec.pc = "waiting" /\ HasMessage /\ TakeMessage /\ LeaveExecutor
      /\ UNCHANGED <<iter, handle, worker, toWorker>>
  BY DEF ReceiveAnswer
<1>2. /\ handle \in Workers /\ toParent[handle] # <<>>
      /\ Head(Inbox) = m /\ m \in ToParentMessage
      /\ toParent' \in [Workers -> Seq(ToParentMessage)]
      /\ Len(toParent[handle]) = 1 => toParent'[handle] = <<>>
      /\ \A v \in Workers : v # handle => toParent'[v] = toParent[v]
  BY <1>1, Taken
<1>3. exec' \in Calls /\ exec'.pc = "out" /\ exec'.joins = exec.joins
  BY <1>1, CallLeft
<1>4. /\ iter \in 0..MaxIterations /\ env \in Value \ {Opaque} /\ picked \in Value \ {Opaque}
      /\ exec.op \in {"execute", "get"} /\ toWorker \in [Workers -> Seq(ToWorkerMessage)]
  BY TypesNamed DEF Calls
<1>5. m.x \in Value /\ m.step \in 0..MaxIterations
  BY <1>2 DEF ToParentMessage
<1> HIDE DEF m
<1>6. CASE exec.op = "get"
  <2>1. /\ Resume(IF m.type # "variable" THEN AnswerFromSnapshot
                  ELSE IF m.x = Absent THEN Feedback ELSE Conclude("variable", m.x))
        /\ UNCHANGED <<env, history>>
    BY <1>2, <1>6 DEF ReceiveAnswer
  <2>2. CASE m.type # "variable"
    <3>1. Resume(AnswerFromSnapshot)
      BY <2>1, <2>2 DEF Resume
    <3>2. Goes(env)
      BY <3>1, Returns
    <3> QED
      BY <1>1, <1>2, <1>3, <1>4, <1>6, <2>1, <3>2, CopiesTyped DEF ExecutorMove, m
  <2>3. CASE m.type = "variable" /\ m.x = Absent
    <3>1. Resume(Feedback)
      BY <2>1, <2>3 DEF Resume
    <3>2. Goes(env)
      BY <3>1, Returns
    <3> QED
      BY <1>1, <1>2, <1>3, <1>4, <1>6, <2>1, <3>2, CopiesTyped DEF ExecutorMove, m
  <2>4. CASE m.type = "variable" /\ m.x # Absent
    <3>1. Resume(Conclude("variable", m.x))
      BY <2>1, <2>4 DEF Resume
    <3>2. Goes(m.x)
      BY <1>5, <2>4, <3>1, Returns
    <3> QED
      BY <1>1, <1>2, <1>3, <1>4, <1>5, <1>6, <2>1, <2>4, <3>2, CopiesTyped
      DEF ExecutorMove, m
  <2> QED
    BY <2>2, <2>3, <2>4
<1>7. CASE exec.op = "execute"
  <2>1. Acknowledge(m) /\ Resume(IF m.type = "result" /\ m.final
                                 THEN Conclude("object", Absent) ELSE Feedback)
    BY <1>2, <1>7 DEF ReceiveAnswer
  <2>2. /\ env' = Merged(m) /\ picked' = IF Pickled(m.x) # Absent THEN m.x ELSE picked
        /\ heard' = [asked |-> iter, by |-> m.step]
    BY <2>1 DEF Acknowledge
  <2>3. /\ env' \in Value \ {Opaque} /\ picked' \in Value \ {Opaque}
        /\ heard' \in [asked : 0..MaxIterations, by : 0..MaxIterations]
    BY <1>4, <1>5, <2>2 DEF Merged, Pickled
  <2>4. Resume(Feedback) \/ Resume(Conclude("object", Absent))
    BY <2>1 DEF Resume
  <2>5. Goes(env)
    BY <2>4, Returns
  <2>6. \/ core \notin {"step", "ask"} /\ core' = core /\ outcome' = outcome
        \/ core \in {"step", "ask"} /\ core' = "choose" /\ outcome' = outcome
        \/ core \in {"step", "ask"} /\ core' = "closing" /\ outcome'.how = "object"
    BY <2>4 DEF Resume, Conclude, Feedback
  <2>7. ExecutorMove
    BY <1>1, <1>2, <1>3, <1>4, <2>3, <2>5 DEF ExecutorMove
  <2> QED
    BY <1>1, <1>2, <1>3, <1>7, <2>2, <2>6, <2>7 DEF m
<1> QED
  BY <1>4, <1>6, <1>7

-----------------------------------------------------------------------------
(* The close of the executor.                                              *)

(* close drops the connection; the worker that was there is to be joined. *)
LEMMA CloseMoves ==
  ASSUME ReplTypeOK, Close
  PROVE  /\ core = "closing" /\ core' = "joining" /\ exec.pc = "out"
         /\ exec' \in Calls /\ exec'.pc = "out" /\ exec'.op = exec.op
         /\ exec'.joins = handle /\ handle' = NoWorker /\ handle' \in 0..MaxIterations
         /\ toWorker' \in [Workers -> Seq(ToWorkerMessage)]
         /\ \A v \in Workers : v # handle => toWorker'[v] = toWorker[v]
         /\ UNCHANGED <<iter, outcome, env, worker, toParent, history>>
<1>1. /\ core = "closing" /\ core' = "joining" /\ exec.pc = "out"
      /\ exec' = [exec EXCEPT !.joins = handle] /\ handle' = NoWorker
      /\ UNCHANGED <<iter, outcome, env, worker, toParent, history>>
  BY DEF Close, LockFree
<1>2. exec \in Calls /\ handle \in 0..MaxIterations
      /\ toWorker \in [Workers -> Seq(ToWorkerMessage)]
  BY TypesNamed
<1>3. exec' \in Calls /\ exec'.pc = "out" /\ exec'.op = exec.op /\ exec'.joins = handle
  BY <1>1, <1>2 DEF Calls
<1>4. handle' \in 0..MaxIterations
  BY <1>1, ReplAssumption DEF NoWorker
<1>5. toWorker' = toWorker
      \/ (handle # NoWorker /\ toWorker' = Put(toWorker, handle, Command("close")))
  BY DEF Close, Put
<1>6. /\ toWorker' \in [Workers -> Seq(ToWorkerMessage)]
      /\ \A v \in Workers : v # handle => toWorker'[v] = toWorker[v]
  BY <1>2, <1>5, HandleIsWorker, Told
<1> QED
  BY <1>1, <1>3, <1>4, <1>6

(* The process joined is gone. *)
LEMMA JoinMoves ==
  ASSUME ReplTypeOK, Join
  PROVE  /\ core = "joining" /\ core' = "ended" /\ worker' \in [Workers -> Processes]
         /\ \A w \in Workers :
                worker'[w].state = IF exec.joins # NoWorker /\ w = exec.joins
                                   THEN "gone" ELSE worker[w].state
         /\ UNCHANGED <<iter, outcome, exec, handle, env, toWorker, toParent, history>>
<1>1. /\ core = "joining" /\ core' = "ended"
      /\ UNCHANGED <<iter, outcome, exec, handle, env, toWorker, toParent, history>>
  BY DEF Join
<1>2. worker \in [Workers -> Processes] /\ exec.joins \in 0..MaxIterations
  BY TypesNamed DEF Calls
<1>3. CASE exec.joins # NoWorker
  <2> DEFINE j == exec.joins
  <2>1. j \in Workers
    BY <1>2, <1>3, ReplAssumption DEF Workers, NoWorker
  <2>2. worker' = WithState(worker, j, "gone") /\ "gone" \in WorkerState
    BY <1>3 DEF Join, WithState, WorkerState
  <2> HIDE DEF j
  <2>3. worker' \in [Workers -> Processes] /\ worker'[j].state = "gone"
    BY <1>2, <2>1, <2>2, StateChanged
  <2>4. \A v \in Workers : v # j => worker'[v] = worker[v]
    BY <1>2, <2>2 DEF WithState
  <2> QED
    BY <1>1, <1>3, <2>3, <2>4 DEF j
<1>4. CASE exec.joins = NoWorker
  <2>1. worker' = worker
    BY <1>4 DEF Join
  <2> QED
    BY <1>1, <1>2, <1>4, <2>1
<1> QED
  BY <1>3, <1>4

(* The steps of the loop that call nothing. *)
LEMMA QuietMoves ==
  ASSUME ReplTypeOK,
         EmptyResponse \/ LeaveLoop \/ ExhaustIterations \/ CancelCompletion
  PROVE  /\ UNCHANGED <<exec, handle, env, worker, toWorker, toParent, picked, heard>>
         /\ iter' \in 0..MaxIterations
         /\ \/ EmptyResponse /\ iter' = iter + 1 /\ core = "choose" /\ core' = core
               /\ outcome' = outcome
            \/ /\ iter' = iter \/ iter' = iter + 1
               /\ core \in {"choose", "step", "ask"} /\ core' = "closing"
               /\ outcome' \in Outcomes
               /\ outcome'.how \in {"directive", "failed", "exhausted", "cancelled"}
<1>1. iter \in 0..MaxIterations /\ MaxIterations \in Nat /\ Absent \in Value
  BY TypesNamed, ReplAssumption DEF Value, Absent, Opaque
<1>2. UNCHANGED <<exec, handle, env, worker, toWorker, toParent, picked, heard>>
  BY DEF EmptyResponse, LeaveLoop, ExhaustIterations, CancelCompletion, procVars, history
<1>3. CASE EmptyResponse
  BY <1>1, <1>2, <1>3 DEF EmptyResponse, NextIteration
<1>4. ASSUME NEW how \in {"directive", "failed", "exhausted", "cancelled"},
             Conclude(how, Absent)
      PROVE  core' = "closing" /\ outcome' \in Outcomes /\ outcome'.how = how
  BY <1>1, <1>4 DEF Conclude, Outcomes
<1>5. CASE LeaveLoop
  BY <1>1, <1>2, <1>4, <1>5 DEF LeaveLoop, NextIteration
<1>6. CASE ExhaustIterations \/ CancelCompletion
  BY <1>1, <1>2, <1>4, <1>6 DEF ExhaustIterations, CancelCompletion
<1> QED
  BY <1>3, <1>5, <1>6

-----------------------------------------------------------------------------
(* Types, and who owns the workers.                                        *)

(* A step of a call keeps the types. *)
LEMMA ExecutorTyped ==
  ASSUME ReplTypeOK, ExecutorMove
  PROVE  ReplTypeOK'
<1>1. core' \in Cores /\ outcome' \in Outcomes
  <2>1. core \in Cores /\ outcome \in Outcomes
    BY TypesNamed
  <2> QED
    BY <2>1 DEF ExecutorMove, Goes, Cores
<1>2. iter' \in 0..MaxIterations /\ handle' \in 0..MaxIterations
      /\ worker' \in [Workers -> Processes]
  BY TypesNamed, ReplAssumption DEF ExecutorMove, NoWorker
<1>3. /\ exec' \in Calls
      /\ toWorker' \in [Workers -> Seq(ToWorkerMessage)]
      /\ toParent' \in [Workers -> Seq(ToParentMessage)]
      /\ env' \in Value \ {Opaque} /\ picked' \in Value \ {Opaque}
      /\ heard' \in [asked : 0..MaxIterations, by : 0..MaxIterations]
  BY DEF ExecutorMove
<1> QED
  BY <1>1, <1>2, <1>3, TypesNamedNext

(* Every step of the executor is such a step. *)
LEMMA ExecutorMoves ==
  ASSUME ReplTypeOK, CallsMatch, PipesInStep, ExecutorStep \/ CallbackStep
  PROVE  ExecutorMove
  BY TakesMove, LostMoves, SendMoves, ReceiveMoves, AnswerMoves
  DEF ExecutorStep, CallbackStep

(* So does every step. *)
LEMMA TypesKept ==
  ASSUME ReplTypeOK, CallsMatch, PipesInStep, [ReplNext]_replVars
  PROVE  ReplTypeOK'
<1>0. /\ core \in Cores /\ iter \in 0..MaxIterations /\ outcome \in Outcomes
      /\ exec \in Calls /\ handle \in 0..MaxIterations
      /\ env \in Value \ {Opaque} /\ worker \in [Workers -> Processes]
      /\ toWorker \in [Workers -> Seq(ToWorkerMessage)]
      /\ toParent \in [Workers -> Seq(ToParentMessage)]
      /\ picked \in Value \ {Opaque}
      /\ heard \in [asked : 0..MaxIterations, by : 0..MaxIterations]
  BY TypesNamed
<1>1. CASE EmptyResponse \/ LeaveLoop \/ ExhaustIterations \/ CancelCompletion
  <2>1. core' \in Cores /\ iter' \in 0..MaxIterations /\ outcome' \in Outcomes
        /\ UNCHANGED <<exec, handle, env, worker, toWorker, toParent, picked, heard>>
    BY <1>0, <1>1, QuietMoves DEF Cores
  <2> QED
    BY <1>0, <2>1, TypesNamedNext
<1>2. CASE Execute
  <2>1. core' \in Cores /\ iter' \in 0..MaxIterations /\ exec' \in Calls
        /\ UNCHANGED <<outcome, env, toWorker, toParent, history>>
    BY <1>2, ExecuteMoves DEF Cores
  <2>2. handle' \in 0..MaxIterations /\ worker' \in [Workers -> Processes]
    BY <1>0, <1>2, ExecuteMoves DEF Workers
  <2> QED
    BY <1>0, <2>1, <2>2, TypesNamedNext, CopiesTyped
<1>3. CASE AskVariable
  <2>1. /\ core' \in Cores /\ iter' \in 0..MaxIterations /\ outcome' \in Outcomes
        /\ exec' \in Calls /\ toWorker' \in [Workers -> Seq(ToWorkerMessage)]
        /\ UNCHANGED <<handle, env, worker, toParent, history>>
    BY <1>0, <1>3, AskMoves DEF Cores
  <2> QED
    BY <1>0, <2>1, TypesNamedNext, CopiesTyped
<1>4. CASE Close
  <2>1. /\ core' \in Cores /\ exec' \in Calls /\ handle' \in 0..MaxIterations
        /\ toWorker' \in [Workers -> Seq(ToWorkerMessage)]
        /\ UNCHANGED <<iter, outcome, env, worker, toParent, history>>
    BY <1>4, CloseMoves DEF Cores
  <2> QED
    BY <1>0, <2>1, TypesNamedNext, CopiesTyped
<1>5. CASE Join
  <2>1. /\ core' \in Cores /\ worker' \in [Workers -> Processes]
        /\ UNCHANGED <<iter, outcome, exec, handle, env, toWorker, toParent, history>>
    BY <1>5, JoinMoves DEF Cores
  <2> QED
    BY <1>0, <2>1, TypesNamedNext, CopiesTyped
<1>6. CASE ExecutorStep \/ CallbackStep
  BY <1>6, ExecutorMoves, ExecutorTyped
<1>7. ASSUME NEW w \in Workers, WorkerStep(w) PROVE ReplTypeOK'
  <2>1. /\ worker' \in [Workers -> Processes]
        /\ toWorker' \in [Workers -> Seq(ToWorkerMessage)]
        /\ toParent' \in [Workers -> Seq(ToParentMessage)]
        /\ UNCHANGED <<loopVars, exec, handle, env, history>>
    BY <1>7, WorkerMoves DEF OwnMove
  <2> QED
    BY <1>0, <2>1, TypesNamedNext, CopiesTyped DEF loopVars
<1>8. CASE UNCHANGED replVars
  BY <1>0, <1>8, TypesNamedNext DEF replVars
<1> QED
  BY <1>1, <1>2, <1>3, <1>4, <1>5, <1>6, <1>7, <1>8 DEF ReplNext, LoopStep

(* What CallsMatch says after a step that spawns no process, but for the   *)
(* pipes of those not spawned. *)
LEMMA CallsStay ==
  ASSUME ReplTypeOK, CallsMatch, iter' \in {iter, iter + 1},
         \A w \in Workers : worker'[w].state = "none" <=> worker[w].state = "none"
  PROVE  \E n \in 0..iter' : \A w \in Workers : worker'[w].state = "none" <=> n < w
<1>1. PICK n \in 0..iter : \A w \in Workers : worker[w].state = "none" <=> n < w
  BY DEF CallsMatch
<1>2. iter \in Nat
  BY TypesNamed, ReplAssumption
<1>3. n \in 0..iter'
  BY <1>1, <1>2
<1> QED
  BY <1>1, <1>3

(* A step of a call leaves no worker behind, and the loop and the call     *)
(* keep knowing of each other. *)
LEMMA ExecutorOwns ==
  ASSUME ReplTypeOK, WorkersOwned, CallsMatch, ExecutorMove
  PROVE  WorkersOwned' /\ CallsMatch'
<1>1. exec.pc # "out" /\ handle # NoWorker /\ handle \in Workers /\ worker[handle].state # "none"
  BY HandleIsWorker DEF ExecutorMove, CallsMatch
<1>2. core \notin {"choose", "joining", "ended"}
  BY <1>1 DEF CallsMatch
<1>3. /\ exec'.pc # "out" => core' = core /\ outcome' = outcome /\ handle' = handle
      /\ core' \notin {"joining", "ended"}
  BY <1>2 DEF ExecutorMove, Goes
<1>4. \A w \in Workers : worker'[w].state = "none" <=> worker[w].state = "none"
  BY <1>1 DEF ExecutorMove
<1>5. \E n \in 0..iter' : \A w \in Workers : worker'[w].state = "none" <=> n < w
  BY <1>4, CallsStay DEF ExecutorMove
<1>6. \A w \in Workers :
          worker'[w].state = "none" => toWorker'[w] = <<>> /\ toParent'[w] = <<>>
  BY <1>1, <1>4 DEF ExecutorMove, CallsMatch
<1>7. handle' # NoWorker => worker'[handle'].state # "none"
  BY <1>1 DEF ExecutorMove
<1>8. exec'.pc \in {"starting", "sending", "callback"} => exec'.op = "execute"
  BY DEF ExecutorMove
<1>9. CallsMatch'
  BY <1>1, <1>2, <1>3, <1>5, <1>6, <1>7, <1>8 DEF CallsMatch
<1>10. ASSUME NEW w \in Workers, worker'[w].state \notin {"none", "gone"}
       PROVE  w = handle'
  <2>1. worker[w].state \notin {"none", "gone"} /\ (w = handle => handle' = handle)
    BY <1>10 DEF ExecutorMove
  <2>2. w = handle
    BY <1>2, <2>1 DEF WorkersOwned, LiveWorkers, Alive
  <2> QED
    BY <2>1, <2>2
<1>11. WorkersOwned'
  BY <1>10 DEF WorkersOwned, LiveWorkers, Alive
<1> QED
  BY <1>9, <1>11

(* Nor does a step of a worker. *)
LEMMA WorkerOwns ==
  ASSUME ReplTypeOK, WorkersOwned, CallsMatch, NEW w \in Workers, OwnMove(w)
  PROVE  WorkersOwned' /\ CallsMatch'
<1>1. UNCHANGED <<core, iter, exec, handle>>
  BY DEF OwnMove, loopVars
<1>2. \A v \in Workers : worker'[v].state = "none" <=> worker[v].state = "none"
  BY DEF OwnMove, Alive
<1>3. worker[w].state # "none"
  BY DEF OwnMove, Alive
<1>4. \E n \in 0..iter' : \A v \in Workers : worker'[v].state = "none" <=> n < v
  BY <1>1, <1>2, CallsStay
<1>5. \A v \in Workers :
          worker'[v].state = "none" => toWorker'[v] = <<>> /\ toParent'[v] = <<>>
  BY <1>2, <1>3 DEF OwnMove, CallsMatch
<1>6. handle' # NoWorker => worker'[handle'].state # "none"
  BY <1>1, <1>2, HandleIsWorker DEF CallsMatch
<1>7. exec.joins # NoWorker => exec.joins \in Workers
  BY TypesNamed, ReplAssumption DEF Calls, Workers, NoWorker
<1>8. core' = "joining" /\ exec'.joins # NoWorker => worker'[exec'.joins].state # "none"
  BY <1>1, <1>2, <1>7 DEF CallsMatch
<1>9. CallsMatch'
  BY <1>1, <1>4, <1>5, <1>6, <1>8 DEF CallsMatch
<1>10. ASSUME NEW v \in Workers, worker'[v].state \notin {"none", "gone"}
       PROVE  v = handle \/ (core = "joining" /\ v = exec.joins)
  <2>1. worker[v].state \notin {"none", "gone"}
    BY <1>10 DEF OwnMove, Alive
  <2> QED
    BY <2>1 DEF WorkersOwned, LiveWorkers, Alive
<1>11. WorkersOwned'
  BY <1>1, <1>10 DEF WorkersOwned, LiveWorkers, Alive
<1> QED
  BY <1>9, <1>11

(* Nor does any step. *)
LEMMA OwnedKept ==
  ASSUME ReplTypeOK, WorkersOwned, CallsMatch, PipesInStep, [ReplNext]_replVars
  PROVE  WorkersOwned' /\ CallsMatch'
<1>0. /\ worker \in [Workers -> Processes] /\ handle \in 0..MaxIterations
      /\ iter \in Nat /\ exec \in Calls
  BY TypesNamed, ReplAssumption
<1>1. CASE EmptyResponse \/ LeaveLoop \/ ExhaustIterations \/ CancelCompletion
  <2>1. /\ UNCHANGED <<exec, handle, worker, toWorker, toParent>>
        /\ iter' \in {iter, iter + 1} /\ core \in {"choose", "step", "ask"}
        /\ core' = "closing" \/ (core = "choose" /\ core' = core)
    BY <1>1, QuietMoves
  <2>2. \E n \in 0..iter' : \A v \in Workers : worker'[v].state = "none" <=> n < v
    BY <2>1, CallsStay
  <2>3. CallsMatch'
    BY <2>1, <2>2 DEF CallsMatch
  <2>4. WorkersOwned'
    BY <2>1 DEF WorkersOwned, LiveWorkers, Alive
  <2> QED
    BY <2>3, <2>4
<1>2. CASE Execute
  <2>1. /\ core = "choose" /\ core' = "step" /\ exec'.op = "execute"
        /\ iter' = iter + 1 /\ exec.pc = "out" /\ UNCHANGED <<toWorker, toParent>>
    BY <1>2, ExecuteMoves DEF CallsMatch
  <2>2. CASE handle # NoWorker /\ Alive(handle)
    <3>1. handle' = handle /\ worker' = worker
      BY <1>2, <2>2, ExecuteMoves
    <3>2. \E n \in 0..iter' : \A v \in Workers : worker'[v].state = "none" <=> n < v
      BY <2>1, <3>1, CallsStay
    <3>3. CallsMatch'
      BY <2>1, <2>2, <3>1, <3>2 DEF CallsMatch
    <3>4. WorkersOwned'
      BY <2>1, <3>1 DEF WorkersOwned, LiveWorkers, Alive
    <3> QED
      BY <3>3, <3>4
  <2>3. CASE ~(handle # NoWorker /\ Alive(handle))
    <3>1. /\ handle' \in Workers /\ worker[handle'].state = "none"
          /\ worker'[handle'].state = "booting"
          /\ \A v \in Workers : v # handle' => worker'[v] = worker[v]
          /\ \E n \in 0..iter' : \A w \in Workers : worker'[w].state = "none" <=> n < w
      BY <1>2, <2>3, ExecuteMoves
    <3>2. \A v \in Workers :
              worker'[v].state = "none" => toWorker'[v] = <<>> /\ toParent'[v] = <<>>
      BY <2>1, <3>1 DEF CallsMatch
    <3>3. handle' # NoWorker
      BY <3>1, ReplAssumption DEF Workers, NoWorker
    <3>4. CallsMatch'
      BY <2>1, <3>1, <3>2, <3>3 DEF CallsMatch
    <3>5. ASSUME NEW v \in Workers, worker'[v].state \notin {"none", "gone"}
          PROVE  v = handle'
      <4>1. CASE v # handle'
        <5>1. worker[v].state \notin {"none", "gone"}
          BY <3>1, <3>5, <4>1
        <5>2. v = handle
          BY <2>1, <5>1 DEF WorkersOwned, LiveWorkers, Alive
        <5>3. v # NoWorker
          BY ReplAssumption DEF Workers, NoWorker
        <5> QED
          BY <2>3, <5>1, <5>2, <5>3 DEF Alive
      <4> QED
        BY <4>1
    <3>6. WorkersOwned'
      BY <3>5 DEF WorkersOwned, LiveWorkers, Alive
    <3> QED
      BY <3>4, <3>6
  <2> QED
    BY <2>2, <2>3
<1>3. CASE AskVariable
  <2>1. /\ core = "choose" /\ iter' = iter + 1 /\ exec.pc = "out"
        /\ UNCHANGED <<handle, worker, toParent>>
    BY <1>3, AskMoves
  <2>2. \/ /\ handle \in Workers /\ Alive(handle) /\ core' = "ask"
           /\ exec'.pc = "waiting"
           /\ \A v \in Workers : v # handle => toWorker'[v] = toWorker[v]
        \/ exec' = exec /\ toWorker' = toWorker /\ core' \in {"choose", "closing"}
    BY <1>3, AskMoves
  <2>3. \E n \in 0..iter' : \A v \in Workers : worker'[v].state = "none" <=> n < v
    BY <2>1, CallsStay
  <2>4. \A v \in Workers :
            worker'[v].state = "none" => toWorker'[v] = <<>> /\ toParent'[v] = <<>>
    BY <2>1, <2>2 DEF CallsMatch, Alive
  <2>5. handle \in Workers => handle # NoWorker
    BY ReplAssumption DEF Workers, NoWorker
  <2>6. CallsMatch'
    BY <2>1, <2>2, <2>3, <2>4, <2>5 DEF CallsMatch
  <2>7. WorkersOwned'
    BY <2>1, <2>2 DEF WorkersOwned, LiveWorkers, Alive
  <2> QED
    BY <2>6, <2>7
<1>4. CASE Close
  <2>1. /\ core = "closing" /\ core' = "joining" /\ exec.pc = "out" /\ exec'.pc = "out"
        /\ exec'.joins = handle /\ handle' = NoWorker
        /\ UNCHANGED <<iter, worker, toParent>>
        /\ \A v \in Workers : v # handle => toWorker'[v] = toWorker[v]
    BY <1>4, CloseMoves
  <2>2. \E n \in 0..iter' : \A v \in Workers : worker'[v].state = "none" <=> n < v
    BY <2>1, CallsStay
  <2>3. handle # NoWorker => handle \in Workers /\ worker[handle].state # "none"
    BY HandleIsWorker DEF CallsMatch
  <2>4. \A v \in Workers : v = handle => handle # NoWorker
    BY ReplAssumption DEF Workers, NoWorker
  <2>5. \A v \in Workers :
            worker'[v].state = "none" => toWorker'[v] = <<>> /\ toParent'[v] = <<>>
    BY <2>1, <2>3, <2>4 DEF CallsMatch
  <2>6. CallsMatch'
    BY <2>1, <2>2, <2>3, <2>5 DEF CallsMatch
  <2>7. WorkersOwned'
    BY <2>1 DEF WorkersOwned, LiveWorkers, Alive
  <2> QED
    BY <2>6, <2>7
<1>5. CASE Join
  <2>1. /\ core = "joining" /\ core' = "ended"
        /\ \A w \in Workers :
               worker'[w].state = IF exec.joins # NoWorker /\ w = exec.joins
                                  THEN "gone" ELSE worker[w].state
        /\ UNCHANGED <<iter, exec, handle, toWorker, toParent>>
    BY <1>5, JoinMoves
  <2>2. exec.pc = "out" /\ handle = NoWorker
        /\ (exec.joins # NoWorker => worker[exec.joins].state # "none")
    BY <2>1 DEF CallsMatch
  <2>3. \A w \in Workers : worker'[w].state = "none" <=> worker[w].state = "none"
    BY <2>1, <2>2
  <2>4. \E n \in 0..iter' : \A v \in Workers : worker'[v].state = "none" <=> n < v
    BY <2>1, <2>3, CallsStay
  <2>5. CallsMatch'
    BY <2>1, <2>2, <2>3, <2>4 DEF CallsMatch
  <2>6. ASSUME NEW w \in Workers, worker'[w].state \notin {"none", "gone"}
        PROVE  FALSE
    <3>1. worker[w].state \notin {"none", "gone"} /\ ~(exec.joins # NoWorker /\ w = exec.joins)
      BY <2>1, <2>6
    <3>2. w # NoWorker
      BY ReplAssumption DEF Workers, NoWorker
    <3> QED
      BY <2>2, <3>1, <3>2 DEF WorkersOwned, LiveWorkers, Alive
  <2>7. WorkersOwned'
    BY <2>6 DEF WorkersOwned, LiveWorkers, Alive
  <2> QED
    BY <2>5, <2>7
<1>6. CASE ExecutorStep \/ CallbackStep
  BY <1>6, ExecutorMoves, ExecutorOwns
<1>7. ASSUME NEW w \in Workers, WorkerStep(w) PROVE WorkersOwned' /\ CallsMatch'
  BY <1>7, WorkerMoves, WorkerOwns
<1>8. CASE UNCHANGED replVars
  <2>1. UNCHANGED <<core, iter, exec, handle, worker, toWorker, toParent>>
    BY <1>8 DEF replVars
  <2>2. WorkersOwned'
    BY <2>1 DEF WorkersOwned, LiveWorkers, Alive
  <2>3. CallsMatch'
    BY <2>1 DEF CallsMatch
  <2> QED
    BY <2>2, <2>3
<1> QED
  BY <1>1, <1>2, <1>3, <1>4, <1>5, <1>6, <1>7, <1>8 DEF ReplNext, LoopStep

-----------------------------------------------------------------------------
(* What the executor has heard, and what FINAL_VAR answers.                *)

(* Values are integers, and the copy is a value or none. *)
LEMMA Numbers ==
  ASSUME ReplTypeOK
  PROVE  /\ env \in Int /\ picked \in Int /\ iter \in Nat /\ outcome.x \in Int
         /\ Absent = 0 /\ Opaque = -1
         /\ env # Opaque /\ picked # Opaque /\ env >= 0 /\ picked >= 0
<1>1. env \in Value \ {Opaque} /\ picked \in Value \ {Opaque} /\ outcome \in Outcomes
      /\ iter \in Nat
  BY TypesNamed, ReplAssumption
<1> QED
  BY <1>1, ReplAssumption DEF Value, Opaque, Absent, Outcomes

(* A step that brings no value, and no answer of FINAL_VAR but the copy. *)
LEMMA HeardNothing ==
  ASSUME ReplTypeOK, AnswersOwnStep, CopiesAgree, FinalVarUpToDate,
         UNCHANGED <<env, history>>, iter' \in {iter, iter + 1},
         \/ /\ outcome' = outcome
            /\ \/ core' = core /\ exec'.pc = exec.pc
               \/ exec.pc # "out" \/ core \in {"choose", "step", "ask"}
               \/ core' \in {"joining", "ended"} /\ exec'.pc = "out"
         \/ /\ core' = "closing" /\ exec'.pc = "out"
            /\ outcome'.how \in {"variable", "snapshot"} => outcome'.x = env
         \/ outcome'.how \notin {"variable", "snapshot"}
  PROVE  AnswersOwnStep' /\ CopiesAgree' /\ FinalVarUpToDate'
<1>1. env' = env /\ picked' = picked /\ heard' = heard
  BY DEF history
<1>2. AnswersOwnStep'
  BY <1>1 DEF AnswersOwnStep
<1>3. env' = picked' /\ picked' <= iter'
  BY <1>1, Numbers DEF CopiesAgree
<1>4. outcome'.how \in {"variable", "snapshot"} =>
          core' \in {"closing", "joining", "ended"} /\ exec'.pc = "out"
  BY DEF CopiesAgree
<1>5. outcome'.how \in {"variable", "snapshot"} => outcome'.x >= picked'
  BY <1>1, Numbers DEF FinalVarUpToDate, CopiesAgree
<1> QED
  BY <1>2, <1>3, <1>4, <1>5 DEF CopiesAgree, FinalVarUpToDate

(* A call that ends without a message of a program. *)
LEMMA EndsQuietly ==
  ASSUME ReplTypeOK, AnswersOwnStep, CopiesAgree, FinalVarUpToDate, exec.pc # "out",
         UNCHANGED <<iter, env, history>>, exec'.pc = "out", Goes(env)
  PROVE  AnswersOwnStep' /\ CopiesAgree' /\ FinalVarUpToDate'
  BY HeardNothing DEF Goes

(* The answer of the worker belongs to the step and is no older than the   *)
(* last one. *)
LEMMA ReceiveHears ==
  ASSUME ReplTypeOK, CallsMatch, PipesInStep, AnswersOwnStep, CopiesAgree, FinalVarUpToDate,
         ReceiveAnswer
  PROVE  AnswersOwnStep' /\ CopiesAgree' /\ FinalVarUpToDate'
<1> DEFINE m == toParent[handle][1]
<1>1. /\ exec.pc = "waiting" /\ exec'.pc = "out" /\ handle \in Workers
      /\ iter' = iter /\ toParent[handle] # <<>>
  BY ReceiveMoves
<1>2. /\ exec.op \in {"execute", "get"} /\ toParent[handle] \in Seq(ToParentMessage)
      /\ MaxIterations \in Nat
  BY <1>1, TypesNamed, ReplAssumption DEF Calls
<1>3. m \in ToParentMessage /\ 1 \in 1..Len(toParent[handle])
  <2>1. m \in ToParentMessage /\ Len(toParent[handle]) > 0
    BY <1>1, <1>2, OneMessage
  <2> QED
    BY <1>2, <2>1
<1>4. InUse
  BY <1>1, ReplAssumption DEF InUse, Workers, NoWorker
<1>5. IF exec.op = "execute" THEN m.step = iter /\ m.x <= iter
      ELSE m.type = "variable" /\ m.x # Opaque /\ Recent(m.x)
  BY <1>1, <1>3, <1>4 DEF PipesInStep, Fits
<1>6. m.x \in Value /\ m.x \in Int
  BY <1>3 DEF ToParentMessage, Value
<1>7. CASE exec.op = "get"
  <2>1. UNCHANGED <<env, history>> /\ (Goes(env) \/ Goes(m.x))
    BY <1>7, ReceiveMoves
  <2>2. CASE Goes(env)
    BY <1>1, <2>1, <2>2, EndsQuietly
  <2>3. CASE Goes(m.x)
    <3>1. env' = env /\ picked' = picked /\ heard' = heard
      BY <2>1 DEF history
    <3>2. outcome'.how \in {"variable", "snapshot"} =>
              core' = "closing" /\ outcome'.x = m.x /\ m.x # Absent
      BY <1>1, <2>3 DEF Goes, CopiesAgree
    <3>3. m.x # Absent => picked <= m.x
      BY <1>5, <1>7 DEF Recent
    <3>4. outcome'.how \in {"variable", "snapshot"} => outcome'.x >= picked'
      BY <1>6, <3>1, <3>2, <3>3, Numbers
    <3> QED
      BY <1>1, <3>1, <3>2, <3>4 DEF AnswersOwnStep, CopiesAgree, FinalVarUpToDate
  <2> QED
    BY <2>1, <2>2, <2>3
<1>8. CASE exec.op = "execute"
  <2>1. /\ env' = Merged(m)
        /\ picked' = IF Pickled(m.x) # Absent THEN m.x ELSE picked
        /\ heard' = [asked |-> iter, by |-> m.step]
    BY <1>8, ReceiveMoves
  <2>2. \/ outcome' = outcome /\ core \notin {"choose", "joining", "ended"}
        \/ outcome'.how = "object"
    BY <1>1, <1>8, ReceiveMoves DEF CallsMatch
  <2>3. outcome'.how \notin {"variable", "snapshot"}
    BY <1>1, <2>2 DEF CopiesAgree
  <2>4. m.step = iter /\ m.x <= iter
    BY <1>5, <1>8
  <2>5. AnswersOwnStep'
    BY <2>1, <2>4 DEF AnswersOwnStep
  <2>6. env' = picked' /\ picked' <= iter
    BY <2>1, <2>4 DEF Merged, CopiesAgree
  <2> QED
    BY <1>1, <2>3, <2>5, <2>6 DEF CopiesAgree, FinalVarUpToDate
<1> QED
  BY <1>2, <1>7, <1>8

(* So with every step. *)
LEMMA HeardKept ==
  ASSUME ReplTypeOK, CallsMatch, PipesInStep, AnswersOwnStep, CopiesAgree, FinalVarUpToDate,
         [ReplNext]_replVars
  PROVE  AnswersOwnStep' /\ CopiesAgree' /\ FinalVarUpToDate'
<1>1. CASE EmptyResponse \/ LeaveLoop \/ ExhaustIterations \/ CancelCompletion
  <2>1. /\ UNCHANGED <<exec, env, history>> /\ iter' \in {iter, iter + 1}
        /\ \/ outcome' = outcome /\ core' = core
           \/ outcome'.how \notin {"variable", "snapshot"}
    BY <1>1, QuietMoves DEF history
  <2> QED
    BY <2>1, HeardNothing
<1>2. CASE Execute
  <2>1. UNCHANGED <<outcome, env, history>> /\ iter' = iter + 1 /\ core = "choose"
    BY <1>2, ExecuteMoves
  <2> QED
    BY <2>1, HeardNothing
<1>3. CASE AskVariable
  <2>1. UNCHANGED <<env, history>> /\ iter' = iter + 1 /\ core = "choose" /\ exec.pc = "out"
    BY <1>3, AskMoves
  <2>2. \/ outcome' = outcome
        \/ /\ exec' = exec /\ core' = "closing"
           /\ outcome'.how \in {"snapshot", "failed"}
           /\ outcome'.how = "snapshot" => outcome'.x = env
    BY <1>3, AskMoves
  <2> QED
    BY <2>1, <2>2, HeardNothing
<1>4. CASE Close \/ Join
  <2>1. UNCHANGED <<iter, outcome, env, history>> /\ core' \in {"joining", "ended"}
        /\ exec'.pc = "out"
    BY <1>4, CloseMoves, JoinMoves DEF CallsMatch
  <2> QED
    BY <2>1, HeardNothing
<1>5. CASE ReceiveReady \/ ReceiveCallback
  <2>1. UNCHANGED <<core, iter, outcome, env, history>> /\ exec.pc # "out"
    BY <1>5, ReadyMoves, CallbackMoves DEF loopVars
  <2> QED
    BY <2>1, HeardNothing
<1>6. CASE StartFails \/ StepLost
  <2>1. exec.pc # "out" /\ UNCHANGED <<iter, env, history>> /\ exec'.pc = "out" /\ Goes(env)
    BY <1>6, LostMoves DEF ExecutorMove
  <2> QED
    BY <2>1, EndsQuietly
<1>7. CASE SendProgram \/ CallbackStep
  <2>1. /\ exec.pc # "out" /\ UNCHANGED <<iter, env, history>>
        /\ exec'.pc = "waiting" \/ (exec'.pc = "out" /\ Goes(env))
        /\ exec'.pc = "waiting" => outcome' = outcome
    <3>1. /\ UNCHANGED <<iter, env, history>> /\ ExecutorMove
          /\ exec'.pc = "waiting" \/ exec'.pc = "out"
          /\ exec'.pc = "out" => Goes(env)
      BY <1>7, SendMoves, AnswerMoves DEF CallbackStep
    <3> QED
      BY <3>1 DEF ExecutorMove
  <2>2. CASE exec'.pc = "out" /\ Goes(env)
    BY <2>1, <2>2, EndsQuietly
  <2>3. CASE exec'.pc = "waiting"
    BY <2>1, <2>3, HeardNothing
  <2> QED
    BY <2>1, <2>2, <2>3
<1>8. CASE ReceiveAnswer
  BY <1>8, ReceiveHears
<1>9. ASSUME NEW w \in Workers, WorkerStep(w)
      PROVE  AnswersOwnStep' /\ CopiesAgree' /\ FinalVarUpToDate'
  <2>1. UNCHANGED <<core, iter, outcome, exec, env, history>>
    BY <1>9, WorkerMoves DEF OwnMove, loopVars
  <2> QED
    BY <2>1, HeardNothing
<1>10. CASE UNCHANGED replVars
  <2>1. UNCHANGED <<core, iter, outcome, exec, env, history>>
    BY <1>10 DEF replVars, history
  <2> QED
    BY <2>1, HeardNothing
<1> QED
  BY <1>1, <1>2, <1>3, <1>4, <1>5, <1>6, <1>7, <1>8, <1>9, <1>10
  DEF ReplNext, LoopStep, ExecutorStep

-----------------------------------------------------------------------------
(* The pipes are in step with the call.                                    *)

(* Nothing is under way when no call and no next step can use the worker. *)
LEMMA NotInUse ==
  ASSUME ~InUse' PROVE PipesInStep'
  BY DEF PipesInStep

(* The steps of other workers leave the pipes of this one. *)
LEMMA OthersAside ==
  ASSUME ReplTypeOK, PipesInStep, NEW w \in Workers, OwnMove(w), w # handle
  PROVE  PipesInStep'
<1>1. UNCHANGED <<core, iter, exec, handle, picked>>
  BY DEF OwnMove, loopVars, history
<1>2. CASE handle = NoWorker
  BY <1>1, <1>2, NotInUse DEF InUse
<1>3. CASE handle # NoWorker
  <2>1. handle \in Workers
    BY <1>3, HandleIsWorker
  <2>2. worker'[handle] = worker[handle] /\ toWorker'[handle] = toWorker[handle]
        /\ toParent'[handle] = toParent[handle]
    BY <2>1 DEF OwnMove
  <2> QED
    BY <1>1, <2>2 DEF PipesInStep, InUse, Alive, UnderWay, Recent, Fits, Empty, Answered, Sent
<1> QED
  BY <1>2, <1>3

(* What the invariant says of the worker in use while it lives. *)
LEMMA InUseSays ==
  ASSUME ReplTypeOK, PipesInStep, InUse, Alive(handle)
  PROVE  /\ handle \in Workers /\ UnderWay(handle) /\ Recent(worker[handle].x)
         /\ worker[handle].x \in Value
<1>1. handle \in Workers
  BY HandleIsWorker DEF InUse
<1>2. worker \in [Workers -> Processes]
  BY TypesNamed
<1> QED
  BY <1>1, <1>2 DEF PipesInStep, Processes

(* A step of the worker in use keeps it in use. *)
LEMMA OwnUse ==
  ASSUME NEW w \in Workers, OwnMove(w)
  PROVE  InUse' <=> InUse
  BY DEF OwnMove, loopVars, InUse

(* The worker in use starts. *)
LEMMA BootInStep ==
  ASSUME ReplTypeOK, PipesInStep, InUse, handle \in Workers, Boot(handle)
  PROVE  PipesInStep'
<1> DEFINE h == handle
<1>1. /\ OwnMove(h) /\ worker[h].state = "booting"
      /\ worker'[h].state \in {"idle", "gone"} /\ worker'[h].x = worker[h].x
      /\ toWorker' = toWorker
      /\ toParent[h] = <<>> => Len(toParent'[h]) = 1
  BY BootMoves
<1>2. UNCHANGED <<core, iter, exec, handle, picked>> /\ Alive(h)
  BY <1>1 DEF OwnMove, loopVars, history
<1>3. UnderWay(h) /\ Recent(worker[h].x)
  BY <1>2, InUseSays
<1>4. exec.pc = "starting" /\ Empty(h)
  <2>1. exec.pc \in {"out", "starting", "sending", "waiting", "callback"}
        /\ exec.op \in {"execute", "get"}
    BY TypesNamed DEF Calls
  <2> QED
    BY <1>1, <1>3, <2>1 DEF UnderWay
<1>5. Recent(worker[h].x)'
  BY <1>1, <1>2, <1>3 DEF Recent
<1>6. Alive(h)' => UnderWay(h)'
  BY <1>1, <1>2, <1>4 DEF UnderWay, Empty, Answered, Alive
<1> QED
  BY <1>2, <1>4, <1>5, <1>6 DEF PipesInStep

(* It takes the program, or answers FINAL_VAR. *)
LEMMA ServeInStep ==
  ASSUME ReplTypeOK, PipesInStep, InUse, handle \in Workers, Serve(handle)
  PROVE  PipesInStep'
<1> DEFINE h == handle
<1>1. /\ OwnMove(h) /\ worker[h].state = "idle" /\ toWorker[h] # <<>>
      /\ worker'[h].x = worker[h].x
      /\ Len(toWorker[h]) = 1 => toWorker'[h] = <<>>
      /\ toWorker[h][1].type = "execute" =>
             /\ worker'[h].state = "running" /\ worker'[h].step = toWorker[h][1].step
             /\ toParent' = toParent
      /\ toWorker[h][1].type = "get" =>
             /\ worker'[h].state = "idle"
             /\ toParent[h] = <<>> =>
                    /\ Len(toParent'[h]) = 1
                    /\ toParent'[h][1].type = "variable"
                    /\ toParent'[h][1].x = Pickled(worker[h].x)
  BY ServeMoves
<1>2. UNCHANGED <<core, iter, exec, handle, picked>> /\ Alive(h)
  BY <1>1 DEF OwnMove, loopVars, history
<1>3. UnderWay(h) /\ Recent(worker[h].x)
  BY <1>2, InUseSays
<1>4. exec.pc = "waiting"
      /\ \/ exec.op = "execute" /\ Sent(h, "execute") /\ toWorker[h][1].step = iter
         \/ exec.op = "get" /\ Sent(h, "get")
  <2>1. exec.pc \in {"out", "starting", "sending", "waiting", "callback"}
        /\ exec.op \in {"execute", "get"}
    BY TypesNamed DEF Calls
  <2> QED
    BY <1>1, <1>3, <2>1 DEF UnderWay, Empty, Answered
<1>5. Recent(worker[h].x)'
  BY <1>1, <1>2, <1>3 DEF Recent
<1>6. CASE exec.op = "execute"
  <2>1. Empty(h)' /\ worker'[h].state = "running" /\ worker'[h].step = iter
    BY <1>1, <1>2, <1>4, <1>6 DEF Sent, Empty
  <2>2. UnderWay(h)'
    BY <1>2, <1>4, <1>6, <2>1 DEF UnderWay
  <2>3. Len(toParent'[h]) = 0
    BY <1>2, <2>1 DEF Empty
  <2> QED
    BY <1>2, <1>5, <2>2, <2>3 DEF PipesInStep
<1>7. CASE exec.op = "get"
  <2>1. /\ Answered(h)' /\ worker'[h].state = "idle"
        /\ toParent'[h][1].type = "variable" /\ toParent'[h][1].x = Pickled(worker[h].x)
    BY <1>1, <1>2, <1>4, <1>7 DEF Sent, Answered
  <2>2. UnderWay(h)'
    BY <1>2, <1>4, <1>7, <2>1 DEF UnderWay
  <2>3. Pickled(worker[h].x) # Opaque /\ Recent(Pickled(worker[h].x))
    BY <1>3, Numbers DEF Pickled, Recent
  <2>4. Fits(toParent[h][1])'
    BY <1>2, <1>7, <2>1, <2>3 DEF Fits, Recent
  <2>5. \A i \in 1..Len(toParent'[h]) : i = 1
    BY <1>2, <2>1 DEF Answered
  <2> QED
    BY <1>2, <1>5, <2>2, <2>4, <2>5 DEF PipesInStep
<1> QED
  BY <1>4, <1>6, <1>7

(* Its program runs: it is the program of this step. *)
LEMMA RunningSays ==
  ASSUME ReplTypeOK, UnderWay(handle), worker[handle].state = "running"
  PROVE  /\ exec.pc = "waiting" /\ exec.op = "execute" /\ worker[handle].step = iter
         /\ Empty(handle)
<1>1. exec.pc \in {"out", "starting", "sending", "waiting", "callback"}
      /\ exec.op \in {"execute", "get"}
  BY TypesNamed DEF Calls
<1> QED
  BY <1>1 DEF UnderWay

(* It assigns the variable. *)
LEMMA AssignInStep ==
  ASSUME ReplTypeOK, PipesInStep, CopiesAgree, InUse, handle \in Workers, Assign(handle)
  PROVE  PipesInStep'
<1> DEFINE h == handle
<1>1. /\ OwnMove(h) /\ worker[h].state = "running" /\ worker'[h].state = "running"
      /\ worker'[h].step = worker[h].step
      /\ worker'[h].x \in {worker[h].step, Absent, Opaque}
      /\ toWorker' = toWorker /\ toParent' = toParent
  BY AssignMoves
<1>2. UNCHANGED <<core, iter, exec, handle, picked>> /\ Alive(h)
  BY <1>1 DEF OwnMove, loopVars, history
<1>3. UnderWay(h)
  BY <1>2, InUseSays
<1>4. exec.pc = "waiting" /\ exec.op = "execute" /\ worker[h].step = iter /\ Empty(h)
  BY <1>1, <1>3, RunningSays
<1>5. Recent(worker[h].x)'
  BY <1>1, <1>2, <1>4, Numbers DEF Recent, CopiesAgree
<1>6. Empty(h)'
  BY <1>1, <1>2, <1>4 DEF Empty
<1>7. UnderWay(h)'
  BY <1>1, <1>2, <1>4, <1>6 DEF UnderWay
<1>8. Len(toParent'[h]) = 0
  BY <1>2, <1>6 DEF Empty
<1> QED
  BY <1>2, <1>5, <1>7, <1>8 DEF PipesInStep

(* What a running program reports of x is no later than the step. *)
LEMMA NotLater ==
  ASSUME ReplTypeOK, NEW x \in Value, Recent(x)
  PROVE  x <= iter
  BY Numbers DEF Recent, Value

(* It asks for a query. *)
LEMMA CallQueryInStep ==
  ASSUME ReplTypeOK, PipesInStep, InUse, handle \in Workers, CallQuery(handle)
  PROVE  PipesInStep'
<1> DEFINE h == handle
<1>1. /\ OwnMove(h) /\ worker[h].state = "running" /\ worker'[h].state = "calling"
      /\ worker'[h].step = worker[h].step /\ worker'[h].x = worker[h].x
      /\ toWorker' = toWorker
      /\ toParent[h] = <<>> =>
             /\ Len(toParent'[h]) = 1 /\ toParent'[h][1].type = "callback"
             /\ toParent'[h][1].step = worker[h].step
             /\ toParent'[h][1].x = worker[h].x
  BY CallQueryMoves
<1>2. UNCHANGED <<core, iter, exec, handle, picked>> /\ Alive(h)
  BY <1>1 DEF OwnMove, loopVars, history
<1>3. UnderWay(h) /\ Recent(worker[h].x) /\ worker[h].x \in Value
  BY <1>2, InUseSays
<1>4. exec.pc = "waiting" /\ exec.op = "execute" /\ worker[h].step = iter /\ Empty(h)
  BY <1>1, <1>3, RunningSays
<1>5. Recent(worker[h].x)'
  BY <1>1, <1>2, <1>3 DEF Recent
<1>6. Answered(h)' /\ toParent'[h][1].type = "callback" /\ toParent'[h][1].step = iter
      /\ toParent'[h][1].x = worker[h].x
  BY <1>1, <1>2, <1>4 DEF Empty, Answered
<1>7. UnderWay(h)'
  BY <1>1, <1>2, <1>4, <1>6 DEF UnderWay
<1>8. Fits(toParent[h][1])'
  BY <1>2, <1>3, <1>4, <1>6, NotLater DEF Fits
<1>9. \A i \in 1..Len(toParent'[h]) : i = 1
  BY <1>2, <1>6 DEF Answered
<1> QED
  BY <1>2, <1>5, <1>7, <1>8, <1>9 DEF PipesInStep

(* It reads the reply and runs on. *)
LEMMA ReadReplyInStep ==
  ASSUME ReplTypeOK, PipesInStep, InUse, handle \in Workers, ReadReply(handle)
  PROVE  PipesInStep'
<1> DEFINE h == handle
<1>1. /\ OwnMove(h) /\ worker[h].state = "calling" /\ worker'[h].state = "running"
      /\ worker'[h].step = worker[h].step /\ worker'[h].x = worker[h].x
      /\ toWorker[h] # <<>> /\ toParent' = toParent
      /\ Len(toWorker[h]) = 1 => toWorker'[h] = <<>>
  BY ReadReplyMoves
<1>2. UNCHANGED <<core, iter, exec, handle, picked>> /\ Alive(h)
  BY <1>1 DEF OwnMove, loopVars, history
<1>3. UnderWay(h) /\ Recent(worker[h].x)
  BY <1>2, InUseSays
<1>4. exec.pc = "waiting" /\ exec.op = "execute" /\ worker[h].step = iter
      /\ Sent(h, "callback_result")
  <2>1. exec.pc \in {"out", "starting", "sending", "waiting", "callback"}
        /\ exec.op \in {"execute", "get"}
    BY TypesNamed DEF Calls
  <2> QED
    BY <1>1, <1>3, <2>1 DEF UnderWay, Empty, Answered
<1>5. Recent(worker[h].x)'
  BY <1>1, <1>2, <1>3 DEF Recent
<1>6. Empty(h)'
  BY <1>1, <1>2, <1>4 DEF Empty, Sent
<1>7. UnderWay(h)'
  BY <1>1, <1>2, <1>4, <1>6 DEF UnderWay
<1>8. Len(toParent'[h]) = 0
  BY <1>2, <1>6 DEF Empty
<1> QED
  BY <1>2, <1>5, <1>7, <1>8 DEF PipesInStep

(* Its program ends. *)
LEMMA EndProgramInStep ==
  ASSUME ReplTypeOK, PipesInStep, InUse, handle \in Workers, EndProgram(handle)
  PROVE  PipesInStep'
<1> DEFINE h == handle
<1>1. /\ OwnMove(h) /\ worker[h].state = "running" /\ worker'[h].state = "idle"
      /\ worker'[h].x = worker[h].x /\ toWorker' = toWorker
      /\ toParent[h] = <<>> =>
             /\ Len(toParent'[h]) = 1 /\ toParent'[h][1].type # "callback"
             /\ toParent'[h][1].step = worker[h].step
             /\ toParent'[h][1].x = worker[h].x
  BY EndProgramMoves
<1>2. UNCHANGED <<core, iter, exec, handle, picked>> /\ Alive(h)
  BY <1>1 DEF OwnMove, loopVars, history
<1>3. UnderWay(h) /\ Recent(worker[h].x) /\ worker[h].x \in Value
  BY <1>2, InUseSays
<1>4. exec.pc = "waiting" /\ exec.op = "execute" /\ worker[h].step = iter /\ Empty(h)
  BY <1>1, <1>3, RunningSays
<1>5. Recent(worker[h].x)'
  BY <1>1, <1>2, <1>3 DEF Recent
<1>6. /\ Answered(h)' /\ toParent'[h][1].type # "callback" /\ toParent'[h][1].step = iter
      /\ toParent'[h][1].x = worker[h].x
  BY <1>1, <1>2, <1>4 DEF Empty, Answered
<1>7. UnderWay(h)'
  BY <1>1, <1>2, <1>4, <1>6 DEF UnderWay
<1>8. Fits(toParent[h][1])'
  BY <1>2, <1>3, <1>4, <1>6, NotLater DEF Fits
<1>9. \A i \in 1..Len(toParent'[h]) : i = 1
  BY <1>2, <1>6 DEF Answered
<1> QED
  BY <1>2, <1>5, <1>7, <1>8, <1>9 DEF PipesInStep

(* It is gone: what it sent is still to be read. *)
LEMMA GoneInStep ==
  ASSUME ReplTypeOK, PipesInStep, InUse, handle \in Workers,
         LoseParent(handle) \/ Die(handle)
  PROVE  PipesInStep'
<1>1. /\ OwnMove(handle) /\ worker'[handle].state = "gone" /\ toParent' = toParent
  BY GoneMoves
<1>2. UNCHANGED <<core, iter, exec, handle, picked>> /\ ~Alive(handle)'
  BY <1>1 DEF OwnMove, loopVars, history, Alive
<1>3. exec.pc = "waiting" =>
          \A i \in 1..Len(toParent[handle]) : Fits(toParent[handle][i])
  BY DEF PipesInStep
<1>4. \A i \in 1..Len(toParent[handle]) :
          Fits(toParent[handle][i]) => Fits(toParent[handle][i])'
  BY <1>1, <1>2 DEF Fits, Recent
<1> QED
  BY <1>1, <1>2, <1>3, <1>4 DEF PipesInStep

(* Every step of a worker keeps the pipes in step. *)
LEMMA WorkerInStep ==
  ASSUME ReplTypeOK, PipesInStep, CopiesAgree, NEW w \in Workers, WorkerStep(w)
  PROVE  PipesInStep'
<1>1. OwnMove(w)
  BY WorkerMoves
<1>2. CASE w # handle
  BY <1>1, <1>2, OthersAside
<1>3. CASE ~InUse
  BY <1>1, <1>3, OwnUse, NotInUse
<1>4. CASE w = handle /\ InUse
  BY <1>4, BootInStep, ServeInStep, AssignInStep, CallQueryInStep, ReadReplyInStep,
     EndProgramInStep, GoneInStep DEF WorkerStep
<1> QED
  BY <1>2, <1>3, <1>4

(* A program is to be run by the worker there is, idle with empty pipes,   *)
(* or by a new one that starts with the parent's copy. *)
LEMMA ExecuteInStep ==
  ASSUME ReplTypeOK, CallsMatch, PipesInStep, CopiesAgree, Execute
  PROVE  PipesInStep'
<1>1. /\ core = "choose" /\ iter' = iter + 1 /\ exec.pc = "out" /\ exec'.op = "execute"
      /\ UNCHANGED <<env, toWorker, toParent, history>>
  BY ExecuteMoves
<1>2. CASE handle # NoWorker /\ Alive(handle)
  <2>1. exec'.pc = "sending" /\ handle' = handle /\ worker' = worker
    BY <1>2, ExecuteMoves
  <2>2. InUse
    BY <1>1, <1>2 DEF InUse
  <2>3. UnderWay(handle) /\ Recent(worker[handle].x) /\ worker[handle].x \in Value
    BY <1>2, <2>2, InUseSays
  <2>4. worker[handle].state = "idle" /\ Empty(handle)
    BY <1>1, <2>3 DEF UnderWay
  <2>5. UnderWay(handle)'
    BY <1>1, <2>1, <2>4 DEF UnderWay, Empty
  <2>6. picked' = picked
    BY <1>1 DEF history
  <2>7. Recent(worker[handle].x)'
    <3> DEFINE x == worker[handle].x
    <3>1. Recent(x)'
      BY <1>1, <2>1, <2>3, <2>6, Numbers DEF Recent, Value
    <3> QED
      BY <3>1
  <2> QED
    BY <2>1, <2>5, <2>7 DEF PipesInStep
<1>3. CASE ~(handle # NoWorker /\ Alive(handle))
  <2>1. /\ exec'.pc = "starting" /\ handle' \in Workers /\ worker[handle'].state = "none"
        /\ worker'[handle'].state = "booting" /\ worker'[handle'].x = env
    BY <1>3, ExecuteMoves
  <2>2. toWorker[handle'] = <<>> /\ toParent[handle'] = <<>>
    BY <2>1 DEF CallsMatch
  <2>3. UnderWay(handle)'
    BY <1>1, <2>1, <2>2 DEF UnderWay, Empty
  <2>4. picked' = picked /\ env = picked /\ picked <= iter /\ iter \in Nat
    BY <1>1, Numbers DEF history, CopiesAgree
  <2>5. Recent(worker[handle].x)'
    BY <1>1, <2>1, <2>4, Numbers DEF Recent
  <2> QED
    BY <2>1, <2>3, <2>5 DEF PipesInStep
<1> QED
  BY <1>2, <1>3

(* FINAL_VAR asks an idle worker with empty pipes. *)
LEMMA AskInStep ==
  ASSUME ReplTypeOK, PipesInStep, AskVariable
  PROVE  PipesInStep'
<1>1. /\ core = "choose" /\ iter' = iter + 1 /\ exec.pc = "out"
      /\ UNCHANGED <<handle, env, worker, toParent, history>>
  BY AskMoves
<1>2. CASE /\ handle \in Workers /\ Alive(handle)
           /\ exec'.pc = "waiting" /\ exec'.op = "get"
           /\ toWorker[handle] = <<>> =>
                  Len(toWorker'[handle]) = 1 /\ toWorker'[handle][1].type = "get"
  <2>1. InUse
    BY <1>1, <1>2, ReplAssumption DEF InUse, Workers, NoWorker
  <2>2. UnderWay(handle) /\ Recent(worker[handle].x) /\ worker[handle].x \in Value
    BY <1>2, <2>1, InUseSays
  <2>3. worker[handle].state = "idle" /\ Empty(handle)
    BY <1>1, <2>2 DEF UnderWay
  <2>4. UnderWay(handle)'
    BY <1>1, <1>2, <2>3 DEF UnderWay, Empty, Sent
  <2>5. picked' = picked
    BY <1>1 DEF history
  <2>6. Recent(worker[handle].x)'
    BY <1>1, <2>2, <2>5, Numbers DEF Recent, Value
  <2>7. Len(toParent'[handle]) = 0
    BY <1>1, <2>3 DEF Empty
  <2> QED
    BY <1>1, <2>4, <2>6, <2>7 DEF PipesInStep
<1>3. CASE exec' = exec /\ (core' = "closing" \/ handle = NoWorker)
  BY <1>1, <1>3, NotInUse DEF InUse
<1> QED
  BY <1>2, <1>3, AskMoves

(* The worker is ready. *)
LEMMA ReadyInStep ==
  ASSUME ReplTypeOK, PipesInStep, ReceiveReady
  PROVE  PipesInStep'
<1>1. /\ exec.pc = "starting" /\ exec'.pc = "sending"
      /\ handle \in Workers /\ toParent[handle] # <<>>
      /\ Len(toParent[handle]) = 1 => toParent'[handle] = <<>>
      /\ UNCHANGED <<core, iter, handle, worker, toWorker, picked>>
  BY ReadyMoves DEF loopVars, history
<1>2. InUse
  BY <1>1, ReplAssumption DEF InUse, Workers, NoWorker
<1>3. ASSUME Alive(handle) PROVE UnderWay(handle)' /\ Recent(worker[handle].x)'
  <2>1. UnderWay(handle) /\ Recent(worker[handle].x)
    BY <1>2, <1>3, InUseSays
  <2>2. worker[handle].state = "idle" /\ Answered(handle)
    BY <1>1, <2>1 DEF UnderWay, Empty
  <2>3. Empty(handle)'
    BY <1>1, <2>2 DEF Empty, Answered
  <2>4. UnderWay(handle)'
    BY <1>1, <2>2, <2>3 DEF UnderWay
  <2> QED
    BY <1>1, <2>1, <2>4 DEF Recent
<1>4. Alive(handle)' => Alive(handle)
  BY <1>1 DEF Alive
<1> QED
  BY <1>1, <1>3, <1>4 DEF PipesInStep

(* The worker asks for a query, and its pipes are empty again. *)
LEMMA CallbackInStep ==
  ASSUME ReplTypeOK, PipesInStep, CallsMatch, ReceiveCallback
  PROVE  PipesInStep'
<1>1. /\ exec.pc = "waiting" /\ exec'.pc = "callback" /\ exec'.op = exec.op
      /\ handle \in Workers /\ toParent[handle] # <<>>
      /\ toParent[handle][1].type = "callback"
      /\ Len(toParent[handle]) = 1 => toParent'[handle] = <<>>
      /\ UNCHANGED <<core, iter, handle, worker, toWorker, picked>>
  BY CallbackMoves DEF loopVars, history
<1>2. InUse
  BY <1>1, ReplAssumption DEF InUse, Workers, NoWorker
<1>3. exec'.op = "execute"
  BY <1>1, TakesMove DEF ExecutorMove
<1>4. ASSUME Alive(handle) PROVE UnderWay(handle)' /\ Recent(worker[handle].x)'
  <2>1. UnderWay(handle) /\ Recent(worker[handle].x)
    BY <1>2, <1>4, InUseSays
  <2>2. worker[handle].state = "calling" /\ worker[handle].step = iter /\ Answered(handle)
    BY <1>1, <1>3, <2>1 DEF UnderWay, Empty, Sent
  <2>3. Empty(handle)'
    BY <1>1, <2>2 DEF Empty, Answered
  <2>4. UnderWay(handle)'
    BY <1>1, <2>2, <2>3 DEF UnderWay
  <2> QED
    BY <1>1, <2>1, <2>4 DEF Recent
<1>5. Alive(handle)' => Alive(handle)
  BY <1>1 DEF Alive
<1> QED
  BY <1>1, <1>4, <1>5 DEF PipesInStep

(* When a pipe turns out broken, or a limit ends the run, the call ends    *)
(* with a worker that is dead or that is not used again.                   *)
LEMMA BrokenOff ==
  ASSUME ReplTypeOK, CallsMatch, SendProgram \/ CallbackReturns \/ AbortStep
  PROVE  /\ exec'.pc = "out" => ~Alive(handle) \/ core' # "choose"
         /\ exec'.pc = "waiting" => Alive(handle)
<1>1. exec \in Calls
  BY TypesNamed
<1>2. exec.pc # "out" /\ core # "choose"
  BY DEF SendProgram, CallbackReturns, AbortStep, CallsMatch
<1>3. CASE SendProgram \/ CallbackReturns
  <2>1. CASE Alive(handle)
    <3>1. exec' = [exec EXCEPT !.pc = "waiting"]
      BY <1>3, <2>1 DEF SendProgram, CallbackReturns
    <3>2. exec'.pc = "waiting"
      BY <1>1, <3>1 DEF Calls
    <3> QED
      BY <2>1, <3>2
  <2>2. CASE ~Alive(handle)
    <3>1. LeaveExecutor
      BY <1>3, <2>2 DEF SendProgram, CallbackReturns
    <3>2. exec'.pc = "out"
      BY <3>1, CallLeft
    <3> QED
      BY <2>2, <3>2
  <2> QED
    BY <2>1, <2>2
<1>4. CASE AbortStep
  <2>1. LeaveExecutor /\ Resume(Conclude("budget", Absent))
    BY <1>4 DEF AbortStep
  <2>2. exec'.pc = "out"
    BY <2>1, CallLeft
  <2>3. core' # "choose"
    BY <1>2, <2>1 DEF Resume, Conclude
  <2> QED
    BY <2>2, <2>3
<1> QED
  BY <1>3, <1>4

(* The program, or the reply to the query, is on its way. *)
LEMMA SendInStep ==
  ASSUME ReplTypeOK, PipesInStep, CallsMatch, SendProgram \/ CallbackReturns \/ AbortStep
  PROVE  PipesInStep'
<1>1. /\ exec.pc \in {"sending", "callback"}
      /\ UNCHANGED <<iter, handle, worker, toParent, picked>>
      /\ exec'.pc = "waiting" \/ exec'.pc = "out"
  BY SendMoves, AnswerMoves DEF history
<1>2. handle # NoWorker /\ handle \in Workers /\ InUse
  BY <1>1, HandleIsWorker DEF CallsMatch, InUse
<1>3. CASE exec'.pc = "out"
  <2>1. ~Alive(handle) \/ core' # "choose"
    BY <1>3, BrokenOff
  <2> QED
    BY <1>1, <1>3, <2>1 DEF PipesInStep, InUse, Alive
<1>4. CASE exec'.pc = "waiting"
  <2>1. Alive(handle)
    BY <1>4, BrokenOff
  <2>2. UnderWay(handle) /\ Recent(worker[handle].x)
    BY <1>2, <2>1, InUseSays
  <2>3. Empty(handle) /\ exec'.op = "execute"
    BY <1>1, <1>4, <2>2, SendMoves, AnswerMoves DEF UnderWay
  <2>4. ASSUME SendProgram PROVE UnderWay(handle)'
    <3>1. /\ exec.pc = "sending" /\ Len(toWorker'[handle]) = 1
          /\ toWorker'[handle][1].type = "execute" /\ toWorker'[handle][1].step = iter
      BY <1>4, <2>3, <2>4, SendMoves DEF Empty
    <3>2. worker[handle].state = "idle"
      BY <2>2, <3>1 DEF UnderWay
    <3>3. Sent(handle, "execute")'
      BY <1>1, <2>3, <3>1 DEF Sent, Empty
    <3> QED
      BY <1>1, <1>4, <2>3, <3>1, <3>2, <3>3 DEF UnderWay
  <2>5. ASSUME CallbackReturns \/ AbortStep PROVE UnderWay(handle)'
    <3>1. /\ exec.pc = "callback" /\ Len(toWorker'[handle]) = 1
          /\ toWorker'[handle][1].type = "callback_result"
      BY <1>4, <2>3, <2>5, AnswerMoves DEF Empty
    <3>2. worker[handle].state = "calling" /\ worker[handle].step = iter
      BY <2>2, <3>1 DEF UnderWay
    <3>3. Sent(handle, "callback_result")'
      BY <1>1, <2>3, <3>1 DEF Sent, Empty
    <3> QED
      BY <1>1, <1>4, <2>3, <3>2, <3>3 DEF UnderWay
  <2>6. Recent(worker[handle].x)'
    BY <1>1, <2>2 DEF Recent
  <2>7. Len(toParent'[handle]) = 0
    BY <1>1, <2>3 DEF Empty
  <2> QED
    BY <1>1, <2>4, <2>5, <2>6, <2>7 DEF PipesInStep
<1> QED
  BY <1>1, <1>3, <1>4

(* The answer is taken: the worker is idle and its pipes are empty. *)
LEMMA ReceiveInStep ==
  ASSUME ReplTypeOK, PipesInStep, CallsMatch, CopiesAgree, ReceiveAnswer
  PROVE  PipesInStep'
<1> DEFINE m == toParent[handle][1]
<1>1. /\ exec.pc = "waiting" /\ exec'.pc = "out" /\ handle \in Workers
      /\ UNCHANGED <<iter, handle, worker, toWorker>> /\ toParent[handle] # <<>>
      /\ Len(toParent[handle]) = 1 => toParent'[handle] = <<>>
  BY ReceiveMoves
<1>2. InUse /\ exec.op \in {"execute", "get"}
  BY <1>1, TypesNamed, ReplAssumption DEF InUse, Workers, NoWorker, Calls
<1>3. m.type # "callback" /\ m \in ToParentMessage
  <2>1. HasMessage /\ TakeMessage /\ Head(Inbox).type # "callback"
    BY DEF ReceiveAnswer
  <2>2. Head(Inbox) = m /\ m \in ToParentMessage
    BY <2>1, Taken
  <2> QED
    BY <2>1, <2>2
<1>4. ASSUME Alive(handle) PROVE UnderWay(handle)' /\ Recent(worker[handle].x)'
  <2>1. UnderWay(handle) /\ Recent(worker[handle].x) /\ worker[handle].x \in Value
    BY <1>2, <1>4, InUseSays
  <2>2. worker[handle].state = "idle" /\ Answered(handle)
        /\ (exec.op = "execute" => m.x = worker[handle].x)
    BY <1>1, <1>2, <1>3, <2>1 DEF UnderWay, Empty, Sent
  <2>3. Empty(handle)'
    BY <1>1, <2>2 DEF Empty, Answered
  <2>4. UnderWay(handle)'
    BY <1>1, <2>2, <2>3 DEF UnderWay
  <2>5. CASE exec.op = "get"
    <3>1. picked' = picked
      BY <2>5, ReceiveMoves DEF history
    <3> QED
      BY <1>1, <2>1, <2>4, <3>1 DEF Recent
  <2>6. CASE exec.op = "execute"
    <3>1. picked' = IF Pickled(m.x) # Absent THEN m.x ELSE picked
      BY <2>6, ReceiveMoves
    <3>2. m.x = worker[handle].x /\ m.x <= iter
      BY <2>1, <2>2, <2>6, NotLater
    <3>3. worker[handle].x \in {Absent, Opaque} \/ picked' = worker[handle].x
      BY <3>1, <3>2 DEF Pickled
    <3>4. worker[handle].x \in Int
      BY <2>1 DEF Value
    <3>5. Recent(worker[handle].x)'
      BY <1>1, <3>2, <3>3, <3>4 DEF Recent
    <3> QED
      BY <2>4, <3>5
  <2> QED
    BY <1>2, <2>5, <2>6
<1>5. Alive(handle)' => Alive(handle)
  BY <1>1 DEF Alive
<1> QED
  BY <1>1, <1>4, <1>5 DEF PipesInStep

(* So with every step. *)
LEMMA InStepKept ==
  ASSUME ReplTypeOK, CallsMatch, PipesInStep, CopiesAgree, [ReplNext]_replVars
  PROVE  PipesInStep'
<1>1. CASE EmptyResponse
  <2>1. /\ UNCHANGED <<exec, handle, worker, toWorker, toParent, picked>>
        /\ core = "choose" /\ core' = core /\ iter' = iter + 1
    BY <1>1, QuietMoves DEF EmptyResponse
  <2>2. exec.pc = "out"
    BY <2>1 DEF CallsMatch
  <2>3. ASSUME InUse, Alive(handle) PROVE UnderWay(handle)' /\ Recent(worker[handle].x)'
    <3>1. UnderWay(handle) /\ Recent(worker[handle].x) /\ worker[handle].x \in Value
      BY <2>3, InUseSays
    <3>2. UnderWay(handle)'
      BY <2>1, <2>2, <3>1 DEF UnderWay, Empty
    <3>3. Recent(worker[handle].x)'
      BY <2>1, <3>1, Numbers DEF Recent, Value
    <3> QED
      BY <3>2, <3>3
  <2> QED
    BY <2>1, <2>2, <2>3 DEF PipesInStep, InUse, Alive
<1>2. CASE LeaveLoop \/ ExhaustIterations
  <2>1. core = "choose" /\ core' = "closing" /\ exec' = exec
    BY <1>2 DEF LeaveLoop, ExhaustIterations, NextIteration, Conclude
  <2> QED
    BY <2>1, NotInUse DEF CallsMatch, InUse
<1>3. CASE CancelCompletion
  <2>1. UNCHANGED <<iter, exec, handle, worker, toWorker, toParent, picked>>
        /\ core' = "closing"
    BY <1>3 DEF CancelCompletion, Conclude, procVars, history
  <2> QED
    BY <2>1 DEF PipesInStep, InUse, Alive, UnderWay, Recent, Fits, Empty, Answered, Sent
<1>4. CASE Close \/ Join
  <2>1. core' \in {"joining", "ended"} /\ exec'.pc = "out"
    BY <1>4, CloseMoves, JoinMoves DEF CallsMatch
  <2> QED
    BY <2>1, NotInUse DEF InUse
<1>5. CASE Execute
  BY <1>5, ExecuteInStep
<1>6. CASE AskVariable
  BY <1>6, AskInStep
<1>7. CASE StartFails \/ StepLost
  <2>1. handle' = NoWorker
    BY <1>7, LostMoves
  <2> QED
    BY <2>1, NotInUse DEF InUse
<1>8. CASE ReceiveReady \/ ReceiveCallback \/ ReceiveAnswer
  BY <1>8, ReadyInStep, CallbackInStep, ReceiveInStep
<1>9. CASE SendProgram \/ CallbackStep
  BY <1>9, SendInStep DEF CallbackStep
<1>10. ASSUME NEW w \in Workers, WorkerStep(w) PROVE PipesInStep'
  BY <1>10, WorkerInStep
<1>11. CASE UNCHANGED replVars
  BY <1>11 DEF replVars, PipesInStep, InUse, Alive, UnderWay, Recent, Fits, Empty,
               Answered, Sent
<1> QED
  BY <1>1, <1>2, <1>3, <1>4, <1>5, <1>6, <1>7, <1>8, <1>9, <1>10, <1>11
  DEF ReplNext, LoopStep, ExecutorStep

-----------------------------------------------------------------------------
(* The theorems.                                                           *)

(* It holds at the beginning. *)
LEMMA ReplInitially ==
  ASSUME ReplInit PROVE ReplIInv
<1>1. MaxIterations \in Nat \ {0} /\ MaxCallbacks \in Nat /\ 0 \in 0..MaxIterations
  BY ReplAssumption
<1>2. 0 \in Value \ {Opaque} /\ 0 \in 0..MaxCallbacks
  BY <1>1 DEF Value, Opaque
<1>3. core \in Cores /\ iter \in 0..MaxIterations /\ outcome \in Outcomes
      /\ exec \in Calls /\ handle \in 0..MaxIterations
  BY <1>1, <1>2 DEF ReplInit, Cores, Outcomes, Calls, Absent, NoWorker
<1>4. worker \in [Workers -> Processes] /\ toWorker \in [Workers -> Seq(ToWorkerMessage)]
      /\ toParent \in [Workers -> Seq(ToParentMessage)]
  BY <1>1, <1>2 DEF ReplInit, Processes, WorkerState, Absent
<1>5. ReplTypeOK
  BY <1>1, <1>2, <1>3, <1>4, TypesNamed DEF ReplInit, Absent
<1>6. WorkersOwned
  BY DEF ReplInit, WorkersOwned, LiveWorkers, Alive
<1>7. 0 \in 0..iter /\ \A w \in Workers : worker[w].state = "none" <=> 0 < w
  BY <1>1 DEF ReplInit, Workers
<1>8. CallsMatch
  BY <1>7 DEF ReplInit, CallsMatch, NoWorker
<1>9. PipesInStep
  BY DEF ReplInit, PipesInStep, InUse
<1>10. AnswersOwnStep /\ CopiesAgree /\ FinalVarUpToDate
  BY DEF ReplInit, AnswersOwnStep, CopiesAgree, FinalVarUpToDate, Absent
<1> QED
  BY <1>5, <1>6, <1>8, <1>9, <1>10 DEF ReplIInv

(* The inductive invariant: the loop, the executor, the worker in use and  *)
(* what is in their pipes are always in step.                              *)
THEOREM ReplInvariant == ReplSpec => []ReplIInv
<1>1. ReplInit => ReplIInv
  BY ReplInitially
<1>2. ReplIInv /\ [ReplNext]_replVars => ReplIInv'
  <2> SUFFICES ASSUME ReplIInv, [ReplNext]_replVars PROVE ReplIInv'
    OBVIOUS
  <2>1. ReplTypeOK /\ WorkersOwned /\ CallsMatch /\ PipesInStep
        /\ AnswersOwnStep /\ CopiesAgree /\ FinalVarUpToDate
    BY DEF ReplIInv
  <2>2. ReplTypeOK'
    BY <2>1, TypesKept
  <2>3. WorkersOwned' /\ CallsMatch'
    BY <2>1, OwnedKept
  <2>4. PipesInStep'
    BY <2>1, InStepKept
  <2>5. AnswersOwnStep' /\ CopiesAgree' /\ FinalVarUpToDate'
    BY <2>1, HeardKept
  <2> QED
    BY <2>2, <2>3, <2>4, <2>5 DEF ReplIInv
<1> QED
  BY <1>1, <1>2, PTL DEF ReplSpec

(* Every variable keeps its type. *)
THEOREM TypeCorrect == ReplSpec => []ReplTypeOK
<1>1. ReplIInv => ReplTypeOK
  BY DEF ReplIInv
<1> QED
  BY <1>1, ReplInvariant, PTL

(* No timeout, failed start or cancellation leaves a worker that the       *)
(* executor does not know and close does not join.                         *)
THEOREM WorkersOwnedHolds == ReplSpec => []WorkersOwned
<1>1. ReplIInv => WorkersOwned
  BY DEF ReplIInv
<1> QED
  BY <1>1, ReplInvariant, PTL

(* The answer execute takes from the pipe is the one of the program it     *)
(* sent, although messages carry no number.                                *)
THEOREM AnswersOwnStepHolds == ReplSpec => []AnswersOwnStep
<1>1. ReplIInv => AnswersOwnStep
  BY DEF ReplIInv
<1> QED
  BY <1>1, ReplInvariant, PTL

(* FINAL_VAR never answers with a value older than one already reported,   *)
(* whichever worker it asks and also when it asks none.                    *)
THEOREM FinalVarUpToDateHolds == ReplSpec => []FinalVarUpToDate
<1>1. ReplIInv => FinalVarUpToDate
  BY DEF ReplIInv
<1> QED
  BY <1>1, ReplInvariant, PTL
=============================================================================
