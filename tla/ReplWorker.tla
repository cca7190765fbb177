----------------------------- MODULE ReplWorker -----------------------------
(***************************************************************************)
(* The REPL of one completion: the loop that uses it (_acomplete_in_state  *)
(* in src/rlm/core.py), the executor in the parent process (REPLExecutor   *)
(* in repl.py) and the worker processes it spawns (_worker_main), with a   *)
(* pair of pipes between the executor and each worker.                     *)
(*                                                                         *)
(* The programs the model writes are abstracted to what they do to one     *)
(* variable x, to the callbacks they make and to how they end.  A value is *)
(* the number of the step that assigned it; Absent says that x does not    *)
(* exist and Opaque that it holds a value pickle refuses.                  *)
(*                                                                         *)
(* A worker may die whenever it exists: the code may run into a resource   *)
(* limit and the system may kill the process.  execute and get_variable    *)
(* run in a pool thread, so cancelling the completion (Ctrl+C) does not    *)
(* stop them; they hold the executor's lock until they return.             *)
(***************************************************************************)
EXTENDS Integers, Sequences

CONSTANTS
    MaxIterations,  \* RLM(max_iterations)
    MaxCallbacks    \* bound: callbacks made by one step

ASSUME ReplAssumption ==
    /\ MaxIterations \in Nat \ {0}
    /\ MaxCallbacks \in Nat

VARIABLES
    core,      \* where the completion's loop is
    iter,      \* iterations begun; the number of the current step
    outcome,   \* how the completion ended
    exec,      \* the call of the executor in progress
    handle,    \* REPLExecutor._process and _connection, 0 for None
    env,       \* x in the parent's repl_env
    worker,    \* the processes spawned so far
    toWorker,  \* messages in the pipe to each worker
    toParent,  \* messages in the pipe from each worker
    picked,    \* history: the last picklable value of x so received
    heard      \* history: which step the last accepted message belongs to

replVars == <<core, iter, outcome, exec, handle, env, worker, toWorker,
              toParent, picked, heard>>
procVars == <<worker, toWorker, toParent>>
loopVars == <<core, iter, outcome>>
history == <<picked, heard>>

-----------------------------------------------------------------------------
Absent == 0
Opaque == -1
Value == Opaque..MaxIterations

Workers == 1..MaxIterations
NoWorker == 0

WorkerState == {"none", "booting", "idle", "running", "calling", "gone"}
Alive(w) == worker[w].state \notin {"none", "gone"}
LiveWorkers == {w \in Workers : Alive(w)}

(* What pickle lets through. *)
Pickled(x) == IF x = Opaque THEN Absent ELSE x

ToWorkerMessage == [type : {"execute", "get", "callback_result", "close"},
                    step : 0..MaxIterations]
ToParentMessage ==
    [type : {"ready", "startup_error", "callback", "result", "error", "variable"},
     step : 0..MaxIterations, x : Value, final : BOOLEAN]

Command(type) == [type |-> type, step |-> iter]
Message(w, type) == [type |-> type, step |-> worker[w].step,
                     x |-> worker[w].x, final |-> FALSE]

ReplTypeOK ==
    /\ core \in {"choose", "step", "ask", "closing", "joining", "ended"}
    /\ iter \in 0..MaxIterations
    /\ outcome \in [how : {"none", "directive", "variable", "snapshot", "object",
                           "exhausted", "failed", "budget", "cancelled"},
                    x : Value]
    /\ exec \in [pc : {"out", "starting", "sending", "waiting", "callback"},
                 op : {"execute", "get"}, left : BOOLEAN, joins : 0..MaxIterations]
    /\ handle \in 0..MaxIterations
    /\ env \in Value \ {Opaque}
    /\ worker \in [Workers -> [state : WorkerState, x : Value,
                               step : 0..MaxIterations, calls : 0..MaxCallbacks]]
    /\ toWorker \in [Workers -> Seq(ToWorkerMessage)]
    /\ toParent \in [Workers -> Seq(ToParentMessage)]
    /\ picked \in Value \ {Opaque}
    /\ heard \in [asked : 0..MaxIterations, by : 0..MaxIterations]

ReplInit ==
    /\ core = "choose"
    /\ iter = 0
    /\ outcome = [how |-> "none", x |-> Absent]
    /\ exec = [pc |-> "out", op |-> "execute", left |-> TRUE, joins |-> NoWorker]
    /\ handle = NoWorker
    /\ env = Absent
    /\ worker = [w \in Workers |-> [state |-> "none", x |-> Absent,
                                    step |-> 0, calls |-> 0]]
    /\ toWorker = [w \in Workers |-> <<>>]
    /\ toParent = [w \in Workers |-> <<>>]
    /\ picked = Absent
    /\ heard = [asked |-> 0, by |-> 0]

-----------------------------------------------------------------------------
(* The completion's loop.                                                  *)

(* The loop ends: the finally block of the loop is next. *)
Conclude(how, x) ==
    /\ core' = "closing"
    /\ outcome' = [how |-> how, x |-> x]

(* A call of the executor ends and the loop, unless it was cancelled while *)
(* it waited, goes on with the next iteration or ends.                     *)
Resume(NextStep) == IF core \in {"step", "ask"}
                    THEN NextStep
                    ELSE UNCHANGED <<core, outcome>>
Feedback == core' = "choose" /\ UNCHANGED outcome
LeaveExecutor == exec' = [exec EXCEPT !.pc = "out", !.left = TRUE]

(* The answer to FINAL_VAR when the worker cannot be asked: the parent's   *)
(* copy, if it has one.                                                    *)
AnswerFromSnapshot == IF env # Absent THEN Conclude("snapshot", env) ELSE Feedback

(* A REPLError reaches the loop. *)
ErrorReturned == IF core = "ask" THEN AnswerFromSnapshot ELSE Feedback

NextIteration == core = "choose" /\ iter < MaxIterations /\ iter' = iter + 1

(* An empty response, or one whose code block is empty: no executor call. *)
EmptyResponse ==
    /\ NextIteration
    /\ UNCHANGED <<core, outcome, exec, handle, env, procVars, history>>

(* A FINAL directive; or the model call fails or exceeds a limit. *)
LeaveLoop ==
    /\ NextIteration
    /\ \E how \in {"directive", "failed"} : Conclude(how, Absent)
    /\ UNCHANGED <<exec, handle, env, procVars, history>>

ExhaustIterations ==
    /\ core = "choose"
    /\ iter = MaxIterations
    /\ Conclude("exhausted", Absent)
    /\ UNCHANGED <<iter, exec, handle, env, procVars, history>>

(* The completion is cancelled; a call in a pool thread runs on. *)
CancelCompletion ==
    /\ core \in {"choose", "step", "ask"}
    /\ Conclude("cancelled", Absent)
    /\ UNCHANGED <<iter, exec, handle, env, procVars, history>>

-----------------------------------------------------------------------------
(* REPLExecutor.                                                           *)

(* Mutant of Discard: the connection is dropped and the process left. *)
DiscardHandle ==
    /\ handle' = NoWorker
    /\ UNCHANGED procVars

(* _terminate_timed_out_worker, and close when the worker is gone already. *)
Discard ==
    /\ handle' = NoWorker
    /\ worker' = [w \in Workers |-> IF w = handle
                                    THEN [worker[w] EXCEPT !.state = "gone"]
                                    ELSE worker[w]]
    /\ UNCHANGED <<toWorker, toParent>>

(* A new process starts with the parent's variables. *)
Spawned == CHOOSE w \in Workers :
               /\ worker[w].state = "none"
               /\ \A v \in 1..(w - 1) : worker[v].state # "none"
NewWorker == [state |-> "booting", x |-> env, step |-> 0, calls |-> 0]

(* execute: _ensure_worker keeps a live worker and replaces a dead one. *)
Execute ==
    /\ NextIteration
    /\ exec.pc = "out"
    /\ core' = "step"
    /\ IF handle # NoWorker /\ Alive(handle)
       THEN /\ exec' = [exec EXCEPT !.pc = "sending", !.op = "execute"]
            /\ UNCHANGED <<handle, worker>>
       ELSE /\ exec' = [exec EXCEPT !.pc = "starting", !.op = "execute"]
            /\ handle' = Spawned
            /\ worker' = [worker EXCEPT ![Spawned] = NewWorker]
    /\ UNCHANGED <<outcome, env, toWorker, toParent, history>>

Inbox == toParent[handle]
HasMessage == handle # NoWorker /\ Inbox # <<>>
AtEnd == handle # NoWorker /\ Inbox = <<>> /\ ~Alive(handle)
TakeMessage == toParent' = [toParent EXCEPT ![handle] = Tail(@)]

(* The worker announces that it is ready. *)
ReceiveReady ==
    /\ exec.pc = "starting"
    /\ HasMessage
    /\ Head(Inbox).type = "ready"
    /\ TakeMessage
    /\ exec' = [exec EXCEPT !.pc = "sending"]
    /\ UNCHANGED <<loopVars, handle, env, worker, toWorker, history>>

(* Mutant of StartFails: poll without a limit. *)
StartFailsAtEnd ==
    /\ exec.pc = "starting"
    /\ \/ AtEnd
       \/ HasMessage /\ Head(Inbox).type # "ready"
    /\ Discard
    /\ LeaveExecutor
    /\ Resume(ErrorReturned)
    /\ UNCHANGED <<iter, env, history>>

(* No answer within ten seconds, the end of the pipe, or the report that   *)
(* the resource limits cannot be applied: the worker is given up.          *)
StartFails ==
    /\ exec.pc = "starting"
    /\ ~(HasMessage /\ Head(Inbox).type = "ready")
    /\ Discard
    /\ LeaveExecutor
    /\ Resume(ErrorReturned)
    /\ UNCHANGED <<iter, env, history>>

(* The program is sent.  A worker that died since it was looked at breaks  *)
(* the pipe: an OSError, which the loop feeds back like any exception.     *)
SendProgram ==
    /\ exec.pc = "sending"
    /\ IF Alive(handle)
       THEN /\ exec' = [exec EXCEPT !.pc = "waiting"]
            /\ toWorker' = [toWorker EXCEPT ![handle] = Append(@, Command("execute"))]
            /\ UNCHANGED <<core, outcome>>
       ELSE /\ LeaveExecutor
            /\ Resume(Feedback)
            /\ UNCHANGED toWorker
    /\ UNCHANGED <<iter, handle, env, worker, toParent, history>>

(* FINAL_VAR.  Without a worker get_variable raises a REPLError; a worker  *)
(* that died unnoticed breaks the pipe, and the OSError ends the run.      *)
AskVariable ==
    /\ NextIteration
    /\ exec.pc = "out"
    /\ IF handle = NoWorker
       THEN /\ AnswerFromSnapshot
            /\ UNCHANGED <<exec, toWorker>>
       ELSE IF Alive(handle)
            THEN /\ core' = "ask"
                 /\ exec' = [exec EXCEPT !.pc = "waiting", !.op = "get"]
                 /\ toWorker' = [toWorker EXCEPT ![handle] = Append(@, Command("get"))]
                 /\ UNCHANGED outcome
            ELSE /\ Conclude("failed", Absent)
                 /\ UNCHANGED <<exec, toWorker>>
    /\ UNCHANGED <<handle, env, worker, toParent, history>>

(* Mutant of Merged: only a result brings its snapshot. *)
MergedResult(m) == IF m.type = "result" /\ Pickled(m.x) # Absent THEN m.x ELSE env

(* The snapshot a message carries is merged before its type is looked at.  *)
(* It holds no unpicklable value and cannot say that a name is gone.       *)
Merged(m) == IF Pickled(m.x) # Absent THEN m.x ELSE env

Acknowledge(m) ==
    /\ env' = Merged(m)
    /\ picked' = IF Pickled(m.x) # Absent THEN m.x ELSE picked
    /\ heard' = [asked |-> iter, by |-> m.step]

(* The answer to a step, or to FINAL_VAR.  A result may publish an answer  *)
(* object that is ready; a message of the wrong type is a REPLError.       *)
ReceiveAnswer ==
    /\ exec.pc = "waiting" /\ exec.left
    /\ HasMessage
    /\ Head(Inbox).type # "callback"
    /\ LET m == Head(Inbox) IN
       IF exec.op = "get"
       THEN /\ Resume(IF m.type # "variable" THEN AnswerFromSnapshot
                      ELSE IF m.x = Absent THEN Feedback ELSE Conclude("variable", m.x))
            /\ UNCHANGED <<env, history>>
       ELSE /\ Acknowledge(m)
            /\ Resume(IF m.type = "result" /\ m.final
                      THEN Conclude("object", Absent) ELSE Feedback)
    /\ TakeMessage
    /\ LeaveExecutor
    /\ UNCHANGED <<iter, handle, worker, toWorker>>

(* The worker calls a query.  The wait may have used up the time left.     *)
ReceiveCallback ==
    /\ exec.pc = "waiting" /\ exec.left
    /\ HasMessage
    /\ Head(Inbox).type = "callback"
    /\ \E left \in BOOLEAN : exec' = [exec EXCEPT !.pc = "callback", !.left = left]
    /\ TakeMessage
    /\ UNCHANGED <<loopVars, handle, env, worker, toWorker, history>>

(* The query is answered with a value or with an error the program sees.   *)
(* If the worker died meanwhile the reply breaks the pipe: an OSError.     *)
CallbackReturns ==
    /\ exec.pc = "callback"
    /\ IF Alive(handle)
       THEN /\ exec' = [exec EXCEPT !.pc = "waiting"]
            /\ toWorker' = [toWorker EXCEPT ![handle] = Append(@, Command("callback_result"))]
            /\ UNCHANGED <<core, outcome>>
       ELSE /\ LeaveExecutor
            /\ Resume(Feedback)
            /\ UNCHANGED toWorker
    /\ UNCHANGED <<iter, handle, env, worker, toParent, history>>

(* Mutant of AbortStep: the error is fed back like any other. *)
AbortStepFeedback ==
    /\ exec.pc = "callback"
    /\ Alive(handle)
    /\ LeaveExecutor
    /\ toWorker' = [toWorker EXCEPT ![handle] = Append(@, Command("callback_result"))]
    /\ Resume(Feedback)
    /\ UNCHANGED <<iter, handle, env, worker, toParent, history>>

(* A limit of the run is exceeded in the query: the worker is told, and    *)
(* left running, and the error ends the completion.                        *)
AbortStep ==
    /\ exec.pc = "callback"
    /\ Alive(handle)
    /\ LeaveExecutor
    /\ toWorker' = [toWorker EXCEPT ![handle] = Append(@, Command("callback_result"))]
    /\ Resume(Conclude("budget", Absent))
    /\ UNCHANGED <<iter, handle, env, worker, toParent, history>>

(* No message in the time left, none left after a callback, or the end of  *)
(* the pipe: the worker is dead and all it sent has been read.             *)
StepLost ==
    /\ exec.pc = "waiting"
    /\ ~exec.left \/ Inbox = <<>>
    /\ Discard
    /\ LeaveExecutor
    /\ Resume(ErrorReturned)
    /\ UNCHANGED <<iter, env, history>>

(* The finally block: close waits for the lock, tells the worker and drops *)
(* the connection.                                                         *)
LockFree == exec.pc = "out"
Close ==
    /\ core = "closing"
    /\ LockFree
    /\ core' = "joining"
    /\ exec' = [exec EXCEPT !.joins = handle]
    /\ handle' = NoWorker
    /\ toWorker' = IF handle # NoWorker /\ Alive(handle)
                   THEN [toWorker EXCEPT ![handle] = Append(@, Command("close"))]
                   ELSE toWorker
    /\ UNCHANGED <<iter, outcome, env, worker, toParent, history>>

(* The process is joined; one that is still there after a while is         *)
(* terminated.                                                             *)
Join ==
    /\ core = "joining"
    /\ core' = "ended"
    /\ worker' = IF exec.joins # NoWorker
                 THEN [worker EXCEPT ![exec.joins].state = "gone"]
                 ELSE worker
    /\ UNCHANGED <<iter, outcome, exec, handle, env, toWorker, toParent, history>>

-----------------------------------------------------------------------------
(* The worker process.                                                     *)

Reply(w, m) == toParent' = [toParent EXCEPT ![w] = Append(@, m)]
SetState(w, s) == worker' = [worker EXCEPT ![w].state = s]
Unread(w) == toWorker[w] # <<>>
ReadCommand(w) == toWorker' = [toWorker EXCEPT ![w] = Tail(@)]

(* The resource limits are applied or the process reports why not. *)
Boot(w) ==
    /\ worker[w].state = "booting"
    /\ \/ SetState(w, "idle") /\ Reply(w, Message(w, "ready"))
       \/ SetState(w, "gone") /\ Reply(w, Message(w, "startup_error"))
    /\ UNCHANGED <<loopVars, exec, handle, env, toWorker, history>>

(* The next command: a program, a variable, or the end. *)
Serve(w) ==
    /\ worker[w].state = "idle"
    /\ Unread(w)
    /\ ReadCommand(w)
    /\ LET c == Head(toWorker[w]) IN
       CASE c.type = "execute" ->
              /\ worker' = [worker EXCEPT ![w].state = "running", ![w].step = c.step,
                                          ![w].calls = 0]
              /\ UNCHANGED toParent
         [] c.type = "get" ->
              /\ Reply(w, [type |-> "variable", step |-> c.step,
                           x |-> Pickled(worker[w].x), final |-> FALSE])
              /\ UNCHANGED worker
         [] c.type = "close" ->
              /\ SetState(w, "gone")
              /\ UNCHANGED toParent
         [] OTHER ->
              /\ Reply(w, Message(w, "error"))
              /\ UNCHANGED worker
    /\ UNCHANGED <<loopVars, exec, handle, env, history>>

(* The program assigns x, deletes it, or binds it to a value pickle        *)
(* refuses.                                                                *)
Assign(w) ==
    /\ worker[w].state = "running"
    /\ \E x \in {worker[w].step, Absent, Opaque} :
           worker' = [worker EXCEPT ![w].x = x]
    /\ UNCHANGED <<loopVars, exec, handle, env, toWorker, toParent, history>>

(* It calls a query and waits for the reply. *)
CallQuery(w) ==
    /\ worker[w].state = "running"
    /\ worker[w].calls < MaxCallbacks
    /\ worker' = [worker EXCEPT ![w].state = "calling", ![w].calls = @ + 1]
    /\ Reply(w, Message(w, "callback"))
    /\ UNCHANGED <<loopVars, exec, handle, env, toWorker, history>>

(* Any message is taken for the reply; the program may catch the error one *)
(* of the wrong type, or an error reply, raises.                           *)
ReadReply(w) ==
    /\ worker[w].state = "calling"
    /\ Unread(w)
    /\ ReadCommand(w)
    /\ SetState(w, "running")
    /\ UNCHANGED <<loopVars, exec, handle, env, toParent, history>>

(* The program ends or raises: the answer carries the variables. *)
EndProgram(w) ==
    /\ worker[w].state = "running"
    /\ SetState(w, "idle")
    /\ \/ Reply(w, Message(w, "error"))
       \/ \E final \in BOOLEAN : Reply(w, [Message(w, "result") EXCEPT !.final = final])
    /\ UNCHANGED <<loopVars, exec, handle, env, toWorker, history>>

(* The parent dropped its end: an idle worker reads the end of the pipe    *)
(* and a program that ends cannot send its answer.                         *)
LoseParent(w) ==
    /\ w # handle
    /\ \/ worker[w].state = "idle" /\ ~Unread(w)
       \/ worker[w].state = "running"
    /\ SetState(w, "gone")
    /\ UNCHANGED <<loopVars, exec, handle, env, toWorker, toParent, history>>

Die(w) ==
    /\ Alive(w)
    /\ SetState(w, "gone")
    /\ UNCHANGED <<loopVars, exec, handle, env, toWorker, toParent, history>>

-----------------------------------------------------------------------------
LoopStep == \/ EmptyResponse \/ LeaveLoop \/ ExhaustIterations
            \/ Execute \/ AskVariable \/ Close \/ Join
ExecutorStep == \/ ReceiveReady \/ StartFails \/ SendProgram \/ ReceiveAnswer
                \/ ReceiveCallback \/ StepLost
CallbackStep == CallbackReturns \/ AbortStep
WorkerStep(w) == \/ Boot(w) \/ Serve(w) \/ Assign(w) \/ CallQuery(w) \/ ReadReply(w)
                 \/ EndProgram(w) \/ LoseParent(w) \/ Die(w)

ReplNext == \/ LoopStep \/ ExecutorStep \/ CallbackStep \/ CancelCompletion
            \/ \E w \in Workers : WorkerStep(w)

ReplSpec == ReplInit /\ [][ReplNext]_replVars

(* The event loop runs, a poll of the executor ends when its time is up,   *)
(* and every query ends (RunTree says when).  Nothing is assumed of the    *)
(* worker: the program may run forever.                                    *)
ReplFairness == WF_replVars(LoopStep) /\ WF_replVars(ExecutorStep)
                /\ WF_replVars(CallbackStep)
ReplFairSpec == ReplSpec /\ ReplFairness

-----------------------------------------------------------------------------
(* Every live process is the one the executor knows, or the one close is   *)
(* joining: neither a timeout nor a failed start nor a cancellation leaves *)
(* a worker behind (_terminate_timed_out_worker, close, _ensure_worker).   *)
WorkersOwned == \A w \in LiveWorkers :
                    \/ w = handle
                    \/ core = "joining" /\ w = exec.joins

(* The answer execute takes from the pipe is the one of the program it     *)
(* sent.  Messages carry no number: after an aborted query the worker runs *)
(* on and its late answer would be taken for that of the next step, were   *)
(* the completion not ended (core.py 305, repl.py 548).                    *)
AnswersOwnStep == heard.asked = heard.by

(* FINAL_VAR never answers with a value older than one that a step, also a *)
(* failed one, has reported: not from the worker, whichever process it is  *)
(* by now, and not from the parent's copy (core.py 250, repl.py 430, 480). *)
FinalVarUpToDate ==
    outcome.how \in {"variable", "snapshot"} => outcome.x >= picked

(* The completion ends, whatever the programs and the workers do, and then *)
(* no worker is left.                                                      *)
CompletionEnds == <>(core = "ended" /\ LiveWorkers = {})

-----------------------------------------------------------------------------
(* The inductive invariant behind the three (ReplWorker_proofs).           *)

(* The loop and the executor's call know of each other, and workers are    *)
(* spawned in order.                                                       *)
CallsMatch ==
    /\ core = "choose" => exec.pc = "out"
    /\ core \in {"joining", "ended"} => exec.pc = "out" /\ handle = NoWorker
    /\ exec.pc # "out" => handle # NoWorker
    /\ exec.pc \in {"starting", "sending", "callback"} => exec.op = "execute"
    /\ handle # NoWorker => worker[handle].state # "none"
    /\ core = "joining" /\ exec.joins # NoWorker => worker[exec.joins].state # "none"
    /\ \E n \in 0..iter : \A w \in Workers : worker[w].state = "none" <=> n < w
    /\ \A w \in Workers :
           worker[w].state = "none" => toWorker[w] = <<>> /\ toParent[w] = <<>>

(* What is under way between the executor and its worker, as long as the   *)
(* worker lives and is to answer a step.                                   *)
Empty(h) == toWorker[h] = <<>> /\ toParent[h] = <<>>
Answered(h) == toWorker[h] = <<>> /\ Len(toParent[h]) = 1
Sent(h, type) ==
    Len(toWorker[h]) = 1 /\ toWorker[h][1].type = type /\ toParent[h] = <<>>

UnderWay(h) ==
    /\ exec.pc = "starting" =>
           \/ worker[h].state = "booting" /\ Empty(h)
           \/ worker[h].state = "idle" /\ Answered(h)
    /\ exec.pc \in {"out", "sending"} => worker[h].state = "idle" /\ Empty(h)
    /\ exec.pc = "callback" =>
           worker[h].state = "calling" /\ worker[h].step = iter /\ Empty(h)
    /\ exec.pc = "waiting" /\ exec.op = "execute" =>
           \/ /\ worker[h].state = "idle"
              /\ Sent(h, "execute") /\ toWorker[h][1].step = iter
           \/ worker[h].state = "running" /\ worker[h].step = iter /\ Empty(h)
           \/ /\ worker[h].state = "calling" /\ worker[h].step = iter
              /\ \/ Answered(h) /\ toParent[h][1].type = "callback"
                 \/ Sent(h, "callback_result")
           \/ /\ worker[h].state = "idle" /\ Answered(h)
              /\ toParent[h][1].type # "callback" /\ toParent[h][1].x = worker[h].x
    /\ exec.pc = "waiting" /\ exec.op = "get" =>
           worker[h].state = "idle" /\ (Sent(h, "get") \/ Answered(h))

(* No value older than the last one received is in use: not in the worker  *)
(* and not on its way.                                                     *)
Recent(x) == x \in {Absent, Opaque} \/ (picked <= x /\ x <= iter)
InUse == handle # NoWorker /\ (exec.pc # "out" \/ core = "choose")

Fits(m) == IF exec.op = "execute" THEN m.step = iter /\ m.x <= iter
           ELSE m.type = "variable" /\ m.x # Opaque /\ Recent(m.x)

PipesInStep ==
    InUse =>
        /\ Alive(handle) => UnderWay(handle) /\ Recent(worker[handle].x)
        /\ exec.pc = "waiting" =>
               \A i \in 1..Len(toParent[handle]) : Fits(toParent[handle][i])

(* The parent's copy is the last value received, and an answer was given   *)
(* after it.                                                               *)
CopiesAgree ==
    /\ env = picked /\ picked <= iter
    /\ outcome.how \in {"variable", "snapshot"} =>
           core \in {"closing", "joining", "ended"} /\ exec.pc = "out"

ReplIInv == ReplTypeOK /\ WorkersOwned /\ CallsMatch /\ PipesInStep
            /\ AnswersOwnStep /\ CopiesAgree /\ FinalVarUpToDate
=============================================================================
