---------------------------- MODULE ManagedStack ----------------------------
(***************************************************************************)
(* The local stack: the managers that own the child processes              *)
(* (managed_llama.py, managed_proxy.py, managed_webui.py,                  *)
(* managed_knowledge.py), and the two programs that use them: the control  *)
(* screen, whose buttons are handled by threads of their own (stack_ui.py, *)
(* ui.py), and rlm-cowork, one main thread with signal handlers            *)
(* (cowork.py).                                                            *)
(*                                                                         *)
(* What a handler does is a list of operations of the managers, which it   *)
(* works off from the left.  An operation that fails replaces the rest of  *)
(* the list by the handler's clean-up.  Ports, logs and settings are left  *)
(* out: a configuration is valid or not, and a connection succeeds or not. *)
(***************************************************************************)
EXTENDS Integers, SequencesExt, FiniteSets

CONSTANTS
    Handler,    \* the threads of a program
    Programs,   \* the programs: for each handler what it may be asked to do
    MaxSpawn    \* bound: the children a manager starts in a behaviour

Service == {"knowledge", "llama", "proxy", "webui"}
Kind == {"start_stack", "stop_stack", "start_proxy", "stop_proxy", "cowork"}

ASSUME StackAssumption ==
    /\ Programs \subseteq [Handler -> SUBSET Kind]
    /\ MaxSpawn \in Nat \ {0}

Child == 1..MaxSpawn
None == 0

VARIABLES
    program,   \* the program that runs
    spawned,   \* the number of children a manager has started so far
    alive,     \* those of them that run
    recorded,  \* manager._process
    todo,      \* the operations each handler has left
    run        \* per handler: what it runs and how far it is

stackVars == <<program, spawned, alive, recorded, todo, run>>

-----------------------------------------------------------------------------
(* The lists of operations.                                                *)

Op(name, s) == [name |-> name, service |-> s]

(* start of a manager; that of llama-server checks its configuration after *)
(* it has stopped the server that runs.                                    *)
Start(s) ==
    IF s = "llama"
    THEN <<Op("stop", s), Op("check", s), Op("spawn", s), Op("record", s), Op("poll", s)>>
    ELSE <<Op("check", s), Op("stop", s), Op("spawn", s), Op("record", s), Op("poll", s)>>
Stop(s) == <<Op("stop", s)>>

StopStack == Stop("webui") \o Stop("proxy") \o Stop("llama")
StartStack == StopStack \o Start("llama") \o Start("proxy") \o Start("webui")

(* main of rlm-cowork, by what its options ask for; "watch" is the loop.   *)
Cowork(knowledge, model) ==
    (IF knowledge THEN Start("knowledge") ELSE <<>>)
    \o (IF model THEN Start("llama") \o Start("proxy") ELSE <<>>)
    \o Start("webui") \o <<Op("watch", "webui")>>

(* Mutant of StopStarted: the proxy is forgotten. *)
StopStartedNoProxy(started) ==
    Stop("webui")
    \o (IF "llama" \in started THEN Stop("llama") ELSE <<>>)
    \o (IF "knowledge" \in started THEN Stop("knowledge") ELSE <<>>)

(* What rlm-cowork stops: what it has started, in reverse order. *)
StopStarted(started) ==
    Stop("webui")
    \o (IF "proxy" \in started THEN Stop("proxy") ELSE <<>>)
    \o (IF "llama" \in started THEN Stop("llama") ELSE <<>>)
    \o (IF "knowledge" \in started THEN Stop("knowledge") ELSE <<>>)

Work(kind) ==
    CASE kind = "start_stack" -> {StartStack}
      [] kind = "stop_stack"  -> {StopStack}
      [] kind = "start_proxy" -> {Start("proxy")}
      [] kind = "stop_proxy"  -> {Stop("proxy")}
      [] kind = "cowork"      -> {Cowork(k, m) : k \in BOOLEAN, m \in BOOLEAN}

CleanUp(r) ==
    CASE r.kind = "start_stack" -> StopStack
      [] r.kind = "cowork"      -> StopStarted(r.started)
      [] OTHER                  -> <<>>

-----------------------------------------------------------------------------
(* A handler's run: the child it holds between two operations, the         *)
(* children it has started (mine), the one whose own start raised what its *)
(* manager does not catch (lost), the services whose start has returned,   *)
(* whether it failed, and for rlm-cowork whether the signal handlers are   *)
(* installed, whether stop_process was entered, and whether the process    *)
(* holds the lock of the Open WebUI manager.                               *)
Idle == [kind |-> "idle", hand |-> None, mine |-> {}, lost |-> {}, started |-> {},
         failed |-> FALSE, stopping |-> FALSE, locked |-> FALSE]

StackTypeOK ==
    /\ spawned \in [Service -> 0..MaxSpawn]
    /\ alive \in [Service -> SUBSET Child]
    /\ recorded \in [Service -> Child \cup {None}]
    /\ todo \in [Handler -> Seq([name : {"stop", "end", "check", "spawn", "record",
                                         "poll", "fail", "watch"}, service : Service])]
    /\ run \in [Handler -> [kind : Kind \cup {"idle", "gone"}, hand : Child \cup {None},
                            mine : SUBSET (Service \X Child), lost : SUBSET (Service \X Child),
                            started : SUBSET Service, failed : BOOLEAN,
                            stopping : BOOLEAN, locked : BOOLEAN]]

StackInit ==
    /\ program \in Programs
    /\ spawned = [s \in Service |-> 0]
    /\ alive = [s \in Service |-> {}]
    /\ recorded = [s \in Service |-> None]
    /\ todo = [h \in Handler |-> <<>>]
    /\ run = [h \in Handler |-> Idle]

(* The handler is at an operation of this name on service s. *)
At(h, name, s) ==
    /\ todo[h] # <<>>
    /\ Head(todo[h]) = Op(name, s)

Done(h) == todo' = [todo EXCEPT ![h] = Tail(@)]
Instead(h, ops) == todo' = [todo EXCEPT ![h] = ops]
Fails(h) ==
    /\ Instead(h, CleanUp(run[h]))
    /\ run' = [run EXCEPT ![h].failed = TRUE, ![h].hand = None]

-----------------------------------------------------------------------------
(* The managers.                                                           *)

(* stop reads the child under the lock and leaves if it does not run.      *)
StopReads(h, s) ==
    /\ At(h, "stop", s)
    /\ IF recorded[s] \in alive[s]
       THEN /\ Instead(h, <<Op("end", s)>> \o Tail(todo[h]))
            /\ run' = [run EXCEPT ![h].hand = recorded[s]]
       ELSE Done(h) /\ UNCHANGED run
    /\ UNCHANGED <<program, spawned, alive, recorded>>

(* Outside of the lock the child is terminated, killed if it does not end  *)
(* in time, and waited for.                                                *)
StopEnds(h, s) ==
    /\ At(h, "end", s)
    /\ alive' = [alive EXCEPT ![s] = @ \ {run[h].hand}]
    /\ run' = [run EXCEPT ![h].hand = None]
    /\ Done(h)
    /\ UNCHANGED <<program, spawned, recorded>>

Check(h, s) ==
    /\ At(h, "check", s)
    /\ \/ Done(h) /\ UNCHANGED run
       \/ Fails(h)
    /\ UNCHANGED <<program, spawned, alive, recorded>>

(* Popen makes a child or fails. *)
Spawn(h, s) ==
    /\ At(h, "spawn", s)
    /\ \/ LET c == spawned[s] + 1 IN
          /\ c <= MaxSpawn
          /\ spawned' = [spawned EXCEPT ![s] = c]
          /\ alive' = [alive EXCEPT ![s] = @ \cup {c}]
          /\ run' = [run EXCEPT ![h].hand = c, ![h].mine = @ \cup {<<s, c>>}]
          /\ Done(h)
       \/ Fails(h) /\ UNCHANGED <<spawned, alive>>
    /\ UNCHANGED <<program, recorded>>

(* Mutant of Record: the child is recorded only if none is. *)
RecordFirst(h, s) ==
    /\ At(h, "record", s)
    /\ recorded' = [recorded EXCEPT ![s] = IF @ = None THEN run[h].hand ELSE @]
    /\ Done(h)
    /\ UNCHANGED <<program, spawned, alive, run>>

Record(h, s) ==
    /\ At(h, "record", s)
    /\ recorded' = [recorded EXCEPT ![s] = run[h].hand]
    /\ Done(h)
    /\ UNCHANGED <<program, spawned, alive, run>>

PollConnects(h, s) ==
    /\ At(h, "poll", s)
    /\ run[h].hand \in alive[s]
    /\ run' = [run EXCEPT ![h].started = @ \cup {s}, ![h].hand = None]
    /\ Done(h)
    /\ UNCHANGED <<program, spawned, alive, recorded>>

PollFindsExit(h, s) ==
    /\ At(h, "poll", s)
    /\ run[h].hand \notin alive[s]
    /\ Fails(h)
    /\ UNCHANGED <<program, spawned, alive, recorded>>

(* The poll raises what the manager does not catch while its child runs:   *)
(* a reply to the health check that is not HTTP or no object, or a host    *)
(* name that cannot be encoded.                                            *)
PollRaises(h, s) ==
    /\ At(h, "poll", s)
    /\ run[h].hand \in alive[s]
    /\ Instead(h, CleanUp(run[h]))
    /\ run' = [run EXCEPT ![h].failed = TRUE, ![h].hand = None,
                          ![h].lost = @ \cup {<<s, run[h].hand>>}]
    /\ UNCHANGED <<program, spawned, alive, recorded>>

(* Mutant of PollTimesOut: the child that does not listen is left running. *)
PollGivesUp(h, s) ==
    /\ At(h, "poll", s)
    /\ Fails(h)
    /\ UNCHANGED <<program, spawned, alive, recorded>>

(* What is recorded by now is stopped before the TimeoutError is raised. *)
PollTimesOut(h, s) ==
    /\ At(h, "poll", s)
    /\ Instead(h, <<Op("stop", s), Op("fail", s)>>)
    /\ run' = [run EXCEPT ![h].hand = None]
    /\ UNCHANGED <<program, spawned, alive, recorded>>

RaiseTimeout(h, s) ==
    /\ At(h, "fail", s)
    /\ Fails(h)
    /\ UNCHANGED <<program, spawned, alive, recorded>>

Dies(s, c) ==
    /\ c \in alive[s]
    /\ alive' = [alive EXCEPT ![s] = @ \ {c}]
    /\ UNCHANGED <<program, spawned, recorded, todo, run>>

-----------------------------------------------------------------------------
(* The control screen: one run of a handler at a time, and another when it *)
(* has returned.                                                           *)
Press(h) ==
    /\ todo[h] = <<>>
    /\ \E kind \in program[h] : \E ops \in Work(kind) :
           /\ kind = "cowork" => run[h].kind = "idle"
           /\ run' = [run EXCEPT ![h] = [Idle EXCEPT !.kind = kind]]
           /\ Instead(h, ops)
    /\ UNCHANGED <<program, spawned, alive, recorded>>

(* The loop of rlm-cowork: status takes the lock, looks at the child and   *)
(* lets it go; the loop ends, and stop_process is called, when the child   *)
(* has ended.                                                              *)
WatchLocks(h) ==
    /\ At(h, "watch", "webui")
    /\ ~run[h].locked
    /\ run' = [run EXCEPT ![h].locked = TRUE]
    /\ UNCHANGED <<program, spawned, alive, recorded, todo>>

WatchLooks(h) ==
    /\ At(h, "watch", "webui")
    /\ run[h].locked
    /\ IF recorded["webui"] \in alive["webui"]
       THEN run' = [run EXCEPT ![h].locked = FALSE] /\ UNCHANGED todo
       ELSE /\ run' = [run EXCEPT ![h].locked = FALSE, ![h].stopping = TRUE]
            /\ Instead(h, StopStarted(run[h].started))
    /\ UNCHANGED <<program, spawned, alive, recorded>>

(* SIGINT or SIGTERM: the handler runs stop_process in the main thread.    *)
(* While the thread holds the lock, which is not reentrant, it never gets  *)
(* it (the operation stays without an action).                             *)
Signal(h) ==
    /\ At(h, "watch", "webui")
    /\ run' = [run EXCEPT ![h].stopping = TRUE]
    /\ Instead(h, StopStarted(run[h].started))
    /\ UNCHANGED <<program, spawned, alive, recorded>>

(* Before the handlers are installed a signal ends the process: SIGTERM at *)
(* once, and the KeyboardInterrupt of SIGINT is no Exception.              *)
Killed(h) ==
    /\ run[h].kind = "cowork"
    /\ ~run[h].stopping
    /\ todo[h] # <<>> /\ Head(todo[h]).name # "watch"
    /\ run' = [run EXCEPT ![h].kind = "gone"]
    /\ todo' = [todo EXCEPT ![h] = <<>>]
    /\ UNCHANGED <<program, spawned, alive, recorded>>

-----------------------------------------------------------------------------
Stuck(h) == run[h].locked /\ run[h].stopping

Work1(h, s) ==
    /\ ~Stuck(h)
    /\ \/ StopReads(h, s) \/ StopEnds(h, s) \/ Check(h, s) \/ Spawn(h, s) \/ Record(h, s)
       \/ PollConnects(h, s) \/ PollFindsExit(h, s) \/ PollRaises(h, s)
       \/ PollTimesOut(h, s) \/ RaiseTimeout(h, s)
Watch(h) == WatchLocks(h) \/ WatchLooks(h)

StackNext ==
    \/ \E h \in Handler : Press(h) \/ Watch(h) \/ Signal(h) \/ Killed(h)
    \/ \E h \in Handler, s \in Service : Work1(h, s)
    \/ \E s \in Service, c \in Child : Dies(s, c)

StackSpec == StackInit /\ [][StackNext]_stackVars

(* A thread runs on, and every wait of an operation has a time limit.      *)
StackFairSpec ==
    /\ StackSpec
    /\ \A h \in Handler : WF_stackVars((\E s \in Service : Work1(h, s)) \/ Watch(h))

-----------------------------------------------------------------------------
InHand(s) == {run[h].hand : h \in {x \in Handler : At(x, "record", s)}}

(* "Own at most one ... child process" (managed_llama.py 86): as long as   *)
(* one handler at a time starts a service, no child runs that its manager  *)
(* does not know of, apart from one that is about to be recorded, however  *)
(* starts, stops and deaths fall together (managed_proxy.py 105).          *)
NoOrphan ==
    (\A h \in Handler : run[h].kind # "gone") => \A s \in Service :
        /\ alive[s] \subseteq {recorded[s]} \cup InHand(s)
        /\ Cardinality(alive[s]) <= 1

(* The child whose own start raised what its manager does not catch was    *)
(* started by nothing that returned.  The start of the proxy has no        *)
(* clean-up that would stop it, and rlm-cowork stops only Open WebUI       *)
(* without asking whether its start has returned.                          *)
Escaped(r) ==
    {p \in r.lost : r.kind = "start_proxy" \/ (r.kind = "cowork" /\ p[1] # "webui")}
Owed(r) == r.mine \ Escaped(r)

(* A start of the stack, and a run of rlm-cowork, that fails, and one that *)
(* ends, leaves none of the children running that it started (stack_ui.py  *)
(* 97, cowork.py 183), but the one whose own start raised what the manager *)
(* does not catch (managed_knowledge.py 109, cowork.py 109).               *)
NothingLeftBehind ==
    \A h \in Handler :
        (todo[h] = <<>> /\ run[h].kind # "gone" /\ (run[h].failed \/ run[h].stopping)) =>
            \A p \in Owed(run[h]) : p[2] \notin alive[p[1]]

(* When Open WebUI ends or a signal arrives, rlm-cowork stops everything   *)
(* and ends, unless the signal arrives while it holds the manager's lock   *)
(* (cowork.py 181).                                                        *)
CoworkEnds ==
    \A h \in Handler :
        (run[h].kind = "cowork" /\ (run[h].stopping \/
            (At(h, "watch", "webui") /\ recorded["webui"] \notin alive["webui"])))
        ~> (todo[h] = <<>> /\ \A p \in run[h].mine : p[2] \notin alive[p[1]]) \/ Stuck(h)

-----------------------------------------------------------------------------
(* The inductive invariant of the two, for programs in which one handler   *)
(* starts services.                                                        *)

Starts == {"start_stack", "start_proxy", "cowork"}

(* rlm-cowork is a program of its own: its thread does nothing else. *)
OneStarter ==
    \A p \in Programs :
        /\ \A h, g \in Handler : p[h] \cap Starts # {} /\ p[g] \cap Starts # {} => h = g
        /\ \A h \in Handler : "cowork" \in p[h] => p[h] = {"cowork"}

NoneGone == \A h \in Handler : run[h].kind # "gone"
Ending(h) == run[h].failed \/ run[h].stopping

Is(op, name, s) == op.name = name /\ op.service = s
Halts(op, s) == op.name \in {"stop", "end"} /\ op.service = s
OnlyHalts(ops) == \A i \in 1..Len(ops) : ops[i].name \in {"stop", "end"}

(* Only the starter has children, and a handler that cleans up only stops. *)
RoleOK(h) ==
    /\ run[h].kind \in program[h] \cup {"idle", "gone"}
    /\ run[h].kind = "gone" => program[h] = {"cowork"} /\ todo[h] = <<>>
    /\ run[h].kind \notin Starts => OnlyHalts(todo[h])
    /\ run[h].kind \notin Starts \cup {"gone"} => run[h].mine = {}
    /\ Ending(h) => OnlyHalts(todo[h])

(* Before a child is spawned the one before it is stopped, and after that  *)
(* it is recorded and waited for.                                          *)
Stopped(ops, i, s) ==
    \/ i = 1 /\ alive[s] = {}
    \/ i = 2 /\ Is(ops[1], "check", s) /\ alive[s] = {}
    \/ i >= 2 /\ Halts(ops[i - 1], s)
    \/ i >= 3 /\ Is(ops[i - 1], "check", s) /\ Halts(ops[i - 2], s)

InOrder(ops) ==
    \A i \in 1..Len(ops) : LET s == ops[i].service IN
        /\ ops[i].name = "end" => i = 1
        /\ ops[i].name = "spawn" =>
               /\ i + 2 <= Len(ops)
               /\ Is(ops[i + 1], "record", s) /\ Is(ops[i + 2], "poll", s)
               /\ Stopped(ops, i, s)
        /\ ops[i].name = "record" =>
               /\ i + 1 <= Len(ops) /\ Is(ops[i + 1], "poll", s)
               /\ i > 1 => Is(ops[i - 1], "spawn", s)
        /\ ops[i].name = "poll" /\ i > 1 => Is(ops[i - 1], "record", s)

(* A child that runs is recorded, or in hand to be recorded. *)
Known ==
    \A s \in Service :
        /\ \A h \in Handler : At(h, "record", s) => alive[s] \subseteq {run[h].hand}
        /\ (\A h \in Handler : ~At(h, "record", s)) => alive[s] \subseteq {recorded[s]}

(* What a starter waits for, or ends, is the recorded child. *)
HoldsRecorded(h) ==
    \A s \in Service : At(h, "poll", s) \/ At(h, "end", s) => run[h].hand = recorded[s]

(* A child of the handler that runs and it owes an end to is one its       *)
(* clean-up would stop.                                                    *)
Accounted(h) ==
    \A p \in Owed(run[h]) : p[2] \in alive[p[1]] =>
        IF Ending(h)
        THEN \E i \in 1..Len(todo[h]) : Halts(todo[h][i], p[1])
        ELSE \/ /\ Len(todo[h]) = 2
                /\ Halts(todo[h][1], p[1]) /\ Is(todo[h][2], "fail", p[1])
             \/ At(h, "record", p[1]) \/ At(h, "poll", p[1])
             \/ run[h].kind = "start_stack"
             \/ run[h].kind = "cowork" /\ p[1] \in run[h].started
             \/ run[h].kind = "start_proxy" /\ todo[h] = <<>>

(* Which services a handler starts, and that only rlm-cowork watches.      *)
OfItsKind(h) ==
    /\ run[h].kind # "cowork" => \A i \in 1..Len(todo[h]) : todo[h][i].name # "watch"
    /\ run[h].kind = "start_stack" =>
           /\ \A p \in run[h].mine : p[1] # "knowledge"
           /\ \A i \in 1..Len(todo[h]) :
                  todo[h][i].name = "spawn" => todo[h][i].service # "knowledge"
    /\ run[h].kind = "start_proxy" =>
           \A i \in 1..Len(todo[h]) : todo[h][i].name = "poll" => i = Len(todo[h])

StarterOK(h) ==
    run[h].kind \in Starts =>
        InOrder(todo[h]) /\ HoldsRecorded(h) /\ Accounted(h) /\ OfItsKind(h)

StackIInv ==
    /\ StackTypeOK /\ program \in Programs
    /\ \A h \in Handler : RoleOK(h)
    /\ NoneGone => Known /\ \A h \in Handler : StarterOK(h)
=============================================================================
