------------------------------- MODULE RunTree -------------------------------
(***************************************************************************)
(* One completion tree of the RLM runtime (src/rlm/core.py, budget.py,     *)
(* stats.py and the parent half of repl.py).                               *)
(*                                                                         *)
(* A task is a coroutine of the tree.  It is named by its path: the root   *)
(* is the empty sequence and the i-th query of the REPL call that task t   *)
(* is blocked in is Append(t, i).  A task is an "rlm" task (an RLM object  *)
(* that loops over model calls and REPL steps) or a "leaf" task (a single  *)
(* plain model call).  All coroutines run on one event loop, so a step of  *)
(* the model is what one coroutine does between two awaits; REPL steps and *)
(* batched queries additionally hold a thread of the loop's default        *)
(* executor, which the whole tree shares.                                  *)
(*                                                                         *)
(* Token and cost limits are handled by the same test in                   *)
(* RunBudget.record_usage, so one counter stands for both.  A limit that   *)
(* is not configured is a constant no run reaches.  Time is abstracted to  *)
(* the moment the shared deadline passes.                                  *)
(***************************************************************************)
EXTENDS Integers, Sequences, FiniteSets

CONSTANTS
    MaxDepth,        \* RLM(max_depth)
    MaxIterations,   \* RLM(max_iterations)
    MaxConcurrent,   \* RLM(max_concurrent_subcalls), permits of one batch
    MaxCalls,        \* RunBudget.max_calls
    MaxTokens,       \* RunBudget.max_tokens (or max_cost_usd, in units)
    HasDeadline,     \* RunBudget.max_elapsed_seconds is not None
    MaxBatch,        \* bound: queries in one batched REPL call
    ResponseTokens,  \* bound: the token counts a response may report
    PoolSize         \* threads of the event loop's default executor

ASSUME ConstantsAssumption ==
    /\ MaxDepth \in Nat
    /\ MaxIterations \in Nat \ {0}
    /\ MaxConcurrent \in Nat \ {0}
    /\ MaxCalls \in Nat \ {0}
    /\ MaxTokens \in Nat \ {0}
    /\ HasDeadline \in BOOLEAN
    /\ MaxBatch \in Nat \ {0}
    /\ ResponseTokens \subseteq Nat
    /\ PoolSize \in Nat \ {0}

VARIABLES
    pc,        \* where each task is
    kind,      \* "rlm" or "leaf"
    threaded,  \* the task was started by a batched query and holds a thread
    verdict,   \* how the task ended: "ok", "error" (any other exception) or
               \* "budget" (BudgetExceededError)
    iter,      \* iterations of an rlm task's loop
    calls,     \* RunBudget._calls, equal to UsageTracker._llm_calls
    tokens,    \* RunBudget._observed_tokens
    expired,   \* the monotonic deadline has passed
    lost,      \* REPL calls of the task whose budget error was lost (AbortLost)
    from       \* the value of the starter's lost when the task was started

vars == <<pc, kind, threaded, verdict, iter, calls, tokens, expired, lost, from>>

-----------------------------------------------------------------------------
(* The tree.                                                               *)

Path == UNION {[1..n -> 1..MaxBatch] : n \in 0..MaxDepth}
Root == <<>>
Slots == 1..MaxBatch
Child(t, i) == Append(t, i)
Children(t) == {Child(t, i) : i \in Slots}

(* a is a proper ancestor of t. *)
Above(a, t) == /\ Len(a) < Len(t)
               /\ \A k \in 1..Len(a) : a[k] = t[k]

PC == {"idle",       \* no coroutine at this path
       "queued",     \* waits for the batch semaphore
       "scheduled",  \* has a permit, waits for a pool thread
       "ready",      \* about to request its next model call
       "calling",    \* awaits litellm.acompletion
       "waiting",    \* awaits a pool thread for a REPL step
       "exec",       \* its REPL step runs, a pool thread waits for the worker
       "asking",     \* the same, for the variable of a FINAL_VAR directive
       "callback",   \* its REPL step waits for queries to be answered
       "closing",    \* awaits a pool thread for repl.close
       "done",       \* its coroutine ended, its starter has not seen it yet
       "returned"}   \* its result or exception reached the waiting batch

Verdict == {"none", "ok", "error", "budget"}

TypeOK ==
    /\ pc \in [Path -> PC]
    /\ kind \in [Path -> {"rlm", "leaf"}]
    /\ threaded \in [Path -> BOOLEAN]
    /\ verdict \in [Path -> Verdict]
    /\ iter \in [Path -> 0..MaxIterations]
    /\ calls \in 0..MaxCalls
    /\ tokens \in Nat
    /\ expired \in BOOLEAN
    /\ lost \in [Path -> Nat]
    /\ from \in [Path -> Nat]

(* A task whose coroutine exists and has not handed over its result. *)
Live(t) == pc[t] \notin {"idle", "returned"}

(* Threads of the default executor that are taken: one by every REPL step  *)
(* in progress and one by every batched query that has started.            *)
HoldsStepThread(t) == pc[t] \in {"exec", "asking", "callback"}
HoldsQueryThread(t) ==
    threaded[t] /\ pc[t] \notin {"idle", "queued", "scheduled", "returned"}
BusyThreads == Cardinality({t \in Path : HoldsStepThread(t)})
               + Cardinality({t \in Path : HoldsQueryThread(t)})
ThreadFree == BusyThreads < PoolSize

(* The queries of one call of t, which share a semaphore, and the permits  *)
(* that they have taken of it.                                             *)
Batch(t, n) == {i \in Slots : /\ Child(t, i) \in Path
                              /\ pc[Child(t, i)] # "idle"
                              /\ from[Child(t, i)] = n}
Permits(t, n) ==
    Cardinality({i \in Batch(t, n) : pc[Child(t, i)] \notin {"queued", "returned"}})

(* The queries that t waits for: not those of a call that it has left.     *)
Awaited(t) == Batch(t, lost[t])

(* Slots of t with nothing left at or below them. *)
Free(t) == {i \in Slots : \A u \in Path :
                u = Child(t, i) \/ Above(Child(t, i), u) => pc[u] = "idle"}

-----------------------------------------------------------------------------
Init ==
    /\ pc = [t \in Path |-> IF t = Root THEN "ready" ELSE "idle"]
    /\ kind = [t \in Path |-> IF t = Root THEN "rlm" ELSE "leaf"]
    /\ threaded = [t \in Path |-> FALSE]
    /\ verdict = [t \in Path |-> "none"]
    /\ iter = [t \in Path |-> 0]
    /\ calls = 0
    /\ tokens = 0
    /\ expired = FALSE
    /\ lost = [t \in Path |-> 0]
    /\ from = [t \in Path |-> 0]

(* A task ends with verdict v: an rlm task closes its REPL first. *)
End(t, v) ==
    /\ verdict' = [verdict EXCEPT ![t] = v]
    /\ pc' = [pc EXCEPT ![t] = IF kind[t] = "rlm" THEN "closing" ELSE "done"]

(* The for loop of an rlm task is exhausted: MaxIterationsError. *)
ExhaustIterations(t) ==
    /\ pc[t] = "ready"
    /\ kind[t] = "rlm"
    /\ iter[t] = MaxIterations
    /\ End(t, "error")
    /\ UNCHANGED <<kind, threaded, iter, calls, tokens, expired, lost, from>>

HasIteration(t) == kind[t] = "rlm" => iter[t] < MaxIterations

(* Mutant of ReserveRefuses: compares the calls made, not the next one. *)
ReserveRefusesLate == expired \/ calls > MaxCalls

(* RunBudget.reserve_call refuses: the deadline passed or the cap is met. *)
ReserveRefuses == expired \/ calls + 1 > MaxCalls

(* The next model call is reserved, counted and sent to the provider. *)
BeginCall(t) ==
    /\ pc[t] = "ready"
    /\ HasIteration(t)
    /\ ~ReserveRefuses
    /\ calls' = calls + 1
    /\ iter' = [iter EXCEPT ![t] = IF kind[t] = "rlm" THEN @ + 1 ELSE @]
    /\ pc' = [pc EXCEPT ![t] = "calling"]
    /\ UNCHANGED <<kind, threaded, verdict, tokens, expired, lost, from>>

RefuseCall(t) ==
    /\ pc[t] = "ready"
    /\ HasIteration(t)
    /\ ReserveRefuses
    /\ End(t, "budget")
    /\ UNCHANGED <<kind, threaded, iter, calls, tokens, expired, lost, from>>

(* RunBudget.record_usage raises once the observed total is over a limit   *)
(* or the deadline has passed.                                             *)
OverLimit(total) == total > MaxTokens \/ expired

(* A response that crosses a limit is counted and ends the task. *)
ReceiveOverLimit(t) ==
    /\ pc[t] = "calling"
    /\ \E n \in ResponseTokens :
          /\ OverLimit(tokens + n)
          /\ tokens' = tokens + n
    /\ End(t, "budget")
    /\ UNCHANGED <<kind, threaded, iter, calls, expired, lost, from>>

(* A response within the limits.  Its text is missing (RLMError), or is    *)
(* the answer of a leaf or a FINAL directive; an rlm task may also have    *)
(* received an empty text, and loops, or code or FINAL_VAR, and goes to    *)
(* its REPL.                                                               *)
ReceiveResponse(t) ==
    /\ pc[t] = "calling"
    /\ \E n \in ResponseTokens :
          /\ ~OverLimit(tokens + n)
          /\ tokens' = tokens + n
    /\ \/ \E v \in {"ok", "error"} : End(t, v)
       \/ /\ kind[t] = "rlm"
          /\ pc' = [pc EXCEPT ![t] = "ready"]
          /\ UNCHANGED verdict
       \/ /\ kind[t] = "rlm"
          /\ pc' = [pc EXCEPT ![t] = "waiting"]
          /\ UNCHANGED verdict
    /\ UNCHANGED <<kind, threaded, iter, calls, expired, lost, from>>

(* The provider raises: the exception leaves the task. *)
ProviderFails(t) ==
    /\ pc[t] = "calling"
    /\ End(t, "error")
    /\ UNCHANGED <<kind, threaded, iter, calls, tokens, expired, lost, from>>

(* asyncio.wait_for cancels a request that is open when the deadline passes. *)
ProviderTimesOut(t) ==
    /\ pc[t] = "calling"
    /\ expired
    /\ End(t, "budget")
    /\ UNCHANGED <<kind, threaded, iter, calls, tokens, expired, lost, from>>

-----------------------------------------------------------------------------
(* REPL steps.                                                             *)

(* asyncio.to_thread(repl.execute) or (repl.get_variable) gets its thread. *)
EnterRepl(t) ==
    /\ pc[t] = "waiting"
    /\ ThreadFree
    /\ \E x \in {"exec", "asking"} : pc' = [pc EXCEPT ![t] = x]
    /\ UNCHANGED <<kind, threaded, verdict, iter, calls, tokens, expired, lost, from>>

(* Mutant of LeaveRepl: time spent in a callback counts against            *)
(* repl_timeout, so a step may end while its queries run.                  *)
LeaveReplDuringCallback(t) ==
    /\ pc[t] \in {"exec", "callback"}
    /\ \/ End(t, "ok")
       \/ /\ pc' = [pc EXCEPT ![t] = "ready"]
          /\ UNCHANGED verdict
    /\ UNCHANGED <<kind, threaded, iter, calls, tokens, expired, lost, from>>

(* The step ends: it published an answer, or its output, error or timeout  *)
(* is fed back to the model.                                               *)
LeaveRepl(t) ==
    /\ pc[t] = "exec"
    /\ \/ End(t, "ok")
       \/ /\ pc' = [pc EXCEPT ![t] = "ready"]
          /\ UNCHANGED verdict
    /\ UNCHANGED <<kind, threaded, iter, calls, tokens, expired, lost, from>>

(* get_variable ends: the variable or its copy is the answer, there is     *)
(* none, or the pipe to a worker that died unnoticed raises an OSError     *)
(* that nothing around it catches (repl.py 444).                           *)
LeaveVariable(t) ==
    /\ pc[t] = "asking"
    /\ \/ \E v \in {"ok", "error"} : End(t, v)
       \/ /\ pc' = [pc EXCEPT ![t] = "ready"]
          /\ UNCHANGED verdict
    /\ UNCHANGED <<kind, threaded, iter, calls, tokens, expired, lost, from>>

(* The kind of the tasks that a query of t starts: rlm_query falls back to *)
(* a leaf call at the depth boundary, llm_query always is one.             *)
QueryKinds(t) == {"leaf"} \cup (IF Len(t) + 1 < MaxDepth THEN {"rlm"} ELSE {})

(* New tasks at the slots S of t, all in state s and of kind k. *)
Spawn(t, S, k, s, inThread) ==
    LET new == {Child(t, i) : i \in S} IN
    /\ pc' = [u \in Path |-> IF u = t THEN "callback"
                             ELSE IF u \in new THEN s ELSE pc[u]]
    /\ kind' = [u \in Path |-> IF u \in new THEN k ELSE kind[u]]
    /\ threaded' = [u \in Path |-> IF u \in new THEN inThread ELSE threaded[u]]
    /\ iter' = [u \in Path |-> IF u \in new THEN 0 ELSE iter[u]]
    /\ from' = [u \in Path |-> IF u \in new THEN lost[t] ELSE from[u]]
    /\ UNCHANGED <<verdict, calls, tokens, expired, lost>>

(* llm_query or rlm_query: the coroutine runs on the owning loop at once.  *)
(* _build_repl_env offers no query when max_depth is 0.                    *)
Query(t) ==
    /\ pc[t] = "exec"
    /\ MaxDepth > 0
    /\ \E i \in Free(t), k \in QueryKinds(t) :
          /\ \A j \in Free(t) : i <= j
          /\ Spawn(t, {i}, k, "ready", FALSE)

(* llm_query_batched or rlm_query_batched, in the first of the free slots. *)
QueryBatched(t) ==
    /\ pc[t] = "exec"
    /\ MaxDepth > 0
    /\ \E S \in SUBSET Free(t), k \in QueryKinds(t) :
          /\ S # {} /\ \A i \in S, j \in Free(t) \ S : i < j
          /\ Spawn(t, S, k, "queued", TRUE)

(* The next query of the batch gets a permit (asyncio.Semaphore is FIFO)   *)
(* and is submitted to the executor.                                       *)
AcquirePermit(t, i) ==
    /\ pc[Child(t, i)] = "queued"
    /\ \A j \in Batch(t, from[Child(t, i)]) : j < i => pc[Child(t, j)] # "queued"
    /\ Permits(t, from[Child(t, i)]) < MaxConcurrent
    /\ pc' = [pc EXCEPT ![Child(t, i)] = "scheduled"]
    /\ UNCHANGED <<kind, threaded, verdict, iter, calls, tokens, expired, lost, from>>

(* A pool thread runs query_fn, which starts the coroutine on the loop and *)
(* blocks on its future.                                                   *)
StartQuery(t, i) ==
    /\ pc[Child(t, i)] = "scheduled"
    /\ ThreadFree
    /\ pc' = [pc EXCEPT ![Child(t, i)] = "ready"]
    /\ UNCHANGED <<kind, threaded, verdict, iter, calls, tokens, expired, lost, from>>

(* Mutant of ReturnQuery: the outcome of a query that raises is never set. *)
ReturnQueryUnlessRaised(t, i) ==
    /\ pc[Child(t, i)] = "done"
    /\ verdict[Child(t, i)] # "error"
    /\ pc' = [pc EXCEPT ![Child(t, i)] = "returned"]
    /\ UNCHANGED <<kind, threaded, verdict, iter, calls, tokens, expired, lost, from>>

(* The query's thread and permit are released and its outcome is set. *)
ReturnQuery(t, i) ==
    /\ pc[Child(t, i)] = "done"
    /\ pc' = [pc EXCEPT ![Child(t, i)] = "returned"]
    /\ UNCHANGED <<kind, threaded, verdict, iter, calls, tokens, expired, lost, from>>

(* Mutant of BudgetReturned: run_one turns a BudgetExceededError into an   *)
(* "Error: ..." string like any other exception.                           *)
BudgetReturnedAsData(t) == FALSE

BudgetReturned(t) == \E i \in Awaited(t) : /\ pc[Child(t, i)] = "returned"
                                           /\ verdict[Child(t, i)] = "budget"

(* The step of t goes on, without the queries it waited for. *)
Dismiss(t) ==
    LET seen == {Child(t, i) : i \in Awaited(t)} IN
    /\ pc' = [u \in Path |-> IF u = t THEN "exec"
                             ELSE IF u \in seen THEN "idle" ELSE pc[u]]
    /\ verdict' = [u \in Path |-> IF u \in seen THEN "none" ELSE verdict[u]]

(* Mutant of ReturnCallback: the first answer ends the wait for the batch. *)
ReturnCallbackOnFirst(t) ==
    /\ pc[t] = "callback"
    /\ \E i \in Awaited(t) : pc[Child(t, i)] = "returned"
    /\ ~BudgetReturned(t)
    /\ Dismiss(t)
    /\ UNCHANGED <<kind, threaded, iter, calls, tokens, expired, lost, from>>

(* Every query returned a value or an error that run_one (or, for a single *)
(* query, the worker's RuntimeError) turns into data: the step goes on.    *)
ReturnCallback(t) ==
    /\ pc[t] = "callback"
    /\ \A i \in Awaited(t) : ~Live(Child(t, i))
    /\ ~BudgetReturned(t)
    /\ Dismiss(t)
    /\ UNCHANGED <<kind, threaded, iter, calls, tokens, expired, lost, from>>

(* Mutant of AbortRepl: without abort_repl the worker's RuntimeError is    *)
(* fed back to the model and the task goes on.                             *)
AbortReplAsFeedback(t) ==
    /\ pc[t] = "callback"
    /\ BudgetReturned(t)
    /\ pc' = [u \in Path |-> IF u = t THEN "ready"
                             ELSE IF \E i \in Awaited(t) : u = Child(t, i) THEN "idle"
                             ELSE pc[u]]
    /\ UNCHANGED <<kind, threaded, verdict, iter, calls, tokens, expired, lost, from>>

(* BudgetExceededError is re-raised by run_one, ends the gather without    *)
(* cancelling the other queries, aborts the REPL step (abort_repl) and     *)
(* leaves the task.                                                        *)
AbortRepl(t) ==
    /\ pc[t] = "callback"
    /\ BudgetReturned(t)
    /\ End(t, "budget")
    /\ UNCHANGED <<kind, threaded, iter, calls, tokens, expired, lost, from>>

(* The same with a worker that died while it waited: sending it the reply  *)
(* raises an OSError before the budget error is raised again (repl.py      *)
(* 549).  It is fed back to the model like any exception of a step         *)
(* (core.py 307), and the task goes on over what is left of the call.      *)
AbortLost(t) ==
    /\ pc[t] = "callback"
    /\ BudgetReturned(t)
    /\ pc' = [pc EXCEPT ![t] = "ready"]
    /\ lost' = [lost EXCEPT ![t] = @ + 1]
    /\ UNCHANGED <<kind, threaded, verdict, iter, calls, tokens, expired, from>>

(* asyncio.to_thread(repl.close) in the finally block. *)
CloseRepl(t) ==
    /\ pc[t] = "closing"
    /\ ThreadFree
    /\ pc' = [pc EXCEPT ![t] = "done"]
    /\ UNCHANGED <<kind, threaded, verdict, iter, calls, tokens, expired, lost, from>>

-----------------------------------------------------------------------------
Expire ==
    /\ HasDeadline
    /\ ~expired
    /\ expired' = TRUE
    /\ UNCHANGED <<pc, kind, threaded, verdict, iter, calls, tokens, lost, from>>

ModelStep(t) == \/ ExhaustIterations(t) \/ BeginCall(t) \/ RefuseCall(t)
                \/ ReceiveOverLimit(t) \/ ReceiveResponse(t)
                \/ ProviderFails(t) \/ ProviderTimesOut(t)

ReplStep(t) == \/ EnterRepl(t) \/ LeaveRepl(t) \/ LeaveVariable(t)
               \/ Query(t) \/ QueryBatched(t)
               \/ ReturnCallback(t) \/ AbortRepl(t) \/ AbortLost(t) \/ CloseRepl(t)

QueryStep(t, i) == AcquirePermit(t, i) \/ StartQuery(t, i) \/ ReturnQuery(t, i)

(* Paths that can start queries. *)
Inner == {t \in Path : Len(t) < MaxDepth}

Next == \/ \E t \in Path : ModelStep(t) \/ ReplStep(t)
        \/ \E t \in Inner, i \in Slots : QueryStep(t, i)
        \/ Expire

Spec == Init /\ [][Next]_vars


(* Every coroutine and thread that can move does: the event loop and the   *)
(* executor run every ready task, local REPL code is killed at             *)
(* repl_timeout, and a provider request ends by its answer or, when a      *)
(* deadline is set, by asyncio.wait_for.                                   *)
Fairness ==
    /\ \A t \in Path : WF_vars(ModelStep(t)) /\ WF_vars(ReplStep(t))
    /\ \A t \in Inner, i \in Slots : WF_vars(QueryStep(t, i))
    /\ WF_vars(Expire)

FairSpec == Spec /\ Fairness

-----------------------------------------------------------------------------
(* Properties.                                                             *)

Tripped == tokens > MaxTokens \/ \E t \in Path : verdict[t] = "budget"

(* Between a and t, a included, a task has lost the budget error of a call *)
(* that t belongs to or came after.                                        *)
Forsaken(a, t) ==
    \E b \in Path : /\ lost[b] > 0 /\ Above(b, t)
                    /\ a = b \/ Above(a, b)

(* Below a task that is not blocked in a REPL callback there is no task at *)
(* all, unless the task itself is ending with a budget error: a task that  *)
(* goes on, or ends in any other way, has seen every query it started come *)
(* to its end (gather, run_one and abort_repl together).  The exception is *)
(* what a lost budget error has left behind, right where it was lost.      *)
NothingLeftBelow ==
    \A a \in Path, t \in Path :
        Above(a, t) /\ pc[t] # "idle"
        => pc[a] = "callback" \/ verdict[a] = "budget" \/ Forsaken(a, t)

(* Facts that make the invariant inductive: the root is an rlm task, a     *)
(* task has a verdict exactly when its coroutine is past its loop, a       *)
(* crossed limit has left a budget error somewhere in the tree, and a task *)
(* of an earlier call of its starter has seen the starter lose one.        *)
VerdictsMatch ==
    \A t \in Path :
        verdict[t] = "none" <=> pc[t] \notin {"closing", "done", "returned"}
OverLimitSeen == tokens > MaxTokens => \E t \in Path : verdict[t] = "budget"
CallsNumbered ==
    \A t \in Path, i \in Slots : Child(t, i) \in Path => from[Child(t, i)] <= lost[t]

RootIsRlm == kind[Root] = "rlm"

IInv == TypeOK /\ RootIsRlm /\ VerdictsMatch /\ NothingLeftBelow
        /\ OverLimitSeen /\ CallsNumbered

(* A run that returns an answer stayed within its token limit and no task  *)
(* of its tree met a budget error, unless one was lost with a worker; and  *)
(* none of its tasks is still running but below the task that lost it: no  *)
(* batch, REPL step or child RLM swallows a BudgetExceededError otherwise. *)
SomeLost == \E t \in Path : lost[t] > 0
SuccessWithinLimits ==
    pc[Root] = "done" /\ verdict[Root] = "ok" =>
        /\ Tripped => SomeLost
        /\ \A t \in Path : t # Root => pc[t] = "idle" \/ Forsaken(Root, t)

(* A budget error anywhere in the tree ends the run with a budget error,   *)
(* whatever the tasks between do (core.py, run_one and _acomplete_impl),   *)
(* unless a task loses one to an OSError.                                  *)
BudgetReachesRoot ==
    (\E t \in Path : verdict[t] = "budget")
        ~> (pc[Root] = "done" /\ verdict[Root] = "budget") \/ SomeLost

(* A run with a deadline ends (docs/api.md: max_elapsed_seconds is the     *)
(* shared run deadline).                                                   *)
RunEnds == HasDeadline => <>(pc[Root] = "done")

(* RunBudget's docstring: the response that crosses a limit is still       *)
(* counted before the recursion tree is stopped.  Once the observed tokens *)
(* are over the limit no further provider request starts.  The tree        *)
(* violates this (README, section 5): a batch is not cancelled.            *)
NoCallOverLimit == [][tokens > MaxTokens => calls' = calls]_vars

(* The run as its caller sees it, mapped to the contract of RunContract. *)
RunStatus == IF pc[Root] # "done" THEN "running"
             ELSE IF verdict[Root] = "ok" THEN "ok" ELSE "failed"
OpenCalls == {t \in Path : pc[t] = "calling"}

Contract == INSTANCE RunContract WITH
    Caller <- Path, status <- RunStatus, open <- OpenCalls, tripped <- Tripped,
    excused <- SomeLost

(* Every behaviour of the tree is one the contract allows: calls are       *)
(* capped, and unless a budget error was lost a run succeeds only with no  *)
(* call open and no limit hit, and makes no further call after that.       *)
ImplementsContract == Contract!Spec

=============================================================================
