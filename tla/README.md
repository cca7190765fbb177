# Verification of recursive-llm-proxy

TLA+ specifications of this repository: the recursive completion runtime and its REPL
workers, the chat proxy, the slot catalog, the conversation memory, the control plane,
the managed processes, the knowledge client, the knowledge retrieval service and the
ingestion job service. TLC checks them on small instances, and TLAPS proves every safety
property that a passing run checks, for every value of the constants (some under a named
hypothesis on processes or threads, see section 4). Paths below are relative to the repository.

To check an instance: `tlc -config MCRunTree_tree.cfg MCRunTree.tla`. To check
the proofs: `tlapm RunTree_proofs.tla`.

## 1. Inventory

### Components, their state and operations

| Component | Code | State | Operations | Hard behaviour |
|---|---|---|---|---|
| RLM completion tree | `src/rlm/core.py`, `budget.py`, `run_state.py`, `stats.py` | one task per RLM or leaf call; shared `RunBudget`, `UsageTracker`, deadline | model call, REPL step, `llm_query`, `rlm_query`, batches | concurrent queries on one loop and one thread pool; budget errors that cross four layers; deadline |
| REPL executor | `src/rlm/repl.py` | worker process, pipe, copy of the worker's variables | `execute`, `get_variable`, callbacks, `close` | timeout against callbacks, worker death and restart from the copy, late answers without numbers |
| Catalog store | `src/rlm_proxy/catalog_store.py`, `catalog_api.py` | SQLite tables and `catalog_version`; one lock per process | `snapshot`, `replace`, `append_turn`, `delete_workstream` | optimistic concurrency; several processes on one file |
| Catalog transfer, editor | `catalog_transfer*.py`, `catalog_editor.py` | files | export, import, backup | import is a `replace` |
| Chat proxy, routing, ingestion | `app.py`, `routing.py`, `ingestion.py`, `adapter.py`, `models.py`, `metrics.py` | metrics and their ring of recent requests | `/v1/chat/completions` and its stages | stages that fail differently; catalog read before an await; a router that asks again; windows |
| Conversation memory | `memory_gateway.py`, `conversation_memory.py`, `conversation_compaction.py` | SQLite conversations with revisions | chat, list, get, delete | read, await, append; compaction |
| Knowledge client | `knowledge*.py`, `scoped_knowledge_gateway.py`, `ui_clients.py` | query cache, sync manifest | search, enqueue, delete, synchronize | fill against invalidation; partial sync; torn manifest |
| Control plane | `control_plane.py`, `admin_security.py`, `audit_log.py` | token buckets, hash-chained log | admin endpoints | clock read outside the lock; torn writes |
| Managed processes | `managed_*.py`, `cowork.py`, `stack_ui.py`, `recovery_supervisor.py`, `runtime_coordinator.py` | child processes | start, stop, status | concurrent starts, partial start, signals |
| Retrieval service | `rust/knowledge-service/src/main.rs`, `rust/knowledge-core/src/sqlite_store.rs` | SQLite chunks and full-text index; `mutation_gate` | ingest, search, delete | racing re-ingests, failures between transactions, torn searches |
| Ingestion job service | `rust/knowledge-service/src/bin/knowledge-jobs.rs` | SQLite `knowledge_jobs`; tasks and permits in memory | enqueue, cancel, recover, forward | cancellation between statements, crash and recovery, lost answers |
| Knowledge algorithms | `rust/knowledge-core/src/{pipeline,store,chunking,sync,scope,ann,cache}.rs` | embedding cache | fusion, context, chunking, plans | boundaries |
| UIs, launchers, packaging, benchmarks | `ui.py`, `launchers/`, `release_manifest*.py`, `scripts/`, `benchmarks/`, `evaluation/` | none of their own | | see section 7 |

### How they interact

A chat completion reads the catalog, asks the router (a model) for a slot, asks the
retrieval service over HTTP for context and runs one completion tree, in the proxy
process. Every RLM of the tree owns an executor with one worker process at a time. The
control plane, the memory gateway and the transfer service import the same
`routing.registry` in processes of their own, so several processes have one
catalog file open. Folder sync and the UIs enqueue ingestion jobs; the job
service forwards each of them to the retrieval service as an ingest request and
records its outcome. Inside a tree, coroutines share one event loop, one budget
and the loop's default thread pool, and a REPL step calls back from its thread
into the loop. The control screen and `rlm-cowork` start and stop the proxy,
llama-server, Open WebUI and the retrieval service as child processes.

### What makes each component correct

- Tree: a budget error ends the whole run and is not turned into data, except where an
  `OSError` takes its place; a run that answers stayed within its limits and left nothing
  running; call cap; a run with a deadline ends.
- REPL: no worker outlives its completion or its replacement; an answer belongs to the
  step that waits for it; a final variable is not older than what was reported; whatever
  the programs do, the completion ends.
- Catalog: no lost update; a version names one catalog; operations linearizable.
- Chat proxy: one catalog version from the router's question to the context; no part of
  the message is missing when the RLM runs, nor, where there is a knowledge service, the
  knowledge the request requires; metrics agree with the answers; every request is answered.
- Conversation memory: a turn is stored whole, exactly when its request is answered
  (under a valid policy), on top of the context it was answered from; a deleted conversation leaves nothing
  behind; a revision names one content.
- Control plane: what was answered is in the log as it happened; the limiter lets pass
  what its bucket allows.
- Managed processes: no child without an owner; a start that fails leaves nothing of what
  was started before it; a program that is told to end does.
- Knowledge client: a cached result is outdated for no longer than its time to live; a
  file that is left alone is served.
- Retrieval service: never two versions of a source stored together; an answered
  ingest is not undone by an older one; no failure shuts the gate.
- Job service: a job is settled once, as succeeded only when stored; none is
  orphaned by a crash; permits are conserved.

`PROJECT.json` lists the hazards one by one at their lines, with the properties
that cover them or the reason why none does.

## 2. Modules

| Module | Models | Kind |
|---|---|---|
| `RunContract` | what a run promises its caller | abstract |
| `RunTree` | the completion tree | detailed, implements `RunContract` |
| `ReplWorker` | one completion's REPL: loop, executor, workers, pipes | detailed |
| `CatalogRegister` | a versioned register | abstract |
| `CatalogStore` | `SlotRegistry` on one file | detailed, implements `CatalogRegister` in one process |
| `Windows` | `natural_windows` as an operator | function, with what its result must satisfy |
| `ChatProxy` | chat completions over a changing catalog (EXTENDS `Windows`) | detailed |
| `ConversationMemory` | memory gateway over its store, with compaction | detailed |
| `ControlPlane` | admin endpoints, limiter, audit log | detailed |
| `ManagedStack` | the managers, the control screen and `rlm-cowork` | detailed |
| `KnowledgeClient` | the caching client and `synchronize` | detailed |
| `KnowledgeService` | ingest, search, delete handlers | detailed |
| `JobLedger` | what a client sees of its jobs | abstract |
| `KnowledgeJobs` | job service composed with `KnowledgeService` (EXTENDS) | detailed, implements `JobLedger` |
| `MC*` | instances for TLC | |
| `*_proofs` | theorems and proofs | |

An operator that a comment calls a mutant of another one is that operator with a
plausible bug in it; no specification uses it. `PROJECT.json` pairs each with the property
it breaks.

### RunTree

A task is a coroutine, named by its path in the tree; `pc` says what it waits
for. Its states correspond to the awaits of `_acomplete_impl` and
`_run_model_call`: `ready` (top of the loop), `calling` (`litellm.acompletion`),
`waiting` and `exec` or `asking` (`asyncio.to_thread` of `repl.execute` or
`repl.get_variable` before and after it has a thread), `callback` (the REPL thread blocks in `_run_callback`), `closing`
(`asyncio.to_thread(repl.close)`), `done` and `returned`. Batched queries pass
through `queued` (semaphore) and `scheduled` (executor queue). A step of the
model is what one coroutine does between two awaits.

- `BeginCall` / `RefuseCall`: `_check_budget_deadline`, `record_iteration`,
  `reserve_call`, `record_call` and the start of the request, in one step because
  nothing in between awaits.
- `ReceiveOverLimit`, `ReceiveResponse`, `ProviderFails`, `ProviderTimesOut`: the
  ways a request ends; every outcome of the response parser is a disjunct.
- `EnterRepl`, `LeaveRepl`, `LeaveVariable`, `Query`, `QueryBatched`, `ReturnCallback`,
  `AbortRepl`, `AbortLost`, `CloseRepl`: REPL steps; `AcquirePermit`, `StartQuery`,
  `ReturnQuery`: `run_one` of a batch.
- `AbortLost` is the path on which a budget error gets lost: the reply to the query is
  sent first (`repl.py:549`), the worker is dead, and the `OSError` becomes output for the
  model (`core.py:307`). The task goes on, over what is left of the call it has given up:
  `lost` counts those calls, `from` says which of them a query belongs to, and each has
  its own semaphore (`Batch`, `Permits`). A task waits for the queries of its present call
  only (`Awaited`) and starts new ones in slots below which nothing is left (`Free`), so
  that a path names one task at a time; with every slot taken it starts none.

Abstractions: message texts, trajectory events and statistics other than calls
and tokens are left out; token and cost limits take the same path in
`record_usage`, so one counter stands for both; a limit that is not configured is
a constant no run reaches; time is the single event of the deadline passing; the
worker process is the choice between its outcomes. A root task that its caller
cancels, and what `asyncio.run` does to leftover tasks afterwards, are not
modelled.

### ReplWorker

One completion's REPL in full, where `RunTree` has only a step's outcomes. Three parties:
the loop of `core.py` (`core`: `choose` at the top of an iteration, `step` and `ask` while
a call of the executor runs, `closing`, `joining`, `ended`), the executor's call in its
pool thread (`exec.pc`: where in `execute` or `get_variable`; it holds `_lock` until it is
`out`), and each worker process (`Boot`, `Serve`, `Assign`, `CallQuery`, `ReadReply`,
`EndProgram`). `toWorker` and `toParent` are the pipes. They keep what was sent before
their writer died, so a late answer is still read.

- `Execute` is `_ensure_worker`: a live worker is kept, a dead one is replaced by one
  that starts from `env`, the parent's copy. `StartFails` is the ten-second poll, the end
  of the pipe or the report of resource limits that cannot be applied.
- `ReceiveAnswer`, `ReceiveCallback` and `StepLost` are the rounds of `_wait_for_message`;
  `CallbackReturns` and `AbortStep` the two ways a query ends; `exec.left` says whether the
  wait has used up its time.
- `AskVariable` is FINAL_VAR with its three outcomes: the worker is asked, the copy
  answers, or a worker that died unnoticed breaks the pipe and the error ends the run.
- `CancelCompletion` leaves the pool thread running: `Close` waits for its lock.
- `Die` may hit a worker at any time.

A program is what it does to one variable `x`: it assigns the number of its step, deletes
`x`, or binds it to a value that cannot be pickled. `picked` and `heard` are history.

### CatalogStore

A thread runs one operation of `SlotRegistry` at a time; `pc` is the next SQL
statement. The lock of the thread's process is held from `Begin` to `Leave`.
Reads are autocommitted statements, `Commit*` is one transaction, `ReadRows` and
`ReadStamp` are the two parts of `snapshot` that every operation ends with.
`Crash` ends a process; what was committed stays. `history` records what was
committed, for the properties only. The rows of one snapshot are read in one
step; a failing read statement (which raises and changes nothing) is left out, a
failing transaction is `CommitFails`. Slots are folded into their workstreams'
keys, and a turn is its ordinal.

### ConversationMemory

The gateway is one process with one event loop (`entrypoints.py`). A chat request
(`memory_gateway.py`) has a single await, the completion; what it does before and
after is synchronous, so a step is such a segment, split where one SQLite
transaction ends and the next begins: `Receive` (get or create, and the context),
`AppendUser`, `AppendAnswer`, `Summarize`. `recording` is the request between two of
them. While it is set no other request moves and no `Delete` happens, but a
statement can fail or the process can stop (`StatementFails`, `Crash`). `current` is
`current.revision`, checked by each append; `AppendUser` reads it afresh, as the
code does, so a request that another one overtook is not refused.

A message is its role and its request. A summary (`conversation_compaction.py`) is a
sequence of headings and messages, one unit of `max_summary_chars` each, and the mark of
truncation, `MarkLength` of them, so the cut falls between units here and within one in the
code. The mark is never shortened: a summary may be as long as it (`SummaryLimit`) where
`max_summary_chars` is less. The policy is one of `Policies`, any integers, as the
environment gives them; `validate` is called only by the compaction, when the turn is
stored (`PolicyRefused`). Conversation ids are taken as already stripped and
valid. Listing and reading a conversation change nothing and are left out. `lives`
and `life` are history variables that tell a conversation from an earlier one of the
same id.

### Windows and ChatProxy

`Windows` is `natural_windows` over the lengths of the natural units: `Rounds` is the loop
over the message, a recursive function whose round is `AddUnit`. `Covered` and `Bounded` say
what a list of windows is for; they are not translated from code.

A request of `ChatProxy` is a record; a step is what it does from one await to the next,
computed by operators that give the set of records it may leave: `Begin`
(`split_query_context` and the decision to preprocess), `Analyzed` (one window's reply),
`ToRouting` (the catalog snapshot, explicit routes), `Route` (one reply of the router),
`ToKnowledge`. The phases `dump`, `route`, `knowledge` and `rlm` are the four awaits.
Every exception of a stage is followed to its handler in `app.py`: `Answered(code, status)`
with the status the metrics record, and `"none"` for the errors nothing catches.
`service` says whether the proxy has a knowledge service; without one `ToKnowledge` goes
to the RLM, whatever the request requires.
`ReplaceCatalog` is `PUT /v1/rlm/slots` or another process. A slot's content is
the version it comes from, so `RoutedFromShown` can compare what the router was
shown with what the RLM is given.

### ControlPlane

One principal's requests. `Authenticate` reads the clock in the dependency's thread,
`Allow` is the limiter under its lock, possibly with an old clock. The endpoint runs on
the event loop: `ImportReads`, `ImportCommits` and `ImportAudits` are the steps of an import
(the version is read, its successor is written, the snapshot and the event follow), and
between them no other endpoint of the process runs (`LoopFree`), but the process may be
killed and other processes may write (`OtherWrites`), one of them in the same two steps
(`OtherReads`), so that the version can stand still or go back. `AppendThen` is `append` of
the audit log with its failures; `log` are the events that can be read as lines, and `tail`
is the state of the file. An event written after a line without its end is on that line,
which is none any more (`Glues`, `glued`); nothing reads the log after that.
`now` is bounded by `MaxTime`; after it the system goes on at that time.

### ManagedStack

A handler has a list of operations, `todo`, which the composition of manager methods in
`stack_ui.py`, `ui.py` and `cowork.py` yields: `Start` is `check`, `stop`, `spawn`,
`record`, `poll` for every manager but that of llama-server, which checks after it has
stopped. An operation that raises replaces the rest by the handler's clean-up (`Fails`); a
poll may also raise what the manager does not catch while its child runs (`PollRaises`).
`stop` is two steps, the read under the lock and the termination outside of it; `spawn` and
`record` are two, because `Popen` runs before the lock is taken. A child may die at any
time (`Dies`). `Signal` and `Killed` are signals after and before the handlers of
`rlm-cowork` are installed; `WatchLocks` and `WatchLooks` split `status()`, so that a
signal can find the lock held.

### KnowledgeClient

`CachedKnowledgeApiClient` over a service that holds one document, with `synchronize` of a
directory that has one file. A search is `SearchHits`, or `SearchMisses`, `SearchAnswered`
and `SearchStores`: the request, the service's answer, and the store under the lock. A
deletion and a submission each clear the cache after their answer. `SyncScans` takes the
fingerprint, `SyncReads` the content, `SyncPosts` submits, `SyncSaves` writes the manifest,
in place, so a `Crash` in that phase may tear it. The jobs are ingested, or fail, in any
order, as the job service runs them beside one another; `count.overtaken` says that the one
ingested last was posted before another that was ingested. Times are
kept as ages. In this repository the caching client and `synchronize` are library code:
its tests call them, no entry point does.

### KnowledgeService

`stage` follows an ingest handler; the gate is held from `EnterGate` to
`Upsert` or `FailMutation`. Handlers do not await under the gate, so `Drop`
(a client that goes away) is possible only before it, while `Restart` is possible
anywhere. Each replaced document is deleted in a transaction of its own
(`DeleteReplaced`). A document stands for its chunks in both tables, which each
transaction changes together. `latest` is a history variable: the last mutation
of each source that entered the gate.

### KnowledgeJobs

`EXTENDS KnowledgeService` and drives it: a request is a job and the start
(epoch) of the process that posted it. `task` follows `process_job` statement by
statement, from the insert and the spawn of `enqueue` on (`Enqueue`, `Spawn`); `status` is
the column of the row. A crash loses tasks and permits and keeps rows and requests, which
the service may still finish or drop (`Abandoned`). The same goes for the request of a
connection that breaks (`ConnectionBreaks`); `AnswerLost` is an answer that is lost, or
cannot be read, once the service is done. `StatementFails`, `FinishFails` and
`ReadBackFails` are failing database calls. `before` is a history variable: the jobs that
were over, with their outcome recorded or not, when a job was enqueued.

## 3. Runs

| Run | Expect | Shows |
|---|---|---|
| `run_tree` | pass | unless an `OSError` takes its place, a budget error reaches the root and nothing is left below a task that goes on; success means within limits; `RunContract` is implemented; a run with a deadline ends with six executor threads |
| `repl_worker` | pass | no worker is left behind, an answer belongs to the step that waits for it, FINAL_VAR is not older than a report, the completion ends whatever programs and workers do |
| `catalog_shared` | pass | one process: linearizable, no lost update, versions name catalogs |
| `catalog_stale` | violation | two processes: a stale mutation commits |
| `chat_requests` | pass | a route comes from the version the router was shown, the preprocessed text is complete when the RLM runs, and required knowledge is there if the proxy has a service, metrics agree with answers, every request is answered |
| `memory_turns` | pass | turns are whole and, under a valid policy, recorded exactly when answered, contexts stay, nothing survives a deletion, revisions move with every change |
| `control_plane` | pass | answered requests are in the audit log as they happened, but for one on a line that a failing write left open, with versions in order but for other processes' writes; the bucket's bound holds but for the time late threads set it back |
| `local_stack` | pass | no orphan with one starting handler, nothing left by a failed start but a child whose own start raised, `rlm-cowork` ends when told to |
| `knowledge_client` | pass | cached results are outdated for no longer than their time to live; a file left alone is served, unless its jobs were ingested out of order or failed |
| `service_store` | pass | one version per source; answered ingests stay |
| `jobs_crash` | pass | jobs settle once, none is orphaned, `JobLedger` is implemented, permits are counted; until a crash or a broken connection a job is not undone by one that was over when it was enqueued |
| `jobs_live` | pass | every job is settled across a crash and lost answers, every ingest is answered |

### Bounds, and why they are enough

- Tree: depth 2 gives every kind of edge (root to RLM, RLM to leaf, root to leaf)
  and a task with a parent and children; batches of two with two permits give a sibling to
  every query. Three calls reach the cap with calls still open, two iterations reach
  `MaxIterationsError`. Responses of one or two units with a limit of three both meet the
  limit exactly and overshoot it. Six pool threads are just enough for this instance; with
  five it deadlocks (section 5). `MaxBatch` also bounds what a task has running: one that
  lost a budget error starts queries only in slots that are free again.
- REPL: three iterations are a step, a second one on the same or a new worker, and a
  FINAL_VAR after both, or a third step that meets the late answer of an earlier one; one
  callback per step is enough to be aborted and answered late. There are as many workers
  as steps, the most the code can spawn.
- Catalog: two threads and two workstreams, three mutations and a fourth ordinal:
  an operation can meet two others and every conflict, an unknown workstream and a
  used ordinal.
- Chat: two requests, so that one is recorded while the other waits; the messages are
  short, a long unit between short ones (a flush before slices, then a new window), and
  paragraphs that overlap into more windows than `MaxWindows`; two slots, one with two
  workstreams, or none; one replacement; a turn count that doubles once and meets its
  limit; a ring of one record.
- Conversation memory: three requests and two conversations, so that two requests
  race on one conversation while a third makes it long. Of the three policies one has the
  second turn compacted and the third compacted again, beyond its limit of 4; the limit of
  another, 1, is shorter than the mark, 2; the last preserves more messages than it allows,
  and is refused. `MaxLives` 2 lets a conversation be deleted and created again during an
  await; one fault.
- Control plane: three interchangeable requests over a bucket of one, so that a late
  thread can set the clock back between two that are not; versions to 3 and two writes of
  other processes, one of which may have read its version before two imports; one fault (a
  write that fails in every way, or a crash between commit and event).
- Managed processes: a starting handler and two stopping ones in parallel, or
  `rlm-cowork` with every choice of services; each manager spawns twice, so that a
  restart meets the child before.
- Knowledge client: one searcher over two queries and a cache of one entry (hit, miss,
  eviction, expiry), a file written twice and removed, one lost request, failed job or
  crash, one deletion. A mutation overtakes a search with one searcher already.
- Retrieval service: three ingests of one source, two with the same text (so that a
  re-ingest replaces a document by itself), and one of another source.
- Jobs: two jobs of one source, one crash (`MaxEpoch` 2); searches are left out, they do
  not change what jobs read. In `jobs_crash` there are two permits (the code's default), one
  failing statement and one broken connection, and the jobs bring a version each. The run
  uses a symmetry, under which the two jobs change places together with their versions: the
  specification names neither, and `ImplementsLedger` is a safety property, so it is sound.
  `jobs_live`, where no symmetry may be used, has one permit, for which the jobs compete, the
  same version in both, and no failing statement, which `JobsFinish` would have to excuse.

`MaxVersion`, `MaxOrdinal`, `MaxLives`, `MaxEpoch`, `MaxFaults`, `MaxForeign`, `MaxBroken`, `MaxBatch`,
`MaxCallbacks`, `MaxSpawn`, `MaxTime`, `MaxEdits`, `MaxDeletes`, `Request`, `Text`,
`CatalogSlots`, `Programs`, `ResponseTokens` and `Replacements` are bounds of the model,
everything else is a parameter of the code.

Most of these systems may stop: a tree and a completion when their root is done, the
catalog and the control plane at the bound of their versions or requests, the proxy and
the gateway when their requests are answered, a program when its handlers are done. Their
configurations switch the deadlock check off. In the tree, the REPL, the proxy and the
stack a liveness property takes its place.

### Fairness

- Tree: weak fairness of every task's steps and of the deadline. The event loop
  and the executor run what is ready, REPL code is killed at `repl_timeout`, and
  a provider request ends by its answer or by `asyncio.wait_for`. `RunEnds` is
  about runs with a deadline because nothing else bounds a request.
- REPL (`ReplFairSpec`): the event loop runs, each poll of the executor ends, by a message
  or its time limit, and each query ends. Nothing is assumed of the workers: a program may
  run for ever.
- Chat proxy (`ChatFairSpec`): every call to a model or the retrieval service ends, by its
  answer or an error; httpx and the provider's client have timeouts. A run of the RLM is
  assumed to end as well, which the starved executor of section 5, item 2, can break.
  Nothing says that
  the router ever stops asking for history: `RequestsEnd` rests on the turn count.
- Managed processes (`StackFairSpec`): a handler's thread runs on, since each wait in it
  has a time limit. The wait after `kill` is assumed to end.
- Knowledge client (`ClientFairSpec`): calls have limits, jobs end, time passes, and
  `synchronize` is run again and again, which is up to its user; no search is assumed.
- Retrieval service, as part of the jobs' specification: weak fairness of the steps of
  an ingest; tokio's mutex is FIFO. No fairness of clients, searches, deletions or restarts.
- Jobs: strong fairness of a job's task, since tokio's semaphore is fair and a
  waiting task gets the permit although others take it in between; the process is
  started again after a crash. That a posted request ends rests on the retrieval
  service's fairness: the HTTP client has no timeout.
- Catalog, conversation memory, control plane: none; their properties are about safety.

## 4. Proofs

All theorems hold for every value of the constants that the modules' named
assumptions admit; TLC evaluates those assumptions in the runs.

- `RunTree_proofs`: `TypeOK`, which contains the call cap; then the inductive
  invariant `IInv`. `SuccessWithinLimits` is not inductive: that a run which is
  about to answer has met no limit depends on every crossed limit having left a
  budget error somewhere (`OverLimitSeen`) and on every budget error being below,
  or in, a task that ends with one, or below one that has lost it (`NothingLeftBelow`).
  `NothingLeftBelow` in turn needs to know that a task has a verdict exactly when it is
  past its loop (`VerdictsMatch`), and that a query of a call which its starter has left
  belongs to a loss (`CallsNumbered`). The proof goes action by action: a budget error is
  only forgotten when `ReturnCallback` frees the queries of the present call, whose guard
  says there is none among them, and nothing is below them. At the root this gives
  `SuccessIsWithinLimits`, and with it the refinement of `RunContract`, where a loss is
  `Lose`. A run without a loss is one in which no worker dies at that moment; for it the
  theorems say that a budget error is never turned into data.
- `CatalogStore_proofs`: `TypeOK` for any processes; the rest under `SingleProcess`
  (all threads share one process, a hypothesis of each theorem). The
  invariant says that the holder of the lock is the only thread inside an operation
  (`LockedOut`), so that what it has read is still true (`ReadsStillHold`).
  `StaleNeverCommits`, `VersionCountsMutations`, `VersionNamesCatalog` and the
  refinement of `CatalogRegister` follow. `catalog_stale` shows that `SingleProcess` is needed.
- `ConversationMemory_proofs`: the request between two transactions is the only one past
  its completion (`OneRecords`), so the revision it holds is still the conversation's
  (`RecorderIsCurrent`), the checks never refuse the second half of a turn, and the
  half-written turn is the end of the log (`TurnUnderWay`). `RecordedIffAnswered` and
  `AnswersFollowQuestions` need these. That every message and every citation of a summary
  belongs to a request that recorded in this life (`Owned`, with `LivesPass`) gives
  `DeletedForGood`; it rests on lemmas that compaction invents no message. The policy is any
  of `Policies`, valid or not; a limit is kept up to the length of the mark
  (`SummaryLimit`). `RevisionMoves`
  is the action property that follows from the same invariant.
- `KnowledgeJobs_proofs`: in the retrieval service the gate is held by exactly the request
  that replaces, which is the latest of its source and whose list is what is left of it
  (`GateHolder`); `OneVersion` and `AnsweredIsStored` are then inductive. The job
  service's steps are steps or stutters of `KnowledgeService` (`JobsUseService`), so these
  hold of the composition; `JobsIInv` gives the refinement of `JobLedger` and
  `UnfinishedHaveTask`. That every permit is free or one task's (`PermitsCounted`) is part of
  `JobsTypeOK`. `LaterJobWins` needs `OrderIInv`, for the time before a crash or a broken
  connection: what succeeded was stored, only a task that posts has an ingest under way
  (`OnlyPosting`), the jobs another one comes after are over and post nothing more
  (`BeforeOver`), and once its own ingest has had the gate theirs is not the latest
  (`ComesAfter`).
- `ControlPlane_proofs`: `RateBound` from the accounts of the bucket, which say that what was
  let through and what is left is at most what was there and refilled (`BucketAccounts`);
  it is arithmetic over a clock that late threads set back. `AnsweredIsAudited` from
  `CommitsOwned` (the one import that holds the loop finds the version it read, and then the
  one it wrote, unless another process has written since), `EventsTell` (one event of a
  request at most, true of it and of the catalog that was left) and `FileOK` (what is glued
  is on the one line that a failing write left without its end).
- `ReplWorker_proofs`: `AnswersOwnStep` rests on the pipes. As long as the executor waits, no
  pipe of the current worker holds more than the one message that is waited for, and that
  is of this step (`UnderWay`, `PipesInStep`); a worker that could break this is replaced or
  the completion ends. `FinalVarUpToDate` needs that no value older than the last received
  is in use, in the worker, on its way or in the copy (`Recent`, `CopiesAgree`), and
  `WorkersOwned` that loop and executor know of each other (`CallsMatch`).
- `ChatProxy_proofs`: `ChatIInv` says what a request is in each phase (`InPhase`) and that what
  it is routed to is in its own snapshot (`RoutedAsShown`); the steps are sets of records,
  so the proof has a lemma for each operator that gives one. `MetricsAgree` needs that
  `Request` is finite. `RunsWithAllAsked` needs `AskedIInv`: the chunks analyzed and the
  windows left cover the message together. That the windows of `NaturalWindows` cover any
  message is `NaturalWindowsCover`. It is an induction over the rounds of the loop, which no
  installed prover can take from an induction theorem; it is done instead by a least round
  for which it fails (`WFMin`). A round covers its unit because slices overlap or meet
  (`SlicesCover`).
- `ChatProxy_proofs` also has `KnowledgeClient`'s: `CacheTruthful` is inductive when a search
  that has its result is as truthful as the entry it will become (`SearchTruthful`); the
  steps that matter are a mutation that overtakes a search and time that passes.
- `ManagedStack_proofs`: `NoOrphan` and `NothingLeftBehind`, for programs in which one thread
  at most starts services, and `rlm-cowork` has its thread to itself (`OneStarter`, a
  hypothesis of each theorem, which every program of the run meets); any number of threads
  may stop services. Two start buttons (`stack_ui.py:199`, `ui.py:247`) used together break
  `NoOrphan`, see section 5. `StackIInv` describes the list of operations a thread has left: a spawn comes
  after a stop of the child before and is followed by its record and its wait (`InOrder`),
  so a child that runs is recorded or in hand (`Known`), what is waited for or ended is the
  recorded child (`HoldsRecorded`), and every child that runs is one that the clean-up
  still stops (`Accounted`), or whose own start raised (`Escaped`). A thread that cleans up only stops (`RoleOK`).

`VersionCountsMutations` is proved although no run checks it: `StaleNeverCommits` and
`ImplementsRegister` say more of the same steps.

Only model-checked: liveness (`RunEnds`, `BudgetReachesRoot`, `IngestsEnd`, `JobsFinish`,
`CompletionEnds`, `RequestsEnd`, `CoworkEnds`, `FileGetsServed`), which needs `ENABLED` and
fairness and so is out of the prover's reach.

## 5. Disagreements between code and documents, and what the code does not promise

One has a run of its own, `catalog_stale`: between processes a stale mutation commits
(`catalog_store.py:163`), and, for the same reason, versions are not monotonic
(`catalog_store.py:200`). The following are stated by definitions of the modules, or by a
change of an instance, and can be reproduced with TLC:

1. Token and cost limits do not stop calls that other queries of the tree have yet to
   start (`budget.py:47`, `core.py:724`): `NoCallOverLimit` as a PROPERTY of
   `MCRunTree_tree.cfg`.
2. Hold-and-wait on the default executor (`core.py:718`): with `PoolSize = 5` the tree
   deadlocks and `RunEnds` fails; the deadline does not end such a run. With the proxy's
   default depth and concurrency a tree can need up to ten threads.
3. A hybrid search can return two versions of a source (`sqlite_store.rs:112`):
   `SearchSeesOneVersion` as an INVARIANT of `MCKnowledgeService_store.cfg`.
4. Repeated compaction crowds the conversation out of its own summary
   (`conversation_compaction.py:78`, against the docstring at line 59): `SummaryExtracts`
   as an INVARIANT of `MCConversationMemory_turns.cfg`, also with the
   first policy of `MCPolicies` alone.
5. Two handlers that start a service leave a child nobody owns, against "Own at most one"
   (`managed_llama.py:86`, `managed_proxy.py:74`, `managed_webui.py:68`,
   `managed_knowledge.py:53`): `NoOrphan` with a second starting handler in `MCPrograms`.
6. A signal that finds `rlm-cowork` inside `status()` deadlocks it (`cowork.py:176-179`;
   the lock is not reentrant), against `docs/cowork.md:27` and `:129`: `CoworkEnds`
   without `Stuck`. A signal before the handlers are installed leaves the children running
   (`Killed`).
7. Windows may exceed `window_chars` (`ingestion.py:81`): `WindowBound` without the overlap
   and its separator.
8. A late thread sets `updated_at` back and an interval is refilled twice
   (`admin_security.py:72`): `RateBound` without `setBack`.
9. An incomplete line of the audit log makes every later append and read raise
   (`audit_log.py:60`), so an import then commits without an event and is answered with
   500: in `ControlPlane` the step `ImportAudits` with `tail = "broken"`.
10. A torn manifest stops every later `synchronize` (`knowledge_sync.py:73`):
    `FileGetsServed` without `manifest # Torn`. Nor is a failed job or a document deleted
    elsewhere ever repaired, because the manifest records submissions
    (`~count.failed`, `count.deleted = 0`).
11. A search that a mutation overtook is stored after the cache was cleared and answers
    until its time to live ends (`knowledge_query_cache.py:46`): `CacheTruthful` without
    `e.overtaken`. An ingestion clears the cache when it is enqueued, before its job is done.
12. The error of a limit can get lost: the reply to the query that met it is sent before
    the error is raised again (`repl.py:549`), and with a worker that died meanwhile the
    `OSError` is fed back to the model (`core.py:307`), so that a run may answer over its
    token limit or deadline, with queries of a batch still running:
    `SuccessWithinLimits` without `SomeLost`, `NothingLeftBelow` without `Forsaken`. The cap
    on calls holds even then.
13. An invalid compaction policy is found only when the turn is stored
    (`conversation_compaction.py:43`, from `memory_gateway.py:113`): every request then
    stores its turn and fails with a 500. `TurnKept` without its last disjunct. A limit
    below the length of the mark is exceeded by it (`conversation_compaction.py:77`), with
    1 to 14 characters: `TypeOK` with `policy.chars` for `SummaryLimit`.
14. A proxy without a knowledge service ignores `knowledge.required` (`app.py:274`), of which
    `docs/knowledge.md:91` says "When it is true, the proxy returns a `502
    knowledge_error`.": `RunsWithAllAsked` without `service`.
15. A start whose poll raises what its manager does not catch leaves its child running
    (`managed_knowledge.py:109`: a reply that is not HTTP, or no object): the service does
    not count as started yet, so the clean-up of `rlm-cowork` passes it over
    (`cowork.py:109`, `:183-190`). `NothingLeftBehind` with `run[h].mine` for `Owed`.
16. `replace` writes the successor of a version it read before its transaction
    (`catalog_store.py:163-202`). With another process the version stands still or goes
    back, and two imports are audited with the same one: `AnsweredIsAudited` without its
    conditions on `by`.
17. An event written after a line that lacks its end is on that line, and the request is
    answered as if it were recorded (`audit_log.py:68-70`); only the endpoint that lists the
    log verifies it after that and fails (`control_plane.py:152-153`). `AnsweredIsAudited`
    without `glued`.
18. The job service runs two jobs beside one another (`knowledge-jobs.rs:121-125`,
    `:237-248`), so that two versions of a file can be ingested in the wrong order. The
    manifest then has the fingerprint of the newer one, and nothing submits it again:
    `FileGetsServed` without `~count.overtaken`.

Others show in the models' steps:

- FINAL_VAR may answer with a variable that a reported step has deleted, since a snapshot
  cannot say that a name is gone (`core.py:254`). When the worker died
  unnoticed, it raises an `OSError` out of the completion instead of answering from the
  copy (`AskVariable`, in the tree `LeaveVariable`; `repl.py:444`).
- The proxy lets a provider's error in routing or in the RLM, and a retrieval body that is
  no object, pass as an unrecorded 500 (`RouterFails`, `RlmEnds`, `KnowledgeMalformed`),
  where `docs/api.md:180` and `docs/architecture.md:77` say 502; a window's reply that is not JSON
  is answered with 400 (`WindowFails`), where `docs/rolling-ingestion.md:144` says 502; and a
  version conflict of `PUT /v1/rlm/slots` is a 500 (`app.py:146`).
- A file that is removed from a synchronized directory stays in service
  (`knowledge_sync.py:90`): `SyncScans` only forgets it.

## 6. Limits of what is shown

- `NothingLeftBelow`, `SuccessWithinLimits`, `BudgetReachesRoot` and `RunContract` make an
  exception of a lost budget error (section 5, item 12), and of nothing else. For
  `NothingLeftBelow` it must be a loss between the two tasks; the others, once any task has
  lost one, say no more of the run's limits than that the cap on calls holds.
- `LaterJobWins` speaks of a job that was over when the other was enqueued, before any
  crash of the job process and any broken connection. After one of these the request that
  was posted is still in the retrieval service and can enter the gate after a later job
  has succeeded. Two jobs that are both unfinished reach the gate in either order. The code
  fences neither, and the documents do not promise it.
- `UnfinishedHaveTask` is conditioned on no failing statement: `spawn_job` ignores a
  failing `finish_job`, and an `enqueue` that cannot read its row back does not spawn the
  task; the row then stays behind until the next start.
- A request whose conversation is deleted during its completion fails, but when another
  request has created the conversation again in between, the turn is recorded in the new
  one although it was answered from the old one's context: `ContextStays` and
  `DeletedForGood` are about the text of the conversation, not about what the model saw.
- `RecordedIffAnswered` says nothing of a request that failed while a statement failed or
  the gateway stopped: its user message may then be stored without an answer. Under a
  policy that is not valid it says only that the turn is stored whole or not at all.
- `MetricsAgree` leaves out the errors that nothing catches, which are not recorded.
- `RunsWithAllAsked` says nothing of required knowledge in a proxy without a service, and
  `RequestsEnd` takes for granted that each run of the RLM ends.
- `CacheTruthful` counts what a deletion removes as gone only once the deletion has
  returned: after one whose answer was lost, cached results still name the document.
- `FileGetsServed` excuses a failed job, a job ingested out of order, a deletion and a torn
  manifest, none of which `synchronize` repairs.
- Cancelling a job does not keep its content from being stored, and a failed ingest
  may leave a source without any version. Both are visible in the models and are
  stated as such in `JobLedger` and in the hazards.
- `AnswersOwnStep` rests on the completion ending after an aborted query; the protocol
  itself would take a late answer for the next one's (`AbortStepFeedback` shows it).
- `RoutedFromShown` is about one request. Between two requests of a conversation
  the catalog may change, and the proxy does not say so.
- `NoOrphan` says nothing once `rlm-cowork` was killed, and nothing of two handlers that
  start at once; `NothingLeftBehind` nothing of children that another handler started, of
  a program that was killed, or of a child whose own start raised what its manager does not
  catch; `CoworkEnds` nothing of the deadlock in which a signal finds the lock held (`Stuck`).
- `RateBound` is a bound for one bucket between two starts of the process; after a restart the
  bucket is full again.
- `AnsweredIsAudited` presumes that one process writes the log. Two processes on one file
  fork the hash chain, since each reads the last event under a lock of its own; the
  program does not start two, and nothing prevents it. Of versions and their order it
  speaks only where no other process has written the catalog in between.
- The control screen's handlers run once at a time each, as Gradio queues the
  events of a button by default.

## 7. Not modelled, and why

- `recovery_supervisor.py` and `runtime_coordinator.py`: nothing in the program
  instantiates them, so no behaviour of the system has them. That `exhausted`
  stays set when restart times have left the window is a hazard for who does.
- Diagnostics, health checks, `ui.py` but for its two buttons, the launcher and the
  installers: they read, render, or pass a form to a component above.
- Rank fusion, context building, nearest neighbours, scope matching and sync plans of
  `rust/knowledge-core`: pure functions over floating-point scores and texts. Their values
  depend on arithmetic TLA+ does not have, and their control is a sort and a loop.
- The embedding cache (`cache.rs`): one lock around a map that only grows, since nothing in
  the program clears it.
- Extraction and embedding adapters: calls into other libraries.
- A second process of the job service: it fails to bind its port at once; before
  that it repeats the recovery of the first one's jobs (`knowledge-jobs.rs:119`).
- The browser controllers and the scoped gateway filter what they pass on and keep no
  state of their own.
- Release manifests, benchmarks, evaluation: scripts outside of the running system.

## 8. Plan

Every safety property of a passing run is proved. What could be added:

1. An abstract specification of the REPL executor (each step is answered once, by its own
   worker or by an error) and the refinement by `ReplWorker`.
2. An abstract specification of the cache as a map whose entries are as old as they say,
   and the refinement by `KnowledgeClient`.
3. What the liveness properties rest on as safety lemmas, such as a bound on the number of
   router calls of a request for `RequestsEnd`.
