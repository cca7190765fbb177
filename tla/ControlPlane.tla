---------------------------- MODULE ControlPlane ----------------------------
(***************************************************************************)
(* The administrative control plane (src/rlm_proxy/control_plane.py): the  *)
(* requests of one principal, the token bucket (admin_security.py) and the *)
(* audit log (audit_log.py), over a catalog that other processes replace   *)
(* as well (catalog_transfer.py; CatalogStore has its inside).             *)
(*                                                                         *)
(* The dependency of an endpoint runs in a thread of its own, and reads    *)
(* the clock before it takes the limiter's lock.  The endpoint is a        *)
(* coroutine; once an import has its body it does not let another          *)
(* coroutine run until it has its answer, but the process may be killed    *)
(* and other processes go on: a replace reads the version before its       *)
(* transaction, and writes the next one whatever was written since.        *)
(*                                                                         *)
(* One process appends to the log under one lock, so the sequence numbers  *)
(* and the hash chain of the events are their places.  The file is "ended" *)
(* after a whole line, "open" when its last line lacks the end, "broken"   *)
(* when a line is no event, after which nothing reads the log any more.    *)
(***************************************************************************)
EXTENDS Integers, SequencesExt

CONSTANTS
    Request,     \* bound: the requests of a behaviour
    Capacity,    \* TokenBucketLimiter.capacity
    Refill,      \* its refill_per_second
    MaxTime,     \* bound: the clock
    MaxVersion,  \* bound: catalog versions
    MaxForeign,  \* bound: what other processes write to the catalog
    MaxFaults,   \* bound: failing writes and crashes
    NoVersion

ASSUME ControlAssumption ==
    /\ Capacity \in Nat \ {0} /\ Refill \in Nat \ {0}
    /\ MaxTime \in Nat /\ MaxVersion \in Nat /\ MaxForeign \in Nat /\ MaxFaults \in Nat
    /\ NoVersion \notin Nat

VARIABLES
    now,      \* time.monotonic()
    bucket,   \* the principal's bucket, with the time it was made at (history)
    req,      \* the requests
    version,  \* the catalog's version
    other,    \* the version another process has read for its replace
    foreign,  \* how often other processes have written the catalog
    commits,  \* history: the imports that have committed
    log,      \* the events that can be read in the audit log
    tail,     \* the state of its file
    glued,    \* the requests whose events are on one line, which is none
    faults,   \* faults so far
    allowed,  \* history: requests the bucket has let pass
    setBack   \* history: by how much late threads have set updated_at back

catalogVars == <<version, other, foreign, commits>>
fileVars == <<log, tail, glued>>
limiterVars == <<bucket, allowed, setBack>>
controlVars == <<now, req, faults, catalogVars, fileVars, limiterVars>>

-----------------------------------------------------------------------------
NoBucket == [tokens |-> Capacity, at |-> 0, since |-> 0, made |-> FALSE]
NewRequest == [phase |-> "idle", seen |-> 0, next |-> NoVersion, before |-> 0, code |-> 0]

ControlTypeOK ==
    /\ now \in 0..MaxTime
    /\ bucket \in [tokens : 0..Capacity, at : 0..MaxTime, since : 0..MaxTime, made : BOOLEAN]
    /\ req \in [Request ->
           [phase : {"idle", "clock", "endpoint", "commit", "audit", "done", "lost"},
            seen : 0..MaxTime, next : 1..MaxVersion \cup {NoVersion}, before : 0..MaxForeign,
            code : {0, 200, 400, 401, 403, 409, 429, 500}]]
    /\ version \in 0..MaxVersion /\ other \in 0..MaxVersion - 1 \cup {NoVersion}
    /\ foreign \in 0..MaxForeign
    /\ commits \in SUBSET Request /\ glued \in SUBSET Request
    /\ tail \in {"ended", "open", "broken"}
    /\ faults \in 0..MaxFaults
    /\ allowed \in Nat /\ setBack \in Nat

ControlInit ==
    /\ now = 0 /\ bucket = NoBucket
    /\ req = [r \in Request |-> NewRequest]
    /\ version = 0 /\ other = NoVersion /\ foreign = 0 /\ commits = {}
    /\ log = <<>> /\ tail = "ended" /\ glued = {} /\ faults = 0
    /\ allowed = 0 /\ setBack = 0

Answer(r, code) == req' = [req EXCEPT ![r].phase = "done", ![r].code = code]

-----------------------------------------------------------------------------
(* Authentication and the limiter.                                         *)

Authenticate(r) ==
    /\ req[r].phase = "idle"
    /\ \/ Answer(r, 401)
       \/ req' = [req EXCEPT ![r].phase = "clock", ![r].seen = now]
    /\ UNCHANGED <<now, faults, catalogVars, fileVars, limiterVars>>

Lesser(a, b) == IF a < b THEN a ELSE b
Positive(n) == IF n > 0 THEN n ELSE 0

(* The bucket at the time a thread has read, which may be earlier than the *)
(* one it was updated at.                                                  *)
Refilled(seen) ==
    IF bucket.made
    THEN [bucket EXCEPT !.tokens = Lesser(Capacity, @ + Positive(seen - bucket.at) * Refill),
                        !.at = seen]
    ELSE [tokens |-> Capacity, at |-> seen, since |-> seen, made |-> TRUE]

(* Mutant of Allow: the time of the refill is not stored. *)
AllowFrozen(r) ==
    /\ req[r].phase = "clock"
    /\ LET b == Refilled(req[r].seen) IN
       /\ setBack' = setBack + Positive(bucket.at - req[r].seen)
       /\ IF b.tokens = 0
          THEN Answer(r, 429) /\ bucket' = [b EXCEPT !.at = bucket.at] /\ UNCHANGED allowed
          ELSE /\ bucket' = [b EXCEPT !.tokens = @ - 1, !.at = bucket.at]
               /\ allowed' = allowed + 1
               /\ Answer(r, 403) \/ req' = [req EXCEPT ![r].phase = "endpoint"]
    /\ UNCHANGED <<now, faults, catalogVars, fileVars>>

(* allow, under the lock; a request that passes may still lack the scope.  *)
Allow(r) ==
    /\ req[r].phase = "clock"
    /\ LET b == Refilled(req[r].seen) IN
       /\ setBack' = setBack + Positive(bucket.at - req[r].seen)
       /\ IF b.tokens = 0
          THEN Answer(r, 429) /\ bucket' = b /\ UNCHANGED allowed
          ELSE /\ bucket' = [b EXCEPT !.tokens = @ - 1]
               /\ allowed' = allowed + 1
               /\ Answer(r, 403) \/ req' = [req EXCEPT ![r].phase = "endpoint"]
    /\ UNCHANGED <<now, faults, catalogVars, fileVars>>

-----------------------------------------------------------------------------
(* The audit log.                                                          *)

Event(r, outcome, v) == [req |-> r, outcome |-> outcome, version |-> v, by |-> foreign]

(* What is added to a line without its end is no event with it. *)
Glues(r) ==
    /\ log' = Front(log)
    /\ tail' = "broken"
    /\ glued' = {Last(log).req, r}

(* append reads the whole log first.  A line that cannot be read, and a    *)
(* write that fails, raise; the write that fails may leave a part of the   *)
(* line, or the line without its end.                                      *)
AppendThen(r, outcome, v, code) ==
    \/ /\ tail = "ended"
       /\ log' = Append(log, Event(r, outcome, v))
       /\ Answer(r, code)
       /\ UNCHANGED <<tail, glued, faults>>
    \/ /\ tail = "open"
       /\ Glues(r)
       /\ Answer(r, code)
       /\ UNCHANGED faults
    \/ /\ tail = "broken"
       /\ Answer(r, 500)
       /\ UNCHANGED <<fileVars, faults>>
    \/ /\ tail # "broken" /\ faults < MaxFaults
       /\ faults' = faults + 1
       /\ Answer(r, 500)
       /\ \/ tail = "ended" /\ tail' = "broken" /\ UNCHANGED <<log, glued>>
          \/ /\ tail = "ended" /\ tail' = "open"
             /\ log' = Append(log, Event(r, outcome, v))
             /\ UNCHANGED glued
          \/ tail = "open" /\ Glues(r)
          \/ UNCHANGED fileVars

-----------------------------------------------------------------------------
(* The endpoints.                                                          *)
LoopFree == \A r \in Request : req[r].phase \notin {"commit", "audit"}
AtEndpoint(r) == req[r].phase = "endpoint" /\ LoopFree

(* catalog_import: replace reads the version, which is the expected one or *)
(* none is expected.                                                       *)
ImportReads(r) ==
    /\ AtEndpoint(r)
    /\ version < MaxVersion
    /\ req' = [req EXCEPT ![r].phase = "commit", ![r].next = version + 1, ![r].before = foreign]
    /\ UNCHANGED <<now, faults, catalogVars, fileVars, limiterVars>>

(* The transaction writes the next version after the one that was read. *)
ImportCommits(r) ==
    /\ req[r].phase = "commit"
    /\ version' = req[r].next
    /\ commits' = commits \cup {r}
    /\ req' = [req EXCEPT ![r].phase = "audit"]
    /\ UNCHANGED <<now, other, foreign, faults, fileVars, limiterVars>>

(* Mutant of ImportRefused: the failure is not recorded. *)
ImportRefusedSilently(r) ==
    /\ AtEndpoint(r)
    /\ \/ Answer(r, 400)
       \/ (\E expected \in 0..MaxVersion : expected # version) /\ Answer(r, 409)
    /\ UNCHANGED <<now, faults, catalogVars, fileVars, limiterVars>>

(* A payload that is no catalog, and a version that is not the current one. *)
ImportRefused(r) ==
    /\ AtEndpoint(r)
    /\ \/ AppendThen(r, "failure", NoVersion, 400)
       \/ /\ \E expected \in 0..MaxVersion : expected # version
          /\ AppendThen(r, "failure", NoVersion, 409)
    /\ UNCHANGED <<now, catalogVars, limiterVars>>

(* The snapshot that replace returns is read after the commit, and has the *)
(* version that is there by then.                                          *)
ImportAudits(r) ==
    /\ req[r].phase = "audit"
    /\ AppendThen(r, "success", version, 200)
    /\ UNCHANGED <<now, catalogVars, limiterVars>>

(* The other endpoints read, and record it; that of the log verifies it    *)
(* after that, which fails when the event was glued.                       *)
ReadEndpoint(r) ==
    /\ AtEndpoint(r)
    /\ \/ AppendThen(r, "read", NoVersion, 200)
       \/ tail = "open" /\ Glues(r) /\ Answer(r, 500) /\ UNCHANGED faults
    /\ UNCHANGED <<now, catalogVars, limiterVars>>

(* What raises something else: a database that is locked, a backup to the  *)
(* catalog's own path.                                                     *)
EndpointRaises(r) ==
    /\ AtEndpoint(r) \/ req[r].phase = "commit"
    /\ Answer(r, 500)
    /\ UNCHANGED <<now, faults, catalogVars, fileVars, limiterVars>>

-----------------------------------------------------------------------------
(* Another process replaces the catalog, in the two steps of an import, or *)
(* adds a turn to it or takes a part away, in one transaction.             *)
OtherReads ==
    /\ other = NoVersion /\ version < MaxVersion
    /\ other' = version
    /\ UNCHANGED <<now, req, version, foreign, commits, faults, fileVars, limiterVars>>

OtherWrites ==
    /\ foreign < MaxForeign
    /\ foreign' = foreign + 1
    /\ \/ other # NoVersion /\ version' = other + 1 /\ other' = NoVersion
       \/ version < MaxVersion /\ version' = version + 1 /\ UNCHANGED other
    /\ UNCHANGED <<now, req, commits, faults, fileVars, limiterVars>>

(* The process is killed and started again: its requests have no answer,   *)
(* and the buckets are new.                                                *)
Crash ==
    /\ faults < MaxFaults
    /\ faults' = faults + 1
    /\ req' = [r \in Request |-> IF req[r].phase \in {"idle", "done"} THEN req[r]
                                 ELSE [req[r] EXCEPT !.phase = "lost"]]
    /\ bucket' = NoBucket /\ allowed' = 0 /\ setBack' = 0
    /\ UNCHANGED <<now, catalogVars, fileVars>>

Tick ==
    /\ now < MaxTime
    /\ now' = now + 1
    /\ UNCHANGED <<req, faults, catalogVars, fileVars, limiterVars>>

ControlNext ==
    \/ Tick \/ Crash \/ OtherReads \/ OtherWrites
    \/ \E r \in Request :
           \/ Authenticate(r) \/ Allow(r) \/ ImportReads(r) \/ ImportCommits(r)
           \/ ImportRefused(r) \/ ImportAudits(r) \/ ReadEndpoint(r) \/ EndpointRaises(r)

ControlSpec == ControlInit /\ [][ControlNext]_controlVars

-----------------------------------------------------------------------------
EventsOf(r) == {i \in 1..Len(log) : log[i].req = r}

Recorded == {200, 400, 409}

(* What the control plane has answered is in the log and what the log says *)
(* has happened, whatever crashes and failing writes fall in between       *)
(* (control_plane.py 117):                                                 *)
(*   - an import that was answered has its one event, and a refusal its    *)
(*     failure; only when a write has failed may one be glued to the line  *)
(*     that it left, and then no other is;                                 *)
(*   - no event of a success is without a commit, and its version is the   *)
(*     one that was committed, unless another process has written since    *)
(*     the import read the one before (catalog_store.py 163);              *)
(*   - a later import has a later version, unless another process has      *)
(*     written in between.                                                 *)
AnsweredIsAudited ==
    /\ \A r \in Request :
           /\ req[r].code \in Recorded =>
                  r \in glued \/ \E i \in EventsOf(r) : EventsOf(r) = {i}
           /\ \A i \in EventsOf(r) :
                  /\ log[i].outcome = "success" =>
                         /\ r \in commits
                         /\ log[i].by = req[r].before => log[i].version = req[r].next
                  /\ req[r].code \in {400, 409} => log[i].outcome = "failure"
                  /\ req[r].code = 200 /\ r \in commits => log[i].outcome = "success"
    /\ glued # {} => tail = "broken"
    /\ \A r, s \in glued : req[r].code \in Recorded /\ req[s].code \in Recorded => r = s
    /\ \A i, j \in 1..Len(log) :
           /\ i < j /\ log[i].outcome = "success" /\ log[j].outcome = "success"
           /\ log[j].by = req[log[i].req].before
           => log[i].version < log[j].version

(* The bucket lets pass at most its capacity and what the time since it    *)
(* was made refills; a thread that is late with the lock sets updated_at   *)
(* back, and the time it sets it back by is the most that is refilled      *)
(* twice (admin_security.py 72).                                           *)
RateBound ==
    bucket.made => allowed <= Capacity + Refill * (now - bucket.since + setBack)

-----------------------------------------------------------------------------
(* The inductive invariant behind the two properties (ControlPlane_proofs). *)

(* What a late thread does to the bucket shows in setBack, and a bucket    *)
(* that is not made yet owes nothing to the past.                          *)
BucketAccounts ==
    /\ bucket.at <= now /\ \A r \in Request : req[r].seen <= now
    /\ IF bucket.made
       THEN allowed + bucket.tokens <= Capacity + Refill * (bucket.at - bucket.since + setBack)
       ELSE bucket = NoBucket /\ allowed = 0 /\ setBack = 0

(* A request is answered once and has read a version only from its         *)
(* endpoint on; the one import that holds the loop finds the version it    *)
(* read, and then the one it wrote, unless another process has written.    *)
CommitsOwned ==
    /\ \A r \in Request :
           /\ req[r].phase = "done" <=> req[r].code # 0
           /\ req[r].phase \in {"idle", "clock", "endpoint"} =>
                  req[r].next = NoVersion /\ r \notin commits
           /\ req[r].phase \in {"commit", "audit"} => req[r].next # NoVersion
           /\ req[r].before <= foreign
           /\ req[r].phase = "commit" /\ req[r].before = foreign => req[r].next = version + 1
           /\ req[r].phase = "audit" =>
                  /\ r \in commits
                  /\ req[r].before = foreign => req[r].next = version
    /\ \A r, s \in Request :
           req[r].phase \in {"commit", "audit"} /\ req[s].phase \in {"commit", "audit"} => r = s

(* What an event says of its request, and of the catalog that was left. *)
Tells(e) ==
    /\ req[e.req].phase = "done"
    /\ e.outcome = "success" =>
           /\ e.req \in commits /\ e.version \in 0..MaxVersion
           /\ req[e.req].before <= e.by /\ e.by <= foreign
           /\ e.by = req[e.req].before => e.version = req[e.req].next
           /\ foreign = req[e.req].before => e.version <= version
           /\ \A r \in Request :
                  /\ req[r].phase \in {"commit", "audit"} => e.by <= req[r].before
                  /\ req[r].phase = "audit" /\ foreign = req[e.req].before =>
                         e.version < version
    /\ req[e.req].code \in {400, 409} => e.outcome = "failure"
    /\ req[e.req].code = 200 /\ e.req \in commits => e.outcome = "success"

(* Events are of requests that have been answered, one of each at most,    *)
(* and say what became of them; an open line ends in that of a request     *)
(* whose write has failed.                                                 *)
EventsTell ==
    /\ log \in Seq([req : Request, outcome : {"success", "failure", "read"},
                     version : 0..MaxVersion \cup {NoVersion}, by : 0..MaxForeign])
    /\ \A i \in 1..Len(log) : Tells(log[i])
    /\ \A i, j \in 1..Len(log) : log[i].req = log[j].req => i = j
    /\ \A i, j \in 1..Len(log) :
           /\ i < j /\ log[i].outcome = "success" /\ log[j].outcome = "success"
           /\ log[j].by = req[log[i].req].before
           => log[i].version < log[j].version
    /\ \A r \in Request :
           req[r].code \in Recorded => r \in glued \/ \E i \in 1..Len(log) : log[i].req = r

FileOK ==
    /\ glued # {} => tail = "broken"
    /\ \A r \in glued : req[r].phase = "done"
    /\ \A r, s \in glued : req[r].code \in Recorded /\ req[s].code \in Recorded => r = s
    /\ tail = "open" => log # <<>> /\ req[Last(log).req].code = 500

ControlIInv == ControlTypeOK /\ BucketAccounts /\ CommitsOwned /\ EventsTell /\ FileOK
=============================================================================
