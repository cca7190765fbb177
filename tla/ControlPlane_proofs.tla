-------------------------- MODULE ControlPlane_proofs --------------------------
(***************************************************************************)
(* Proofs about ControlPlane: the limiter's bound and the audit log hold   *)
(* for any number of requests, any bucket and any number of faults.        *)
(***************************************************************************)
EXTENDS ControlPlane, TLAPS

-----------------------------------------------------------------------------
(* Types, by name.                                                         *)

Phases == {"idle", "clock", "endpoint", "commit", "audit", "done", "lost"}
Codes == {0, 200, 400, 401, 403, 409, 429, 500}
Versions == 0..MaxVersion \cup {NoVersion}
Nexts == 1..MaxVersion \cup {NoVersion}
Readings == 0..MaxVersion - 1 \cup {NoVersion}
Requests == [phase : Phases, seen : 0..MaxTime, next : Nexts, before : 0..MaxForeign,
             code : Codes]
Tails == {"ended", "open", "broken"}
Outcomes == {"success", "failure", "read"}
Events == [req : Request, outcome : Outcomes, version : Versions, by : 0..MaxForeign]
Buckets == [tokens : 0..Capacity, at : 0..MaxTime, since : 0..MaxTime, made : BOOLEAN]

(* The type invariant, with its sets by name. *)
LEMMA TypesNamed ==
  ControlTypeOK <=> /\ now \in 0..MaxTime
                    /\ bucket \in Buckets
                    /\ req \in [Request -> Requests]
                    /\ version \in 0..MaxVersion /\ other \in Readings
                    /\ foreign \in 0..MaxForeign
                    /\ commits \in SUBSET Request /\ glued \in SUBSET Request
                    /\ tail \in Tails
                    /\ faults \in 0..MaxFaults
                    /\ allowed \in Nat /\ setBack \in Nat
  BY DEF ControlTypeOK, Requests, Buckets, Phases, Codes, Nexts, Readings, Tails

(* The same after a step. *)
LEMMA TypesNamedNext ==
  ASSUME now' \in 0..MaxTime, bucket' \in Buckets, req' \in [Request -> Requests],
         version' \in 0..MaxVersion, other' \in Readings, foreign' \in 0..MaxForeign,
         commits' \in SUBSET Request, glued' \in SUBSET Request, tail' \in Tails,
         faults' \in 0..MaxFaults, allowed' \in Nat, setBack' \in Nat
  PROVE  ControlTypeOK'
  BY DEF ControlTypeOK, Requests, Buckets, Phases, Codes, Nexts, Readings, Tails

(* A step that moves a request on, and no more. *)
LEMMA MovesPhase ==
  ASSUME req \in [Request -> Requests], NEW r \in Request, NEW phase \in Phases,
         req' = [req EXCEPT ![r].phase = phase]
  PROVE  /\ req' \in [Request -> Requests] /\ req'[r].phase = phase
         /\ req'[r].code = req[r].code /\ req'[r].seen = req[r].seen
         /\ req'[r].next = req[r].next /\ req'[r].before = req[r].before
         /\ \A s \in Request : s # r => req'[s] = req[s]
  BY DEF Requests

(* A request with one field changed is a request with that field. *)
LEMMA RequestChanged ==
  ASSUME NEW q \in Requests
  PROVE  /\ \A x \in Codes : /\ [q EXCEPT !.code = x] \in Requests
                             /\ [q EXCEPT !.code = x].code = x
                             /\ [q EXCEPT !.code = x].phase = q.phase
                             /\ [q EXCEPT !.code = x].seen = q.seen
                             /\ [q EXCEPT !.code = x].next = q.next
                             /\ [q EXCEPT !.code = x].before = q.before
         /\ \A x \in 0..MaxTime : /\ [q EXCEPT !.seen = x] \in Requests
                                  /\ [q EXCEPT !.seen = x].code = q.code
                                  /\ [q EXCEPT !.seen = x].phase = q.phase
                                  /\ [q EXCEPT !.seen = x].seen = x
                                  /\ [q EXCEPT !.seen = x].next = q.next
                                  /\ [q EXCEPT !.seen = x].before = q.before
         /\ \A x \in Nexts : /\ [q EXCEPT !.next = x] \in Requests
                             /\ [q EXCEPT !.next = x].code = q.code
                             /\ [q EXCEPT !.next = x].phase = q.phase
                             /\ [q EXCEPT !.next = x].seen = q.seen
                             /\ [q EXCEPT !.next = x].next = x
                             /\ [q EXCEPT !.next = x].before = q.before
         /\ \A x \in 0..MaxForeign : /\ [q EXCEPT !.before = x] \in Requests
                                     /\ [q EXCEPT !.before = x].code = q.code
                                     /\ [q EXCEPT !.before = x].phase = q.phase
                                     /\ [q EXCEPT !.before = x].seen = q.seen
                                     /\ [q EXCEPT !.before = x].next = q.next
                                     /\ [q EXCEPT !.before = x].before = x
  BY DEF Requests

(* A step that moves a request on and changes one field of it besides.     *)
LEMMA MovesCode ==
  ASSUME req \in [Request -> Requests], NEW r \in Request,
         NEW phase \in Phases, NEW x \in Codes,
         req' = [req EXCEPT ![r].phase = phase, ![r].code = x]
  PROVE  /\ req' \in [Request -> Requests]
         /\ req'[r].phase = phase /\ req'[r].code = x /\ req'[r].seen = req[r].seen
         /\ req'[r].next = req[r].next /\ req'[r].before = req[r].before
         /\ \A s \in Request : s # r => req'[s] = req[s]
<1> DEFINE moved == [req EXCEPT ![r].phase = phase]
<1>1. req' = [moved EXCEPT ![r].code = x]
  OBVIOUS
<1>2. /\ moved \in [Request -> Requests] /\ moved[r].phase = phase
      /\ moved[r].code = req[r].code /\ moved[r].seen = req[r].seen
      /\ moved[r].next = req[r].next /\ moved[r].before = req[r].before
      /\ \A s \in Request : s # r => moved[s] = req[s]
  BY DEF Requests
<1> HIDE DEF moved
<1>3. moved[r] \in Requests
  BY <1>2
<1> DEFINE q == [moved[r] EXCEPT !.code = x]
<1>4. /\ q \in Requests /\ q.phase = moved[r].phase /\ q.code = x /\ q.seen = moved[r].seen
      /\ q.next = moved[r].next /\ q.before = moved[r].before
  BY <1>3, RequestChanged, ZenonT(30)
<1>5. req' = [moved EXCEPT ![r] = q]
  BY <1>1, <1>2
<1> HIDE DEF q
<1> QED
  BY <1>2, <1>4, <1>5, ZenonT(30)

(* The same for the time a thread has read. *)
SeenMoves(r, phase, x) == req' = [req EXCEPT ![r].phase = phase, ![r].seen = x]

(* It goes with its request. *)
LEMMA MovesSeen ==
  ASSUME req \in [Request -> Requests], NEW r \in Request,
         NEW phase \in Phases, NEW x \in 0..MaxTime, SeenMoves(r, phase, x)
  PROVE  /\ req' \in [Request -> Requests]
         /\ req'[r].phase = phase /\ req'[r].seen = x /\ req'[r].code = req[r].code
         /\ req'[r].next = req[r].next /\ req'[r].before = req[r].before
         /\ \A s \in Request : s # r => req'[s] = req[s]
<1> DEFINE moved == [req EXCEPT ![r].phase = phase]
<1>1. req' = [moved EXCEPT ![r].seen = x]
  BY DEF SeenMoves
<1>2. /\ moved \in [Request -> Requests] /\ moved[r].phase = phase
      /\ moved[r].code = req[r].code /\ moved[r].seen = req[r].seen
      /\ moved[r].next = req[r].next /\ moved[r].before = req[r].before
      /\ \A s \in Request : s # r => moved[s] = req[s]
  BY DEF Requests
<1> HIDE DEF moved
<1>3. moved[r] \in Requests
  BY <1>2
<1> DEFINE q == [moved[r] EXCEPT !.seen = x]
<1>4. /\ q \in Requests /\ q.phase = moved[r].phase /\ q.code = moved[r].code /\ q.seen = x
      /\ q.next = moved[r].next /\ q.before = moved[r].before
  BY <1>3, RequestChanged, ZenonT(30)
<1>5. req' = [moved EXCEPT ![r] = q]
  BY <1>1, <1>2
<1> HIDE DEF q
<1> QED
  BY <1>2, <1>4, <1>5

(* An import that has read the version goes on with the next one, and with *)
(* what other processes had written by then. *)
LEMMA ReadMoves ==
  ASSUME ControlTypeOK, NEW r \in Request, ImportReads(r)
  PROVE  /\ req' \in [Request -> Requests]
         /\ req'[r].phase = "commit" /\ req'[r].next = version + 1 /\ version + 1 \in Nexts
         /\ req'[r].before = foreign
         /\ req'[r].code = req[r].code /\ req'[r].seen = req[r].seen
         /\ \A s \in Request : s # r => req'[s] = req[s]
<1>1. /\ req \in [Request -> Requests] /\ version \in 0..MaxVersion /\ version < MaxVersion
      /\ foreign \in 0..MaxForeign
  BY TypesNamed DEF ImportReads
<1>2. version + 1 \in Nexts /\ "commit" \in Phases
  BY <1>1, ControlAssumption DEF Nexts, Phases
<1> DEFINE moved == [req EXCEPT ![r].phase = "commit"]
           named == [moved EXCEPT ![r].next = version + 1]
<1>3. req' = [named EXCEPT ![r].before = foreign]
  BY DEF ImportReads
<1>4. /\ moved \in [Request -> Requests] /\ moved[r].phase = "commit"
      /\ moved[r].code = req[r].code /\ moved[r].seen = req[r].seen
      /\ \A s \in Request : s # r => moved[s] = req[s]
  BY <1>1, <1>2 DEF Requests
<1>5. moved[r] \in Requests
  BY <1>4
<1> DEFINE q == [moved[r] EXCEPT !.next = version + 1]
<1>6. named = [moved EXCEPT ![r] = q]
  BY <1>4
<1> HIDE DEF moved
<1>7. /\ q \in Requests /\ q.phase = moved[r].phase /\ q.code = moved[r].code
      /\ q.seen = moved[r].seen /\ q.next = version + 1
  BY <1>2, <1>5, RequestChanged, Zenon
<1> HIDE DEF q, named
<1>8. /\ named \in [Request -> Requests] /\ named[r] = q
      /\ \A s \in Request : s # r => named[s] = req[s]
  BY <1>4, <1>6, <1>7
<1> DEFINE p == [q EXCEPT !.before = foreign]
<1>9. /\ p \in Requests /\ p.phase = q.phase /\ p.code = q.code /\ p.seen = q.seen
      /\ p.next = q.next /\ p.before = foreign
  BY <1>1, <1>7, RequestChanged, Zenon
<1>10. req' = [named EXCEPT ![r] = p]
  BY <1>3, <1>8
<1> HIDE DEF p
<1> QED
  BY <1>2, <1>4, <1>7, <1>8, <1>9, <1>10

(* What a thread does to the request it answers. *)
LEMMA AnswerMoves ==
  ASSUME ControlTypeOK, NEW r \in Request, NEW code \in Codes, Answer(r, code)
  PROVE  /\ req' \in [Request -> Requests]
         /\ req'[r].phase = "done" /\ req'[r].code = code /\ req'[r].seen = req[r].seen
         /\ req'[r].next = req[r].next /\ req'[r].before = req[r].before
         /\ \A s \in Request : s # r => req'[s] = req[s]
<1>1. req \in [Request -> Requests]
  BY TypesNamed
<1>2. req' = [req EXCEPT ![r].phase = "done", ![r].code = code] /\ "done" \in Phases
  BY DEF Answer, Phases
<1> QED
  BY <1>1, <1>2, MovesCode

-----------------------------------------------------------------------------
(* The limiter.                                                            *)

(* What is refilled in two intervals is refilled in their sum. *)
LEMMA RefillAdds ==
  ASSUME NEW x \in Int, NEW y \in Int
  PROVE  Refill * (x + y) = Refill * x + Refill * y
  BY ControlAssumption

(* A longer interval refills no less. *)
LEMMA RefillGrows ==
  ASSUME NEW x \in Int, NEW y \in Int, x <= y
  PROVE  Refill * x <= Refill * y
<1>1. y - x \in Nat
  OBVIOUS
<1>2. Refill * (y - x) \in Nat
  BY <1>1, ControlAssumption
<1>3. Refill * y = Refill * x + Refill * (y - x)
  BY RefillAdds, <1>1
<1> QED
  BY <1>2, <1>3, ControlAssumption

(* A bucket at the time a thread has read: what it gained is no more than  *)
(* the time since it was updated refills.                                  *)
LEMMA RefilledBucket ==
  ASSUME ControlTypeOK, NEW seen \in 0..MaxTime
  PROVE  LET b == Refilled(seen) IN
         /\ b \in Buckets /\ b.made /\ b.at = seen
         /\ bucket.made => /\ b.since = bucket.since
                           /\ b.tokens <= bucket.tokens + Positive(seen - bucket.at) * Refill
         /\ ~bucket.made => b.since = seen /\ b.tokens = Capacity
<1> DEFINE gain == Positive(seen - bucket.at) * Refill
<1>0. bucket \in Buckets
  BY TypesNamed
<1>1. gain \in Nat
  BY <1>0, ControlAssumption DEF Buckets, Positive
<1>2. CASE bucket.made
  <2> DEFINE filled == Lesser(Capacity, bucket.tokens + gain)
  <2>1. Refilled(seen) = [bucket EXCEPT !.tokens = filled, !.at = seen]
    BY <1>2 DEF Refilled
  <2>2. filled \in 0..Capacity /\ filled <= bucket.tokens + gain
    <3> HIDE DEF gain
    <3> QED
      BY <1>0, <1>1, ControlAssumption DEF Buckets, Lesser
  <2>3. Refilled(seen).tokens <= bucket.tokens + gain
    <3> HIDE DEF gain, filled
    <3> QED
      BY <1>0, <2>1, <2>2 DEF Buckets
  <2>4. Refilled(seen) \in Buckets /\ Refilled(seen).made /\ Refilled(seen).at = seen
        /\ Refilled(seen).since = bucket.since
    <3> HIDE DEF gain, filled
    <3> QED
      BY <1>0, <1>2, <2>1, <2>2 DEF Buckets
  <2> QED
    BY <1>2, <2>3, <2>4
<1>3. CASE ~bucket.made
  BY <1>3, ControlAssumption DEF Refilled, Buckets
<1> QED
  BY <1>2, <1>3

(* What the limiter makes of the bucket, with the token it hands out. *)
LEMMA AllowMoves ==
  ASSUME ControlTypeOK, NEW r \in Request, Allow(r)
  PROVE  LET b == Refilled(req[r].seen) IN
         /\ bucket' \in Buckets /\ bucket'.made
         /\ bucket'.at = req[r].seen /\ bucket'.since = b.since
         /\ allowed' \in Nat /\ allowed' + bucket'.tokens = allowed + b.tokens
         /\ setBack' = setBack + Positive(bucket.at - req[r].seen) /\ setBack' \in Nat
<1> DEFINE b == Refilled(req[r].seen)
<1>0. bucket \in Buckets /\ req \in [Request -> Requests] /\ allowed \in Nat /\ setBack \in Nat
  BY TypesNamed
<1>1. req[r].seen \in 0..MaxTime
  BY <1>0 DEF Requests
<1>2. b \in Buckets /\ b.made /\ b.at = req[r].seen
  BY <1>1, RefilledBucket
<1>3. setBack' = setBack + Positive(bucket.at - req[r].seen)
  BY DEF Allow
<1>4. setBack' \in Nat
  BY <1>0, <1>1, <1>3 DEF Positive, Buckets
<1>5. CASE b.tokens = 0
  <2>1. bucket' = b /\ allowed' = allowed
    BY <1>5 DEF Allow
  <2> HIDE DEF b
  <2>2. bucket'.at = req[r].seen /\ bucket'.since = b.since /\ bucket' \in Buckets
        /\ bucket'.made /\ allowed' \in Nat /\ allowed' + bucket'.tokens = allowed + b.tokens
    BY <1>0, <1>2, <2>1
  <2> QED
    BY <1>3, <1>4, <2>2 DEF b
<1>6. CASE b.tokens # 0
  <2>1. bucket' = [b EXCEPT !.tokens = @ - 1] /\ allowed' = allowed + 1
    BY <1>6 DEF Allow
  <2> HIDE DEF b
  <2>2. bucket' \in Buckets /\ bucket'.made /\ bucket'.at = req[r].seen
        /\ bucket'.since = b.since /\ bucket'.tokens = b.tokens - 1
    BY <1>2, <1>6, <2>1, ControlAssumption DEF Buckets
  <2>3. b.tokens \in Nat
    BY <1>2, ControlAssumption DEF Buckets
  <2>4. allowed' \in Nat /\ allowed' + bucket'.tokens = allowed + b.tokens
    BY <1>0, <2>1, <2>2, <2>3
  <2> QED
    BY <1>3, <1>4, <2>2, <2>4 DEF b
<1> QED
  BY <1>5, <1>6

-----------------------------------------------------------------------------
(* Every step keeps the types.                                             *)

(* Whatever becomes of the event, the request is answered, and the log has *)
(* it at its end, or it is glued to the end of the log, or the log is as   *)
(* before. *)
LEMMA AppendCases ==
  ASSUME ControlTypeOK, NEW r \in Request, NEW outcome, NEW v,
         NEW code \in Recorded, AppendThen(r, outcome, v, code)
  PROVE  /\ \/ /\ log' = Append(log, Event(r, outcome, v)) /\ glued' = glued
               /\ tail = "ended"
               /\ \/ Answer(r, code) /\ tail' = "ended"
                  \/ Answer(r, 500) /\ tail' = "open"
            \/ tail = "open" /\ Glues(r) /\ (Answer(r, code) \/ Answer(r, 500))
            \/ /\ Answer(r, 500) /\ log' = log /\ glued' = glued
               /\ tail' = tail \/ tail' = "broken"
         /\ faults' \in 0..MaxFaults
  BY ControlAssumption, SMTT(30) DEF AppendThen, ControlTypeOK, fileVars

(* What a line that is none leaves of the file. *)
LEMMA GlueTypes ==
  ASSUME EventsTell, FileOK, tail = "open", NEW r \in Request, Glues(r)
  PROVE  glued' \in SUBSET Request /\ tail' \in Tails
<1>1. log # <<>> /\ log \in Seq(Events)
  BY DEF FileOK, EventsTell, Events, Outcomes, Versions
<1>2. Len(log) \in 1..Len(log) /\ Last(log) = log[Len(log)]
  BY <1>1 DEF Last
<1>3. log[Len(log)] \in Events
  BY <1>1, <1>2
<1> QED
  BY <1>2, <1>3 DEF Glues, Tails, Events

(* A request that the limiter has seen is answered or goes on. *)
LEMMA AllowAnswers ==
  ASSUME ControlTypeOK, NEW r \in Request, Allow(r)
  PROVE  \/ Answer(r, 429) \/ Answer(r, 403)
         \/ req' = [req EXCEPT ![r].phase = "endpoint"]
  BY DEF Allow

(* No step leaves the types. *)
LEMMA ControlTypeStep ==
  ASSUME ControlTypeOK, CommitsOwned, EventsTell, FileOK, [ControlNext]_controlVars
  PROVE  ControlTypeOK'
<1> USE TypesNamed
<1>0. /\ bucket \in Buckets /\ req \in [Request -> Requests]
      /\ now \in 0..MaxTime /\ version \in 0..MaxVersion /\ allowed \in Nat /\ setBack \in Nat
      /\ other \in Readings /\ foreign \in 0..MaxForeign
      /\ commits \in SUBSET Request /\ glued \in SUBSET Request
      /\ tail \in Tails /\ faults \in 0..MaxFaults
  OBVIOUS
<1>1. CASE Tick
  BY <1>0, <1>1, TypesNamedNext, ControlAssumption
  DEF Tick, catalogVars, fileVars, limiterVars
<1>2. CASE Crash
  <2>1. faults' \in 0..MaxFaults
    BY <1>0, <1>2, ControlAssumption DEF Crash
  <2>2. bucket' \in Buckets
    BY <1>2, ControlAssumption DEF Crash, NoBucket, Buckets
  <2>3. req' \in [Request -> Requests]
    BY <1>0, <1>2 DEF Crash, Requests, Phases
  <2> QED
    BY <1>0, <1>2, <2>1, <2>2, <2>3, TypesNamedNext DEF Crash, catalogVars, fileVars
<1>3. ASSUME req' \in [Request -> Requests],
             UNCHANGED <<now, faults, catalogVars, fileVars, limiterVars>>
      PROVE  ControlTypeOK'
  BY <1>0, <1>3, TypesNamedNext DEF catalogVars, fileVars, limiterVars
<1>4. ASSUME NEW r \in Request, Authenticate(r) PROVE ControlTypeOK'
  <2>1. CASE Answer(r, 401)
    BY <1>3, <1>4, <2>1, AnswerMoves DEF Codes, Authenticate
  <2>2. CASE SeenMoves(r, "clock", now)
    <3>1. "clock" \in Phases
      BY DEF Phases
    <3> QED
      BY <1>0, <1>3, <1>4, <2>2, <3>1, MovesSeen DEF Authenticate
  <2> QED
    BY <1>4, <2>1, <2>2 DEF Authenticate, SeenMoves
<1>5. ASSUME NEW r \in Request, Allow(r) PROVE ControlTypeOK'
  <2>1. bucket' \in Buckets /\ allowed' \in Nat /\ setBack' \in Nat
    BY <1>5, AllowMoves
  <2>2. req' \in [Request -> Requests]
    <3>1. CASE req' = [req EXCEPT ![r].phase = "endpoint"]
      BY <1>0, <3>1 DEF Requests, Phases
    <3> QED
      BY <1>5, <3>1, AllowAnswers, AnswerMoves DEF Codes
  <2> QED
    BY <1>0, <1>5, <2>1, <2>2, TypesNamedNext DEF Allow, catalogVars, fileVars
<1>6. ASSUME NEW r \in Request, ImportReads(r) PROVE ControlTypeOK'
  BY <1>3, <1>6, ReadMoves DEF ImportReads
<1>7. ASSUME NEW r \in Request, ImportCommits(r) PROVE ControlTypeOK'
  <2>1. req[r].next \in Nexts
    BY <1>0 DEF Requests
  <2>2. version' = req[r].next /\ req[r].phase = "commit" /\ commits' = commits \cup {r}
    BY <1>7 DEF ImportCommits
  <2>3. req[r].next # NoVersion
    BY <2>2 DEF CommitsOwned
  <2>4. version' \in 0..MaxVersion
    BY <2>1, <2>2, <2>3, ControlAssumption DEF Nexts
  <2>5. "audit" \in Phases
    BY DEF Phases
  <2>6. req' \in [Request -> Requests]
    BY <1>0, <1>7, <2>5, MovesPhase DEF ImportCommits
  <2> QED
    BY <1>0, <1>7, <2>2, <2>4, <2>6, TypesNamedNext DEF ImportCommits, fileVars, limiterVars
<1>8. ASSUME NEW r \in Request, NEW outcome, NEW v, NEW code \in Recorded,
             AppendThen(r, outcome, v, code), UNCHANGED <<now, catalogVars, limiterVars>>
      PROVE  ControlTypeOK'
  <2>1. code \in Codes /\ 500 \in Codes
    BY DEF Codes, Recorded
  <2>2. (Answer(r, code) \/ Answer(r, 500)) /\ faults' \in 0..MaxFaults
    BY <1>8, AppendCases
  <2>3. req' \in [Request -> Requests]
    BY <2>1, <2>2, AnswerMoves
  <2>4. \/ glued' = glued /\ tail' \in {tail, "open", "broken", "ended"}
        \/ tail = "open" /\ Glues(r)
    BY <1>8, AppendCases
  <2>5. glued' \in SUBSET Request /\ tail' \in Tails
    BY <1>0, <2>4, GlueTypes DEF Tails
  <2> QED
    BY <1>0, <1>8, <2>2, <2>3, <2>5, TypesNamedNext DEF catalogVars, limiterVars
<1>9. ASSUME NEW r \in Request, ImportRefused(r) \/ ImportAudits(r) PROVE ControlTypeOK'
  BY <1>8, <1>9 DEF ImportRefused, ImportAudits, Recorded
<1>10. ASSUME NEW r \in Request, ReadEndpoint(r) PROVE ControlTypeOK'
  <2>1. UNCHANGED <<now, catalogVars, limiterVars>>
    BY <1>10 DEF ReadEndpoint
  <2>2. CASE AppendThen(r, "read", NoVersion, 200)
    BY <1>8, <2>1, <2>2 DEF Recorded
  <2>3. CASE tail = "open" /\ Glues(r) /\ Answer(r, 500) /\ UNCHANGED faults
    <3>1. req' \in [Request -> Requests]
      BY <2>3, AnswerMoves DEF Codes
    <3>2. glued' \in SUBSET Request /\ tail' \in Tails
      BY <2>3, GlueTypes
    <3> QED
      BY <1>0, <2>1, <2>3, <3>1, <3>2, TypesNamedNext DEF catalogVars, limiterVars
  <2> QED
    BY <1>10, <2>2, <2>3 DEF ReadEndpoint
<1>11. ASSUME NEW r \in Request, EndpointRaises(r) PROVE ControlTypeOK'
  BY <1>3, <1>11, AnswerMoves DEF EndpointRaises, Codes
<1>12. CASE OtherReads
  <2>1. other' \in Readings
    BY <1>0, <1>12, ControlAssumption DEF OtherReads, Readings
  <2> QED
    BY <1>0, <1>12, <2>1, TypesNamedNext DEF OtherReads, fileVars, limiterVars
<1>13. CASE OtherWrites
  <2>1. foreign' \in 0..MaxForeign
    BY <1>0, <1>13, ControlAssumption DEF OtherWrites
  <2>2. version' \in 0..MaxVersion /\ other' \in Readings
    BY <1>0, <1>13, ControlAssumption DEF OtherWrites, Readings
  <2> QED
    BY <1>0, <1>13, <2>1, <2>2, TypesNamedNext DEF OtherWrites, fileVars, limiterVars
<1>14. CASE UNCHANGED controlVars
  BY <1>0, <1>3, <1>14 DEF controlVars
<1> QED
  BY <1>1, <1>2, <1>4, <1>5, <1>6, <1>7, <1>9, <1>10, <1>11, <1>12, <1>13, <1>14 DEF ControlNext

(* The initial state has the types. *)
LEMMA ControlInitTypes == ControlInit => ControlTypeOK
  BY ControlAssumption DEF ControlInit, NoBucket, NewRequest, ControlTypeOK

-----------------------------------------------------------------------------
(* The limiter's account.                                                  *)

(* A request that is answered or goes on has seen what it had seen. *)
LEMMA AllowKeepsSeen ==
  ASSUME ControlTypeOK, NEW r \in Request, Allow(r)
  PROVE  \A s \in Request : req'[s].seen = req[s].seen
<1>1. CASE \E code \in Codes : Answer(r, code)
  BY <1>1, AnswerMoves
<1>2. CASE req' = [req EXCEPT ![r].phase = "endpoint"]
  <2>1. req \in [Request -> Requests] /\ "endpoint" \in Phases
    BY TypesNamed DEF Phases
  <2> QED
    BY <1>2, <2>1, MovesPhase
<1> QED
  BY <1>1, <1>2, AllowAnswers DEF Codes

(* Only the limiter touches the account, and it adds to both its sides.    *)
LEMMA BucketStep ==
  ASSUME ControlTypeOK, BucketAccounts, [ControlNext]_controlVars
  PROVE  BucketAccounts'
<1>0. /\ bucket \in Buckets /\ req \in [Request -> Requests]
      /\ now \in 0..MaxTime /\ allowed \in Nat /\ setBack \in Nat
      /\ bucket.at \in 0..MaxTime /\ bucket.since \in 0..MaxTime /\ bucket.tokens \in 0..Capacity
      /\ \A s \in Request : req[s].seen \in 0..MaxTime
  <2>1. bucket \in Buckets /\ req \in [Request -> Requests]
        /\ now \in 0..MaxTime /\ allowed \in Nat /\ setBack \in Nat
    BY TypesNamed
  <2>2. bucket.at \in 0..MaxTime /\ bucket.since \in 0..MaxTime /\ bucket.tokens \in 0..Capacity
    BY <2>1 DEF Buckets
  <2>3. \A s \in Request : req[s].seen \in 0..MaxTime
    BY <2>1 DEF Requests
  <2> QED
    BY <2>1, <2>2, <2>3
<1>1. CASE Tick
  BY <1>0, <1>1 DEF Tick, BucketAccounts, NoBucket, limiterVars
<1>2. CASE Crash
  <2>1. \A s \in Request : req'[s].seen = req[s].seen
    BY <1>0, <1>2 DEF Crash, Requests
  <2>2. bucket' = NoBucket /\ now' = now /\ allowed' = 0 /\ setBack' = 0
    BY <1>2 DEF Crash
  <2> QED
    BY <1>0, <2>1, <2>2 DEF BucketAccounts, NoBucket
<1>3. ASSUME UNCHANGED <<now, limiterVars>>,
             \A s \in Request : req'[s].seen \in {req[s].seen, now}
      PROVE  BucketAccounts'
  BY <1>0, <1>3 DEF BucketAccounts, NoBucket, limiterVars
<1>4. ASSUME NEW r \in Request, NEW code \in Codes, Answer(r, code),
             UNCHANGED <<now, limiterVars>>
      PROVE  BucketAccounts'
  BY <1>3, <1>4, AnswerMoves
<1>5. ASSUME NEW r \in Request, Authenticate(r) PROVE BucketAccounts'
  <2>1. CASE Answer(r, 401)
    BY <1>4, <1>5, <2>1 DEF Authenticate, Codes
  <2>2. CASE SeenMoves(r, "clock", now)
    <3>1. "clock" \in Phases /\ req \in [Request -> Requests] /\ now \in 0..MaxTime
      BY <1>0 DEF Phases
    <3>2. req'[r].seen = now /\ \A s \in Request : s # r => req'[s] = req[s]
      BY <2>2, <3>1, MovesSeen
    <3> QED
      BY <1>3, <1>5, <3>2 DEF Authenticate
  <2> QED
    BY <1>5, <2>1, <2>2 DEF Authenticate, SeenMoves
<1>6. ASSUME NEW r \in Request, ImportReads(r) \/ ImportCommits(r) PROVE BucketAccounts'
  <2>1. CASE ImportReads(r)
    <3>1. \A s \in Request : req'[s].seen = req[s].seen
      BY <2>1, ReadMoves
    <3> QED
      BY <1>3, <2>1, <3>1 DEF ImportReads
  <2>2. CASE ImportCommits(r)
    <3>1. "audit" \in Phases
      BY DEF Phases
    <3>2. \A s \in Request : req'[s].seen = req[s].seen
      BY <1>0, <2>2, <3>1, MovesPhase DEF ImportCommits
    <3> QED
      BY <1>3, <2>2, <3>2 DEF ImportCommits
  <2> QED
    BY <1>6, <2>1, <2>2
<1>7. ASSUME NEW r \in Request, NEW outcome, NEW v, NEW code \in Recorded,
             AppendThen(r, outcome, v, code), UNCHANGED <<now, limiterVars>>
      PROVE  BucketAccounts'
  BY <1>4, <1>7, AppendCases DEF Codes, Recorded
<1>8. ASSUME NEW r \in Request,
             ImportRefused(r) \/ ImportAudits(r) \/ ReadEndpoint(r) \/ EndpointRaises(r)
      PROVE  BucketAccounts'
  BY <1>4, <1>7, <1>8
  DEF ImportRefused, ImportAudits, ReadEndpoint, EndpointRaises, Codes, Recorded
<1>9. ASSUME NEW r \in Request, Allow(r) PROVE BucketAccounts'
  <2> DEFINE seen == req[r].seen
             b == Refilled(seen)
             late == Positive(bucket.at - seen)
  <2>0. seen \in 0..MaxTime /\ seen <= now
    BY <1>0 DEF BucketAccounts
  <2>1. /\ bucket' \in Buckets /\ bucket'.made /\ bucket'.at = seen
        /\ bucket'.since = b.since
        /\ allowed' \in Nat /\ allowed' + bucket'.tokens = allowed + b.tokens
        /\ setBack' = setBack + late
    BY <1>9, AllowMoves
  <2>2. bucket'.at <= now' /\ \A s \in Request : req'[s].seen <= now'
    BY <1>0, <1>9, <2>0, <2>1, AllowKeepsSeen DEF BucketAccounts, Allow
  <2>3. allowed' + bucket'.tokens
            <= Capacity + Refill * (bucket'.at - bucket'.since + setBack')
    <3>1. CASE ~bucket.made
      <4>1. b.since = seen /\ b.tokens = Capacity
        BY <2>0, <3>1, RefilledBucket
      <4>2. allowed = 0 /\ setBack = 0 /\ bucket.at = 0
        BY <3>1 DEF BucketAccounts, NoBucket
      <4>3. late = 0
        BY <2>0, <4>2 DEF Positive
      <4>4. Refill * (bucket'.at - bucket'.since + setBack') = 0
        <5> HIDE DEF b, seen, late
        <5>1. bucket'.at - bucket'.since + setBack' = 0
          BY <2>0, <2>1, <4>1, <4>2, <4>3
        <5> QED
          BY <5>1, ControlAssumption
      <4> HIDE DEF b, seen, late
      <4> QED
        BY <2>1, <4>1, <4>2, <4>4, ControlAssumption
    <3>2. CASE bucket.made
      <4> DEFINE early == Positive(seen - bucket.at)
                 before == bucket.at - bucket.since + setBack
      <4>1. b.since = bucket.since /\ b.tokens <= bucket.tokens + early * Refill /\ b.tokens \in Nat
        BY <2>0, <3>2, RefilledBucket, ControlAssumption DEF Buckets
      <4>2. early \in Nat /\ late \in Nat /\ seen - bucket.at + late = early
        BY <1>0, <2>0 DEF Positive
      <4>3. allowed + bucket.tokens <= Capacity + Refill * before
        BY <3>2 DEF BucketAccounts
      <4>4. bucket'.at - bucket'.since + setBack' = before + early
        <5>1. bucket'.at = seen /\ bucket'.since = bucket.since /\ setBack' = setBack + late
          BY <2>1, <4>1
        <5> HIDE DEF b, seen, late, early
        <5> QED
          BY <1>0, <2>0, <4>2, <5>1
      <4>5. before \in Int
        BY <1>0
      <4> HIDE DEF b, seen, late, early, before
      <4>6. Refill * (before + early) = Refill * before + Refill * early
        BY <4>2, <4>5, RefillAdds
      <4>7. Refill * before \in Int /\ Refill * early \in Int /\ early * Refill = Refill * early
        BY <4>2, <4>5, ControlAssumption
      <4> QED
        BY <1>0, <2>1, <4>1, <4>3, <4>4, <4>6, <4>7, ControlAssumption
    <3> QED
      BY <3>1, <3>2
  <2> QED
    BY <2>1, <2>2, <2>3 DEF BucketAccounts
<1>10. CASE OtherReads \/ OtherWrites
  BY <1>3, <1>10 DEF OtherReads, OtherWrites
<1>11. CASE UNCHANGED controlVars
  BY <1>3, <1>11 DEF controlVars
<1> QED
  BY <1>1, <1>2, <1>5, <1>6, <1>8, <1>9, <1>10, <1>11 DEF ControlNext

-----------------------------------------------------------------------------
(* The kinds of steps, for the catalog and the log.                        *)

Early == {"idle", "clock", "endpoint"}
Holding == {"commit", "audit"}

(* A request is as before, or has gone on without touching the catalog.    *)
Moves(s) ==
    \/ req'[s] = req[s]
    \/ /\ req[s].phase # "done"
       /\ req'[s].next = req[s].next /\ req'[s].before = req[s].before
       /\ req'[s].phase = "done" <=> req'[s].code # 0
       /\ req'[s].phase \in Early => req[s].phase \in Early
       /\ req'[s].phase \notin Holding

Quiet ==
    /\ UNCHANGED <<version, foreign, commits, log, glued>> /\ tail' \in {tail, "broken"}
    /\ \A s \in Request : Moves(s) /\ (req'[s] = req[s] \/ req'[s].code \notin Recorded)

(* What an event may say of a request that is answered with a code.        *)
MaySay(r, outcome, v, code) ==
    /\ outcome = "success" => req[r].phase = "audit" /\ v = version
    /\ code \in {400, 409} => outcome = "failure"
    /\ code = 200 /\ r \in commits => outcome = "success"

(* The request is answered, and its event is added or glued to the log. *)
Records(r) ==
    \E outcome \in Outcomes, v \in Versions, code \in Codes \ {0} :
        /\ UNCHANGED <<version, foreign, commits>>
        /\ req[r].phase \in {"endpoint", "audit"} /\ Answer(r, code)
        /\ MaySay(r, outcome, v, code)
        /\ \/ /\ log' = Append(log, Event(r, outcome, v)) /\ glued' = glued
              /\ tail = "ended" /\ (tail' = "ended" \/ (tail' = "open" /\ code = 500))
           \/ tail = "open" /\ Glues(r)

(* A request that is answered has gone on. *)
LEMMA AnswerIsMove ==
  ASSUME ControlTypeOK, NEW r \in Request, req[r].phase # "done",
         NEW code \in Codes \ {0}, Answer(r, code)
  PROVE  /\ \A s \in Request : Moves(s)
         /\ req'[r].code = code /\ req'[r].phase = "done"
         /\ \A s \in Request : s # r => req'[s] = req[s]
<1>1. /\ req'[r].phase = "done" /\ req'[r].code = code
      /\ req'[r].next = req[r].next /\ req'[r].before = req[r].before
      /\ \A s \in Request : s # r => req'[s] = req[s]
  BY AnswerMoves
<1>2. Moves(r)
  BY <1>1 DEF Moves, Early, Holding
<1> QED
  BY <1>1, <1>2 DEF Moves

(* An answer that nothing is recorded for. *)
LEMMA AnswerIsQuiet ==
  ASSUME ControlTypeOK, NEW r \in Request, req[r].phase # "done",
         NEW code \in Codes \ {0}, code \notin Recorded, Answer(r, code),
         UNCHANGED <<version, foreign, commits, log, glued>>, tail' \in {tail, "broken"}
  PROVE  Quiet
  BY AnswerIsMove DEF Quiet

(* What is appended, or fails to be. *)
LEMMA AppendKinds ==
  ASSUME ControlTypeOK, NEW r \in Request, req[r].phase \in {"endpoint", "audit"},
         NEW outcome \in Outcomes, NEW v \in Versions, NEW code \in Recorded,
         AppendThen(r, outcome, v, code), UNCHANGED catalogVars,
         MaySay(r, outcome, v, code)
  PROVE  Quiet \/ Records(r)
<1>1. UNCHANGED <<version, foreign, commits>>
  BY DEF catalogVars
<1>2. code \in Codes \ {0} /\ 500 \in Codes \ {0} /\ 500 \notin Recorded
  BY DEF Codes, Recorded
<1>3. MaySay(r, outcome, v, 500)
  BY DEF MaySay
<1>4. CASE /\ log' = Append(log, Event(r, outcome, v)) /\ glued' = glued
           /\ tail = "ended"
           /\ \/ Answer(r, code) /\ tail' = "ended"
              \/ Answer(r, 500) /\ tail' = "open"
  BY <1>1, <1>2, <1>3, <1>4 DEF Records
<1>5. CASE tail = "open" /\ Glues(r) /\ (Answer(r, code) \/ Answer(r, 500))
  BY <1>1, <1>2, <1>3, <1>5 DEF Records
<1>6. CASE Answer(r, 500) /\ log' = log /\ glued' = glued /\ tail' \in {tail, "broken"}
  BY <1>1, <1>2, <1>6, AnswerIsQuiet
<1> QED
  BY <1>4, <1>5, <1>6, AppendCases

(* The kinds of steps there are. *)
LEMMA StepKinds ==
  ASSUME ControlTypeOK, CommitsOwned, [ControlNext]_controlVars
  PROVE  \/ Quiet \/ OtherWrites
         \/ \E r \in Request : ImportReads(r) \/ ImportCommits(r) \/ Records(r)
<1>0. /\ req \in [Request -> Requests] /\ now \in 0..MaxTime
      /\ \A s \in Request : req[s].phase # "done" => req[s].code = 0
  BY TypesNamed DEF CommitsOwned
<1>1. CASE UNCHANGED <<req, version, foreign, commits, log, glued, tail>>
  BY <1>1 DEF Quiet, Moves
<1>2. CASE Crash
  <2>1. \A s \in Request : Moves(s) /\ (req'[s] = req[s] \/ req'[s].code \notin Recorded)
    <3> SUFFICES ASSUME NEW s \in Request
                 PROVE  Moves(s) /\ (req'[s] = req[s] \/ req'[s].code \notin Recorded)
      OBVIOUS
    <3>1. CASE req[s].phase \in {"idle", "done"}
      BY <1>2, <3>1 DEF Crash, Moves
    <3>2. CASE req[s].phase \notin {"idle", "done"}
      <4> DEFINE q == [req[s] EXCEPT !.phase = "lost"]
      <4>1. req'[s] = q
        BY <1>2, <3>2 DEF Crash
      <4>2. q.phase = "lost" /\ q.code = req[s].code /\ q.next = req[s].next
            /\ q.before = req[s].before
        BY <1>0 DEF Requests
      <4> HIDE DEF q
      <4>3. req[s].code = 0
        BY <1>0, <3>2
      <4> QED
        BY <3>2, <4>1, <4>2, <4>3 DEF Moves, Early, Holding, Recorded
    <3> QED
      BY <3>1, <3>2
  <2> QED
    BY <1>2, <2>1 DEF Crash, Quiet, catalogVars, fileVars
<1>3. ASSUME NEW r \in Request, Authenticate(r) PROVE Quiet
  <2>0. UNCHANGED <<version, foreign, commits, log, glued, tail>> /\ req[r].phase = "idle"
    BY <1>3 DEF Authenticate, catalogVars, fileVars
  <2>1. CASE Answer(r, 401)
    BY <2>0, <2>1, AnswerIsQuiet DEF Codes, Recorded
  <2>2. CASE SeenMoves(r, "clock", now)
    <3>1. "clock" \in Phases
      BY DEF Phases
    <3>2. /\ req'[r].phase = "clock" /\ req'[r].code = req[r].code
          /\ req'[r].next = req[r].next /\ req'[r].before = req[r].before
          /\ \A s \in Request : s # r => req'[s] = req[s]
      BY <1>0, <2>2, <3>1, MovesSeen
    <3>3. req[r].code = 0
      BY <1>0, <2>0
    <3> QED
      BY <2>0, <3>2, <3>3 DEF Quiet, Moves, Early, Holding, Recorded
  <2> QED
    BY <1>3, <2>1, <2>2 DEF Authenticate, SeenMoves
<1>4. ASSUME NEW r \in Request, Allow(r) PROVE Quiet
  <2>0. UNCHANGED <<version, foreign, commits, log, glued, tail>> /\ req[r].phase = "clock"
    BY <1>4 DEF Allow, catalogVars, fileVars
  <2>1. CASE Answer(r, 429) \/ Answer(r, 403)
    BY <2>0, <2>1, AnswerIsQuiet DEF Codes, Recorded
  <2>2. CASE req' = [req EXCEPT ![r].phase = "endpoint"]
    <3>1. "endpoint" \in Phases
      BY DEF Phases
    <3>2. /\ req'[r].phase = "endpoint" /\ req'[r].code = req[r].code
          /\ req'[r].next = req[r].next /\ req'[r].before = req[r].before
          /\ \A s \in Request : s # r => req'[s] = req[s]
      BY <1>0, <2>2, <3>1, MovesPhase
    <3>3. req[r].code = 0
      BY <1>0, <2>0
    <3> QED
      BY <2>0, <3>2, <3>3 DEF Quiet, Moves, Early, Holding, Recorded
  <2> QED
    BY <1>4, <2>1, <2>2, AllowAnswers
<1>5. ASSUME NEW r \in Request, ImportRefused(r) PROVE Quiet \/ Records(r)
  <2>1. /\ req[r].phase = "endpoint" /\ UNCHANGED catalogVars
        /\ AppendThen(r, "failure", NoVersion, 400) \/ AppendThen(r, "failure", NoVersion, 409)
    BY <1>5 DEF ImportRefused, AtEndpoint
  <2>2. \A code \in {400, 409} : MaySay(r, "failure", NoVersion, code)
    BY DEF MaySay
  <2>3. "failure" \in Outcomes /\ NoVersion \in Versions /\ 400 \in Recorded /\ 409 \in Recorded
    BY DEF Outcomes, Versions, Recorded
  <2>4. MaySay(r, "failure", NoVersion, 400) /\ MaySay(r, "failure", NoVersion, 409)
    BY <2>2
  <2>5. req[r].phase \in {"endpoint", "audit"}
    BY <2>1
  <2>6. CASE AppendThen(r, "failure", NoVersion, 400)
    BY <2>1, <2>3, <2>4, <2>5, <2>6, AppendKinds
  <2>7. CASE AppendThen(r, "failure", NoVersion, 409)
    BY <2>1, <2>3, <2>4, <2>5, <2>7, AppendKinds
  <2> QED
    BY <2>1, <2>6, <2>7
<1>6. ASSUME NEW r \in Request, ImportAudits(r) PROVE Quiet \/ Records(r)
  <2>1. /\ req[r].phase = "audit" /\ UNCHANGED catalogVars
        /\ AppendThen(r, "success", version, 200)
    BY <1>6 DEF ImportAudits
  <2>2. MaySay(r, "success", version, 200) /\ version \in Versions
    BY <2>1, TypesNamed DEF MaySay, Versions
  <2> QED
    BY <2>1, <2>2, AppendKinds DEF Outcomes, Recorded
<1>7. ASSUME NEW r \in Request, ReadEndpoint(r) PROVE Quiet \/ Records(r)
  <2>1. req[r].phase = "endpoint" /\ UNCHANGED catalogVars /\ r \notin commits
    BY <1>7 DEF ReadEndpoint, AtEndpoint, CommitsOwned
  <2>2. \A code \in {200, 500} : MaySay(r, "read", NoVersion, code)
    BY <2>1 DEF MaySay
  <2>3. CASE AppendThen(r, "read", NoVersion, 200)
    <3>1. "read" \in Outcomes /\ NoVersion \in Versions /\ 200 \in Recorded
      BY DEF Outcomes, Versions, Recorded
    <3>2. req[r].phase \in {"endpoint", "audit"} /\ MaySay(r, "read", NoVersion, 200)
      BY <2>1, <2>2
    <3> QED
      BY <2>1, <2>3, <3>1, <3>2, AppendKinds
  <2>4. CASE tail = "open" /\ Glues(r) /\ Answer(r, 500)
    <3>1. "read" \in Outcomes /\ NoVersion \in Versions /\ 500 \in Codes \ {0}
      BY DEF Outcomes, Versions, Codes
    <3> QED
      BY <2>1, <2>2, <2>4, <3>1 DEF Records, catalogVars
  <2> QED
    BY <1>7, <2>3, <2>4 DEF ReadEndpoint
<1>8. ASSUME NEW r \in Request, EndpointRaises(r) PROVE Quiet
  <2>1. /\ req[r].phase \in {"endpoint", "commit"} /\ Answer(r, 500)
        /\ UNCHANGED <<version, foreign, commits, log, glued, tail>>
    BY <1>8 DEF EndpointRaises, AtEndpoint, catalogVars, fileVars
  <2> QED
    BY <2>1, AnswerIsQuiet DEF Codes, Recorded
<1>9. CASE Tick \/ OtherReads \/ UNCHANGED controlVars
  BY <1>1, <1>9 DEF Tick, OtherReads, controlVars, catalogVars, fileVars
<1> QED
  BY <1>2, <1>3, <1>4, <1>5, <1>6, <1>7, <1>8, <1>9 DEF ControlNext

-----------------------------------------------------------------------------
(* The requests and their commits.                                         *)

(* Requests that go on leave the one that holds the loop as it is. *)
LEMMA CommitsOfMoves ==
  ASSUME CommitsOwned, UNCHANGED <<version, foreign, commits>>,
         \A s \in Request : Moves(s)
  PROVE  CommitsOwned'
<1>1. ASSUME NEW s \in Request
      PROVE  /\ req'[s].phase = "done" <=> req'[s].code # 0
             /\ req'[s].phase \in Early => req'[s].next = NoVersion /\ s \notin commits'
             /\ req'[s].phase \in Holding => req'[s] = req[s]
             /\ req'[s].before <= foreign'
  <2>1. Moves(s)
    OBVIOUS
  <2>2. CASE req'[s] = req[s]
    BY <2>2 DEF CommitsOwned, Early
  <2>3. CASE req'[s] # req[s]
    BY <2>1, <2>3 DEF CommitsOwned, Moves, Early
  <2> QED
    BY <2>2, <2>3
<1>2. ASSUME NEW s \in Request
      PROVE  /\ req'[s].phase \in Holding => req'[s].next # NoVersion
             /\ req'[s].phase = "commit" /\ req'[s].before = foreign' =>
                    req'[s].next = version' + 1
             /\ req'[s].phase = "audit" =>
                    /\ s \in commits'
                    /\ req'[s].before = foreign' => req'[s].next = version'
  BY <1>1 DEF CommitsOwned, Holding
<1>3. \A q, s \in Request : req'[q].phase \in Holding /\ req'[s].phase \in Holding => q = s
  BY <1>1 DEF CommitsOwned, Holding
<1> QED
  BY <1>1, <1>2, <1>3 DEF CommitsOwned, Early, Holding

(* Whatever is written, an import finds what it read or wrote, unless      *)
(* another process has written. *)
LEMMA CommitsStep ==
  ASSUME ControlTypeOK, CommitsOwned, [ControlNext]_controlVars
  PROVE  CommitsOwned'
<1>0. /\ req \in [Request -> Requests] /\ version \in 0..MaxVersion /\ foreign \in 0..MaxForeign
      /\ \A s \in Request : req[s].before \in 0..MaxForeign /\ req[s].next \in Nexts
  <2>1. /\ req \in [Request -> Requests] /\ version \in 0..MaxVersion
        /\ foreign \in 0..MaxForeign
    BY TypesNamed
  <2> QED
    BY <2>1 DEF Requests
<1>1. CASE Quiet
  BY <1>1, CommitsOfMoves DEF Quiet
<1>2. ASSUME NEW r \in Request, Records(r) PROVE CommitsOwned'
  <2>1. PICK code \in Codes \ {0} :
            /\ UNCHANGED <<version, foreign, commits>>
            /\ req[r].phase \in {"endpoint", "audit"} /\ Answer(r, code)
    BY <1>2 DEF Records
  <2>2. \A s \in Request : Moves(s)
    BY <2>1, AnswerIsMove
  <2> QED
    BY <2>1, <2>2, CommitsOfMoves
<1>3. CASE OtherWrites
  <2>1. foreign' = foreign + 1 /\ req' = req /\ commits' = commits
    BY <1>3 DEF OtherWrites
  <2>2. \A s \in Request : req[s].before <= foreign' /\ req[s].before # foreign'
    BY <1>0, <2>1 DEF CommitsOwned
  <2> QED
    BY <2>1, <2>2 DEF CommitsOwned
<1>4. ASSUME NEW r \in Request, ImportReads(r) PROVE CommitsOwned'
  <2>1. /\ req'[r].phase = "commit" /\ req'[r].next = version + 1 /\ req'[r].before = foreign
        /\ req'[r].code = req[r].code /\ version + 1 \in Nexts
        /\ \A s \in Request : s # r => req'[s] = req[s]
    BY <1>4, ReadMoves
  <2>2. /\ req[r].phase = "endpoint" /\ UNCHANGED <<version, foreign, commits>>
        /\ \A s \in Request : req[s].phase \notin Holding
    BY <1>4 DEF ImportReads, AtEndpoint, LoopFree, Holding, catalogVars
  <2>3. version + 1 # NoVersion
    BY <1>0, ControlAssumption
  <2>4. \A s \in Request : s # r =>
            /\ req'[s].phase = "done" <=> req'[s].code # 0
            /\ req'[s].phase \in Early => req'[s].next = NoVersion /\ s \notin commits'
            /\ req'[s].phase \notin Holding /\ req'[s].before <= foreign'
    BY <2>1, <2>2 DEF CommitsOwned, Early
  <2>5. /\ req'[r].phase = "done" <=> req'[r].code # 0
        /\ req'[r].before <= foreign'
    BY <1>0, <2>1, <2>2 DEF CommitsOwned
  <2> QED
    BY <2>1, <2>2, <2>3, <2>4, <2>5 DEF CommitsOwned, Early, Holding
<1>5. ASSUME NEW r \in Request, ImportCommits(r) PROVE CommitsOwned'
  <2>0. "audit" \in Phases
    BY DEF Phases
  <2>1. /\ req'[r].phase = "audit" /\ req'[r].next = req[r].next
        /\ req'[r].before = req[r].before /\ req'[r].code = req[r].code
        /\ \A s \in Request : s # r => req'[s] = req[s]
    BY <1>0, <1>5, <2>0, MovesPhase DEF ImportCommits
  <2>2. /\ req[r].phase = "commit" /\ version' = req[r].next /\ foreign' = foreign
        /\ commits' = commits \cup {r}
    BY <1>5 DEF ImportCommits
  <2>3. \A s \in Request : s # r => req[s].phase \notin Holding
    BY <2>2 DEF CommitsOwned, Holding
  <2>4. \A s \in Request : s # r =>
            /\ req'[s].phase = "done" <=> req'[s].code # 0
            /\ req'[s].phase \in Early => req'[s].next = NoVersion /\ s \notin commits'
            /\ req'[s].phase \notin Holding /\ req'[s].before <= foreign'
    BY <2>1, <2>2, <2>3 DEF CommitsOwned, Early
  <2>5. /\ req'[r].phase = "done" <=> req'[r].code # 0
        /\ req'[r].before <= foreign' /\ req'[r].next # NoVersion
        /\ r \in commits' /\ req'[r].next = version'
    BY <2>1, <2>2 DEF CommitsOwned
  <2> QED
    BY <2>1, <2>4, <2>5 DEF CommitsOwned, Early, Holding
<1> QED
  BY <1>1, <1>2, <1>3, <1>4, <1>5, StepKinds

-----------------------------------------------------------------------------
(* The events and the answers.                                             *)

(* Tells, of given requests and a given catalog. *)
TellsOf(q, v, f, c, e) ==
    /\ q[e.req].phase = "done"
    /\ e.outcome = "success" =>
           /\ e.req \in c /\ e.version \in 0..MaxVersion
           /\ q[e.req].before <= e.by /\ e.by <= f
           /\ e.by = q[e.req].before => e.version = q[e.req].next
           /\ f = q[e.req].before => e.version <= v
           /\ \A s \in Request :
                  /\ q[s].phase \in Holding => e.by <= q[s].before
                  /\ q[s].phase = "audit" /\ f = q[e.req].before => e.version < v
    /\ q[e.req].code \in {400, 409} => e.outcome = "failure"
    /\ q[e.req].code = 200 /\ e.req \in c => e.outcome = "success"

(* A later success has a later version, if no other process has written.   *)
InOrder(q, d, e) ==
    d.outcome = "success" /\ e.outcome = "success" /\ e.by = q[d.req].before
    => d.version < e.version

(* The events' part of the invariant, with its parts by name. *)
LEMMA EventsNamed ==
  EventsTell <=> /\ log \in Seq(Events)
                 /\ \A i \in 1..Len(log) : TellsOf(req, version, foreign, commits, log[i])
                 /\ \A i, j \in 1..Len(log) : log[i].req = log[j].req => i = j
                 /\ \A i, j \in 1..Len(log) : i < j => InOrder(req, log[i], log[j])
                 /\ \A r \in Request :
                        req[r].code \in Recorded =>
                            r \in glued \/ \E i \in 1..Len(log) : log[i].req = r
  BY DEF EventsTell, Events, Outcomes, Versions, Tells, TellsOf, InOrder, Holding

(* The same after a step. *)
LEMMA EventsNamedNext ==
  ASSUME log' \in Seq(Events),
         \A i \in 1..Len(log') : TellsOf(req', version', foreign', commits', log'[i]),
         \A i, j \in 1..Len(log') : log'[i].req = log'[j].req => i = j,
         \A i, j \in 1..Len(log') : i < j => InOrder(req', log'[i], log'[j]),
         \A r \in Request :
             req'[r].code \in Recorded =>
                 r \in glued' \/ \E i \in 1..Len(log') : log'[i].req = r
  PROVE  EventsTell'
  BY DEF EventsTell, Events, Outcomes, Versions, Tells, TellsOf, InOrder, Holding

(* The events that are in the log. *)
LEMMA Logged ==
  ASSUME EventsTell, NEW i \in 1..Len(log)
  PROVE  /\ log[i] \in Events /\ log[i].req \in Request /\ log[i].by \in 0..MaxForeign
         /\ TellsOf(req, version, foreign, commits, log[i])
         /\ req[log[i].req].phase = "done"
<1>1. log \in Seq(Events) /\ TellsOf(req, version, foreign, commits, log[i])
  BY EventsNamed
<1>2. log[i] \in Events
  BY <1>1
<1> QED
  BY <1>1, <1>2 DEF Events, TellsOf

(* A step that leaves the log, and what has been answered, as it is. *)
LEMMA EventsSame ==
  ASSUME EventsTell, log' = log, glued' = glued,
         \A s \in Request : req[s].phase = "done" => req'[s] = req[s],
         \A s \in Request : req'[s] = req[s] \/ req'[s].code \notin Recorded,
         \A i \in 1..Len(log) : TellsOf(req', version', foreign', commits', log[i])
  PROVE  EventsTell'
<1>1. /\ log \in Seq(Events)
      /\ \A i, j \in 1..Len(log) : log[i].req = log[j].req => i = j
      /\ \A i, j \in 1..Len(log) : i < j => InOrder(req, log[i], log[j])
      /\ \A r \in Request :
             req[r].code \in Recorded =>
                 r \in glued \/ \E i \in 1..Len(log) : log[i].req = r
  BY EventsNamed
<1>2. \A i \in 1..Len(log) : req'[log[i].req] = req[log[i].req]
  BY Logged
<1>3. \A i, j \in 1..Len(log) : i < j => InOrder(req', log[i], log[j])
  BY <1>1, <1>2 DEF InOrder
<1>4. \A r \in Request :
          req'[r].code \in Recorded =>
              r \in glued' \/ \E i \in 1..Len(log) : log[i].req = r
  BY <1>1
<1> QED
  BY <1>1, <1>3, <1>4, EventsNamedNext

(* What an event tells stays true when requests go on. *)
LEMMA TellsOfMoves ==
  ASSUME NEW e, e.req \in Request, TellsOf(req, version, foreign, commits, e),
         \A s \in Request : Moves(s)
  PROVE  TellsOf(req', version, foreign, commits, e)
<1>1. req'[e.req] = req[e.req]
  BY DEF Moves, TellsOf
<1>2. \A s \in Request : req'[s].phase \in Holding => req'[s] = req[s]
  BY DEF Moves
<1>3. "audit" \in Holding
  BY DEF Holding
<1> QED
  BY <1>1, <1>2, <1>3 DEF TellsOf

(* And when another process writes, whatever it writes. *)
LEMMA TellsOfForeign ==
  ASSUME NEW e, e.by \in Int, foreign \in Int, req[e.req].before \in Int,
         TellsOf(req, version, foreign, commits, e), NEW v
  PROVE  TellsOf(req, v, foreign + 1, commits, e)
<1>1. e.outcome = "success" => req[e.req].before <= e.by /\ e.by <= foreign
  BY DEF TellsOf
<1>2. e.outcome = "success" => e.by <= foreign + 1 /\ foreign + 1 # req[e.req].before
  BY <1>1
<1> QED
  BY <1>2 DEF TellsOf

(* And when an import reads the version. *)
LEMMA TellsOfRead ==
  ASSUME NEW e, e.req \in Request, TellsOf(req, version, foreign, commits, e),
         NEW r \in Request, req[r].phase # "done",
         req'[r].phase = "commit", req'[r].before = foreign,
         \A s \in Request : s # r => req'[s] = req[s]
  PROVE  TellsOf(req', version, foreign, commits, e)
<1>1. e.req # r /\ req'[e.req] = req[e.req]
  BY DEF TellsOf
<1>2. ASSUME e.outcome = "success", NEW s \in Request
      PROVE  /\ req'[s].phase \in Holding => e.by <= req'[s].before
             /\ req'[s].phase = "audit" /\ foreign = req[e.req].before => e.version < version
  <2>1. CASE s = r
    BY <1>2, <2>1 DEF TellsOf
  <2>2. CASE s # r
    BY <1>2, <2>2 DEF TellsOf
  <2> QED
    BY <2>1, <2>2
<1> QED
  BY <1>1, <1>2 DEF TellsOf

(* And when it writes the next one. *)
LEMMA TellsOfCommit ==
  ASSUME ControlTypeOK, CommitsOwned, NEW e \in Events, 
         TellsOf(req, version, foreign, commits, e),
         NEW r \in Request, req[r].phase = "commit",
         req'[r].phase = "audit", req'[r].before = req[r].before,
         \A s \in Request : s # r => req'[s] = req[s]
  PROVE  TellsOf(req', req[r].next, foreign, commits \cup {r}, e)
<1>0. /\ e.req \in Request /\ e.by \in 0..MaxForeign
      /\ version \in 0..MaxVersion /\ foreign \in 0..MaxForeign
      /\ req[r].before \in 0..MaxForeign /\ req[e.req].before \in 0..MaxForeign
  <2>1. /\ req \in [Request -> Requests] /\ version \in 0..MaxVersion
        /\ foreign \in 0..MaxForeign
    BY TypesNamed
  <2> QED
    BY <2>1 DEF Events, Requests
<1>1. e.req # r /\ req'[e.req] = req[e.req]
  BY <1>0 DEF TellsOf
<1>2. ASSUME e.outcome = "success"
      PROVE  /\ e.version \in 0..MaxVersion
             /\ req[e.req].before <= e.by /\ e.by <= foreign /\ e.by <= req[r].before
             /\ foreign = req[e.req].before => e.version < req[r].next
  <2>1. /\ e.version \in 0..MaxVersion
        /\ req[e.req].before <= e.by /\ e.by <= foreign /\ e.by <= req[r].before
        /\ foreign = req[e.req].before => e.version <= version
    BY <1>2 DEF TellsOf, Holding
  <2>2. /\ req[r].before <= foreign
        /\ req[r].before = foreign => req[r].next = version + 1
    BY DEF CommitsOwned
  <2> QED
    BY <1>0, <2>1, <2>2
<1>3. \A s \in Request : s # r => req'[s].phase \notin Holding
  BY DEF CommitsOwned, Holding
<1>4. e.outcome = "success" =>
          (foreign = req[e.req].before => e.version <= req[r].next)
  <2>1. foreign = req[e.req].before /\ e.outcome = "success" => req[r].next = version + 1
    <3>1. req[r].before <= foreign /\ (req[r].before = foreign => req[r].next = version + 1)
      BY DEF CommitsOwned
    <3> QED
      BY <1>0, <1>2, <3>1
  <2> QED
    BY <1>0, <1>2, <2>1
<1>5. "audit" \in Holding
  BY DEF Holding
<1>6. ASSUME e.outcome = "success", NEW s \in Request
      PROVE  /\ req'[s].phase \in Holding => e.by <= req'[s].before
             /\ req'[s].phase = "audit" /\ foreign = req[e.req].before =>
                    e.version < req[r].next
  <2>1. CASE s = r
    BY <1>2, <1>6, <2>1
  <2>2. CASE s # r
    BY <1>3, <1>5, <2>2
  <2> QED
    BY <2>1, <2>2
<1> QED
  BY <1>1, <1>2, <1>4, <1>6 DEF TellsOf

(* The event of an answer tells what became of the request. *)
LEMMA TellsOfNew ==
  ASSUME ControlTypeOK, CommitsOwned, NEW r \in Request,
         req[r].phase \in {"endpoint", "audit"},
         NEW outcome, NEW v, NEW code \in Codes \ {0}, Answer(r, code),
         MaySay(r, outcome, v, code)
  PROVE  TellsOf(req', version, foreign, commits, Event(r, outcome, v))
<1> DEFINE e == Event(r, outcome, v)
<1>1. e.req = r /\ e.outcome = outcome /\ e.version = v /\ e.by = foreign
  BY DEF Event
<1> HIDE DEF e
<1>2. /\ req'[r].phase = "done" /\ req'[r].code = code
      /\ req'[r].next = req[r].next /\ req'[r].before = req[r].before
      /\ \A s \in Request : s # r => req'[s] = req[s]
  BY AnswerMoves
<1>3. version \in 0..MaxVersion /\ foreign \in 0..MaxForeign
  BY TypesNamed
<1>4. outcome = "success" =>
          /\ r \in commits /\ v = version /\ req[r].before <= foreign
          /\ foreign = req[r].before => v = req[r].next
          /\ \A s \in Request : req'[s].phase \notin Holding
  <2>1. ASSUME outcome = "success" PROVE req[r].phase = "audit" /\ v = version
    BY <2>1 DEF MaySay
  <2>2. ASSUME outcome = "success" PROVE \A s \in Request : s # r => req[s].phase \notin Holding
    BY <2>1, <2>2 DEF CommitsOwned, Holding
  <2>3. "done" \notin Holding
    BY DEF Holding
  <2> QED
    BY <1>2, <2>1, <2>2, <2>3 DEF CommitsOwned
<1>5. "audit" \in Holding
  BY DEF Holding
<1>6. /\ code \in {400, 409} => outcome = "failure"
      /\ code = 200 /\ r \in commits => outcome = "success"
  BY DEF MaySay
<1>7. TellsOf(req', version, foreign, commits, e)
  BY <1>1, <1>2, <1>3, <1>4, <1>5, <1>6 DEF TellsOf
<1> QED
  BY <1>7 DEF e

(* The event is added at the end of the log. *)
LEMMA EventsAppended ==
  ASSUME ControlTypeOK, CommitsOwned, EventsTell,
         NEW r \in Request, req[r].phase \in {"endpoint", "audit"},
         NEW outcome \in Outcomes, NEW v \in Versions, NEW code \in Codes \ {0},
         Answer(r, code), MaySay(r, outcome, v, code),
         UNCHANGED <<version, foreign, commits>>, glued' = glued,
         log' = Append(log, Event(r, outcome, v))
  PROVE  EventsTell'
<1> DEFINE e == Event(r, outcome, v)
<1>0. foreign \in 0..MaxForeign /\ req[r].phase # "done"
  BY TypesNamed
<1>1. /\ log \in Seq(Events)
      /\ \A i, j \in 1..Len(log) : log[i].req = log[j].req => i = j
      /\ \A i, j \in 1..Len(log) : i < j => InOrder(req, log[i], log[j])
      /\ \A s \in Request :
             req[s].code \in Recorded =>
                 s \in glued \/ \E i \in 1..Len(log) : log[i].req = s
  BY EventsNamed
<1>2. \A s \in Request : Moves(s) /\ (s # r => req'[s] = req[s])
  BY <1>0, AnswerIsMove
<1>3. /\ e \in Events /\ e.req = r /\ e.outcome = outcome /\ e.version = v /\ e.by = foreign
      /\ TellsOf(req', version, foreign, commits, e)
  BY <1>0, TellsOfNew DEF Event, Events
<1>4. outcome = "success" => req[r].phase = "audit" /\ v = version
  BY DEF MaySay
<1>5. log' = Append(log, e)
  OBVIOUS
<1> HIDE DEF e
<1>6. /\ log' \in Seq(Events) /\ Len(log') = Len(log) + 1 /\ log'[Len(log) + 1] = e
      /\ \A i \in 1..Len(log) : log'[i] = log[i]
  BY <1>1, <1>3, <1>5
<1>7. Len(log) \in Nat /\ \A i \in 1..Len(log') : i \in 1..Len(log) \/ i = Len(log) + 1
  BY <1>1, <1>6
<1>8. ASSUME NEW i \in 1..Len(log)
      PROVE  /\ log'[i] = log[i] /\ log[i].req # r /\ req'[log[i].req] = req[log[i].req]
             /\ TellsOf(req', version, foreign, commits, log[i])
             /\ InOrder(req', log[i], e)
  <2>1. /\ log[i] \in Events /\ log[i].req \in Request /\ log[i].by \in 0..MaxForeign
        /\ TellsOf(req, version, foreign, commits, log[i])
        /\ req[log[i].req].phase = "done"
    BY Logged
  <2>2. log[i].req # r /\ req'[log[i].req] = req[log[i].req]
    BY <1>0, <1>2, <2>1
  <2>3. TellsOf(req', version, foreign, commits, log[i])
    BY <1>2, <2>1, TellsOfMoves
  <2>4. InOrder(req', log[i], e)
    BY <1>3, <1>4, <2>1, <2>2 DEF InOrder, TellsOf
  <2> QED
    BY <1>6, <2>2, <2>3, <2>4
<1>9. \A i \in 1..Len(log') : TellsOf(req', version', foreign', commits', log'[i])
  BY <1>3, <1>6, <1>7, <1>8
<1>10. \A i, j \in 1..Len(log') : log'[i].req = log'[j].req => i = j
  <2> SUFFICES ASSUME NEW i \in 1..Len(log'), NEW j \in 1..Len(log'),
                      log'[i].req = log'[j].req
               PROVE  i = j
    OBVIOUS
  <2>1. CASE i \in 1..Len(log) /\ j \in 1..Len(log)
    BY <1>1, <1>6, <2>1
  <2>2. CASE i \in 1..Len(log) /\ j = Len(log) + 1
    BY <1>3, <1>6, <1>8, <2>2
  <2>3. CASE i = Len(log) + 1 /\ j \in 1..Len(log)
    BY <1>3, <1>6, <1>8, <2>3
  <2> QED
    BY <1>7, <2>1, <2>2, <2>3
<1>11. \A i, j \in 1..Len(log') : i < j => InOrder(req', log'[i], log'[j])
  <2> SUFFICES ASSUME NEW i \in 1..Len(log'), NEW j \in 1..Len(log'), i < j
               PROVE  InOrder(req', log'[i], log'[j])
    OBVIOUS
  <2>1. i \in 1..Len(log)
    BY <1>6, <1>7
  <2>2. CASE j \in 1..Len(log)
    <3>1. InOrder(req, log[i], log[j]) /\ req'[log[i].req] = req[log[i].req]
      BY <1>1, <1>8, <2>1, <2>2
    <3> QED
      BY <1>6, <2>1, <2>2, <3>1 DEF InOrder
  <2>3. CASE j = Len(log) + 1
    BY <1>6, <1>8, <2>1, <2>3
  <2> QED
    BY <1>7, <2>2, <2>3
<1>12. ASSUME NEW s \in Request, req'[s].code \in Recorded
       PROVE  s \in glued' \/ \E i \in 1..Len(log') : log'[i].req = s
  <2>1. CASE s = r
    <3>1. Len(log) + 1 \in 1..Len(log') /\ log'[Len(log) + 1].req = s
      BY <1>3, <1>6, <1>7, <2>1
    <3> QED
      BY <3>1
  <2>2. CASE s # r /\ s \notin glued
    <3>1. PICK i \in 1..Len(log) : log[i].req = s
      BY <1>1, <1>2, <1>12, <2>2
    <3>2. i \in 1..Len(log') /\ log'[i].req = s
      BY <1>6, <1>7, <3>1
    <3> QED
      BY <3>2
  <2> QED
    BY <2>1, <2>2
<1> QED
  BY <1>6, <1>9, <1>10, <1>11, <1>12, EventsNamedNext

(* The event is glued to the last one, which was that of a request whose   *)
(* write has failed. *)
LEMMA EventsGlued ==
  ASSUME ControlTypeOK, EventsTell, FileOK,
         NEW r \in Request, req[r].phase # "done",
         NEW code \in Codes \ {0}, Answer(r, code),
         UNCHANGED <<version, foreign, commits>>, tail = "open", Glues(r)
  PROVE  /\ EventsTell'
         /\ \E s \in Request : glued' = {s, r} /\ req'[s].code = 500 /\ req'[s].phase = "done"
<1>1. /\ log \in Seq(Events)
      /\ \A i, j \in 1..Len(log) : log[i].req = log[j].req => i = j
      /\ \A i, j \in 1..Len(log) : i < j => InOrder(req, log[i], log[j])
      /\ \A s \in Request :
             req[s].code \in Recorded =>
                 s \in glued \/ \E i \in 1..Len(log) : log[i].req = s
  BY EventsNamed
<1>2. \A s \in Request : Moves(s) /\ (s # r => req'[s] = req[s])
  BY AnswerIsMove
<1>3. glued = {} /\ log # <<>> /\ req[Last(log).req].code = 500 /\ Last(log) = log[Len(log)]
  BY DEF FileOK, Last
<1> DEFINE n == Len(log)
<1>4. n \in Nat /\ n \in 1..Len(log)
  BY <1>1, <1>3
<1>5. log' = SubSeq(log, 1, n - 1) /\ glued' = {log[n].req, r}
  BY <1>3 DEF Glues, Front
<1> HIDE DEF n
<1>6. /\ log' \in Seq(Events) /\ Len(log') = n - 1
      /\ \A i \in 1..n - 1 : log'[i] = log[i] /\ i \in 1..Len(log)
  BY <1>1, <1>4, <1>5
<1>7. ASSUME NEW i \in 1..Len(log)
      PROVE  /\ req'[log[i].req] = req[log[i].req]
             /\ TellsOf(req', version, foreign, commits, log[i])
  <2>1. /\ log[i].req \in Request /\ TellsOf(req, version, foreign, commits, log[i])
        /\ req[log[i].req].phase = "done"
    BY Logged
  <2>2. TellsOf(req', version, foreign, commits, log[i])
    BY <1>2, <2>1, TellsOfMoves
  <2> QED
    BY <1>2, <2>1, <2>2
<1>8. \A i \in 1..Len(log') : TellsOf(req', version', foreign', commits', log'[i])
  BY <1>6, <1>7
<1>9. \A i, j \in 1..Len(log') : log'[i].req = log'[j].req => i = j
  BY <1>1, <1>6
<1>10. \A i, j \in 1..Len(log') : i < j => InOrder(req', log'[i], log'[j])
  BY <1>1, <1>6, <1>7 DEF InOrder
<1>11. ASSUME NEW s \in Request, req'[s].code \in Recorded
       PROVE  s \in glued' \/ \E i \in 1..Len(log') : log'[i].req = s
  <2>1. CASE s = r
    BY <1>5, <2>1
  <2>2. CASE s # r
    <3>1. PICK i \in 1..Len(log) : log[i].req = s
      BY <1>1, <1>2, <1>3, <1>11, <2>2
    <3>2. i # n \/ s \in glued'
      BY <1>5, <3>1
    <3>3. i # n => i \in 1..Len(log') /\ log'[i].req = s
      BY <1>4, <1>6, <3>1 DEF n
    <3> QED
      BY <3>2, <3>3
  <2> QED
    BY <2>1, <2>2
<1>12. EventsTell'
  BY <1>6, <1>8, <1>9, <1>10, <1>11, EventsNamedNext
<1>13. /\ log[n].req \in Request /\ req'[log[n].req] = req[log[n].req]
       /\ req[log[n].req].phase = "done"
  BY <1>4, <1>7, Logged
<1> QED
  BY <1>3, <1>5, <1>12, <1>13 DEF n

(* Each kind of step keeps what the events tell. *)
LEMMA EventsStep ==
  ASSUME ControlTypeOK, CommitsOwned, EventsTell, FileOK, [ControlNext]_controlVars
  PROVE  EventsTell'
<1>0. /\ req \in [Request -> Requests] /\ foreign \in 0..MaxForeign
      /\ \A s \in Request : req[s].before \in 0..MaxForeign
      /\ \A s \in Request : req[s].phase # "done" => req[s].code = 0
  <2>1. req \in [Request -> Requests] /\ foreign \in 0..MaxForeign
    BY TypesNamed
  <2> QED
    BY <2>1 DEF Requests, CommitsOwned
<1>1. CASE Quiet
  <2>1. /\ UNCHANGED <<version, foreign, commits, log, glued>>
        /\ \A s \in Request : Moves(s) /\ (req'[s] = req[s] \/ req'[s].code \notin Recorded)
    BY <1>1 DEF Quiet
  <2>2. \A i \in 1..Len(log) : TellsOf(req', version, foreign, commits, log[i])
    BY <2>1, Logged, TellsOfMoves
  <2>3. \A s \in Request : req[s].phase = "done" => req'[s] = req[s]
    BY <2>1 DEF Moves
  <2> QED
    BY <2>1, <2>2, <2>3, EventsSame
<1>2. CASE OtherWrites
  <2>1. /\ foreign' = foreign + 1 /\ UNCHANGED <<req, commits, log, glued>>
    BY <1>2 DEF OtherWrites, fileVars
  <2>2. \A i \in 1..Len(log) : TellsOf(req, version', foreign + 1, commits, log[i])
    <3> SUFFICES ASSUME NEW i \in 1..Len(log)
                 PROVE  TellsOf(req, version', foreign + 1, commits, log[i])
      OBVIOUS
    <3>1. /\ log[i].req \in Request /\ log[i].by \in 0..MaxForeign
          /\ TellsOf(req, version, foreign, commits, log[i])
      BY Logged
    <3>2. log[i].by \in Int /\ foreign \in Int /\ req[log[i].req].before \in Int
      BY <1>0, <3>1, ControlAssumption
    <3> QED
      BY <3>1, <3>2, TellsOfForeign
  <2> QED
    BY <2>1, <2>2, EventsSame
<1>3. ASSUME NEW r \in Request, ImportReads(r) PROVE EventsTell'
  <2>1. /\ req'[r].phase = "commit" /\ req'[r].before = foreign /\ req'[r].code = req[r].code
        /\ \A s \in Request : s # r => req'[s] = req[s]
    BY <1>3, ReadMoves
  <2>2. /\ req[r].phase = "endpoint"
        /\ UNCHANGED <<version, foreign, commits, log, glued>>
    BY <1>3 DEF ImportReads, AtEndpoint, catalogVars, fileVars
  <2>3. \A i \in 1..Len(log) : TellsOf(req', version, foreign, commits, log[i])
    BY <2>1, <2>2, Logged, TellsOfRead
  <2>4. req'[r].code \notin Recorded
    BY <1>0, <2>1, <2>2 DEF Recorded
  <2> QED
    BY <2>1, <2>2, <2>3, <2>4, EventsSame
<1>4. ASSUME NEW r \in Request, ImportCommits(r) PROVE EventsTell'
  <2>0. "audit" \in Phases
    BY DEF Phases
  <2>1. /\ req'[r].phase = "audit" /\ req'[r].before = req[r].before
        /\ req'[r].code = req[r].code
        /\ \A s \in Request : s # r => req'[s] = req[s]
    BY <1>0, <1>4, <2>0, MovesPhase DEF ImportCommits
  <2>2. /\ req[r].phase = "commit" /\ version' = req[r].next /\ foreign' = foreign
        /\ commits' = commits \cup {r} /\ log' = log /\ glued' = glued
    BY <1>4 DEF ImportCommits, fileVars
  <2>3. \A i \in 1..Len(log) : TellsOf(req', req[r].next, foreign, commits \cup {r}, log[i])
    BY <2>1, <2>2, Logged, TellsOfCommit
  <2>4. req'[r].code \notin Recorded
    BY <1>0, <2>1, <2>2 DEF Recorded
  <2> QED
    BY <2>1, <2>2, <2>3, <2>4, EventsSame
<1>5. ASSUME NEW r \in Request, Records(r) PROVE EventsTell'
  <2>1. PICK outcome \in Outcomes, v \in Versions, code \in Codes \ {0} :
            /\ UNCHANGED <<version, foreign, commits>>
            /\ req[r].phase \in {"endpoint", "audit"} /\ Answer(r, code)
            /\ MaySay(r, outcome, v, code)
            /\ \/ log' = Append(log, Event(r, outcome, v)) /\ glued' = glued
               \/ tail = "open" /\ Glues(r)
    BY <1>5 DEF Records
  <2>2. req[r].phase # "done"
    BY <2>1
  <2> QED
    BY <2>1, <2>2, EventsAppended, EventsGlued
<1> QED
  BY <1>1, <1>2, <1>3, <1>4, <1>5, StepKinds

(* And the state of the file. *)
LEMMA FileStep ==
  ASSUME ControlTypeOK, CommitsOwned, EventsTell, FileOK, [ControlNext]_controlVars
  PROVE  FileOK'
<1>1. ASSUME log' = log, glued' = glued, tail' \in {tail, "broken"},
             \A s \in Request : req[s].phase = "done" => req'[s] = req[s]
      PROVE  FileOK'
  <2>1. glued \in SUBSET Request
    BY TypesNamed
  <2>2. \A s \in glued : req[s].phase = "done" /\ req'[s] = req[s]
    BY <1>1, <2>1 DEF FileOK
  <2>3. tail = "open" => log # <<>> /\ req'[Last(log).req].code = 500
    <3>1. ASSUME tail = "open" PROVE log # <<>> /\ req'[Last(log).req].code = 500
      <4>1. log # <<>> /\ req[Last(log).req].code = 500 /\ log \in Seq(Events)
        BY <3>1, EventsNamed DEF FileOK
      <4>2. Len(log) \in 1..Len(log) /\ Last(log) = log[Len(log)]
        BY <4>1 DEF Last
      <4>3. req'[Last(log).req] = req[Last(log).req]
        BY <1>1, <4>2, Logged
      <4> QED
        BY <4>1, <4>3
    <3> QED
      BY <3>1
  <2> QED
    BY <1>1, <2>2, <2>3 DEF FileOK
<1>2. CASE Quiet
  BY <1>1, <1>2 DEF Quiet, Moves
<1>3. CASE OtherWrites
  BY <1>1, <1>3 DEF OtherWrites, fileVars
<1>4. ASSUME NEW r \in Request, ImportReads(r) PROVE FileOK'
  <2>1. /\ req[r].phase = "endpoint" /\ UNCHANGED <<log, glued, tail>>
    BY <1>4 DEF ImportReads, AtEndpoint, fileVars
  <2> QED
    BY <1>1, <1>4, <2>1, ReadMoves
<1>5. ASSUME NEW r \in Request, ImportCommits(r) PROVE FileOK'
  <2>1. /\ req[r].phase = "commit" /\ UNCHANGED <<log, glued, tail>>
        /\ req' = [req EXCEPT ![r].phase = "audit"]
    BY <1>5 DEF ImportCommits, fileVars
  <2>2. \A s \in Request : s # r => req'[s] = req[s]
    BY <2>1, TypesNamed
  <2> QED
    BY <1>1, <2>1, <2>2
<1>6. ASSUME NEW r \in Request, Records(r) PROVE FileOK'
  <2>1. PICK outcome \in Outcomes, v \in Versions, code \in Codes \ {0} :
            /\ UNCHANGED <<version, foreign, commits>>
            /\ req[r].phase \in {"endpoint", "audit"} /\ Answer(r, code)
            /\ MaySay(r, outcome, v, code)
            /\ \/ /\ log' = Append(log, Event(r, outcome, v)) /\ glued' = glued
                  /\ tail = "ended" /\ (tail' = "ended" \/ (tail' = "open" /\ code = 500))
               \/ tail = "open" /\ Glues(r)
    BY <1>6 DEF Records
  <2>2. /\ req'[r].phase = "done" /\ req'[r].code = code /\ req[r].phase # "done"
        /\ \A s \in Request : s # r => req'[s] = req[s]
    BY <2>1, AnswerIsMove
  <2>3. CASE /\ log' = Append(log, Event(r, outcome, v)) /\ glued' = glued
             /\ tail = "ended" /\ (tail' = "ended" \/ (tail' = "open" /\ code = 500))
    <3>1. glued = {}
      BY <2>3 DEF FileOK
    <3>2. log \in Seq(Events) /\ Event(r, outcome, v).req = r
      BY EventsNamed DEF Event
    <3>3. log' # <<>> /\ Last(log') = Event(r, outcome, v)
      <4> DEFINE e == Event(r, outcome, v)
      <4>1. log' = Append(log, e)
        BY <2>3
      <4> HIDE DEF e
      <4>2. Len(log') = Len(log) + 1 /\ log'[Len(log) + 1] = e /\ Len(log) \in Nat
        BY <3>2, <4>1
      <4>3. log' # <<>> /\ Last(log') = e
        BY <4>2 DEF Last
      <4> QED
        BY <4>3 DEF e
    <3>4. tail' = "open" => req'[Last(log').req].code = 500
      BY <2>2, <2>3, <3>2, <3>3
    <3> QED
      BY <2>3, <3>1, <3>3, <3>4 DEF FileOK
  <2>4. CASE tail = "open" /\ Glues(r)
    <3>1. PICK s \in Request :
              glued' = {s, r} /\ req'[s].code = 500 /\ req'[s].phase = "done"
      BY <2>1, <2>2, <2>4, EventsGlued
    <3>2. tail' = "broken" /\ 500 \notin Recorded
      BY <2>4 DEF Glues, Recorded
    <3> QED
      BY <2>2, <3>1, <3>2 DEF FileOK
  <2> QED
    BY <2>1, <2>3, <2>4
<1> QED
  BY <1>2, <1>3, <1>4, <1>5, <1>6, StepKinds

-----------------------------------------------------------------------------
(* The theorems.                                                           *)

(* The inductive invariant holds at first. *)
LEMMA ControlInvariantInit == ControlInit => ControlIInv
<1> SUFFICES ASSUME ControlInit PROVE ControlIInv
  OBVIOUS
<1>1. ControlTypeOK
  BY ControlInitTypes
<1>2. \A r \in Request : req[r] = NewRequest
  BY DEF ControlInit
<1>3. BucketAccounts
  BY <1>2 DEF ControlInit, BucketAccounts, NoBucket, NewRequest
<1>4. CommitsOwned
  BY <1>2, ControlAssumption DEF ControlInit, CommitsOwned, NewRequest
<1>5. EventsTell
  BY <1>2 DEF ControlInit, EventsTell, NewRequest, Recorded
<1>6. FileOK
  BY DEF ControlInit, FileOK
<1> QED
  BY <1>1, <1>3, <1>4, <1>5, <1>6 DEF ControlIInv

(* The inductive invariant: the types, what the bucket owes to its past,   *)
(* what an import finds of the version it read and wrote, what the events  *)
(* tell of the requests and the catalog, and the state of the file.        *)
THEOREM ControlInvariant == ControlSpec => []ControlIInv
<1>1. ControlIInv /\ [ControlNext]_controlVars => ControlIInv'
  BY ControlTypeStep, BucketStep, CommitsStep, EventsStep, FileStep DEF ControlIInv
<1> QED
  BY <1>1, ControlInvariantInit, PTL DEF ControlSpec

(* The variables keep their types. *)
THEOREM TypeCorrect == ControlSpec => []ControlTypeOK
<1>1. ControlIInv => ControlTypeOK
  BY DEF ControlIInv
<1> QED
  BY <1>1, ControlInvariant, PTL

(* The limiter lets pass no more than its capacity and what the time since *)
(* the bucket was made refills, once more for the time that late threads   *)
(* set it back by (admin_security.py 72).                                  *)
THEOREM RateBoundHolds == ControlSpec => []RateBound
<1>1. ASSUME ControlTypeOK, BucketAccounts PROVE RateBound
  <2> SUFFICES ASSUME bucket.made
               PROVE  allowed <= Capacity + Refill * (now - bucket.since + setBack)
    BY DEF RateBound
  <2>1. /\ bucket.at \in Int /\ bucket.since \in Int /\ bucket.tokens \in Nat
        /\ now \in Int /\ allowed \in Nat /\ setBack \in Nat
    <3>1. bucket \in Buckets /\ now \in 0..MaxTime /\ allowed \in Nat /\ setBack \in Nat
      BY <1>1, TypesNamed
    <3> QED
      BY <3>1, ControlAssumption DEF Buckets
  <2> DEFINE past == bucket.at - bucket.since + setBack
             elapsed == now - bucket.since + setBack
  <2>2. allowed + bucket.tokens <= Capacity + Refill * past /\ bucket.at <= now
    BY <1>1 DEF BucketAccounts
  <2>3. past \in Int /\ elapsed \in Int /\ past <= elapsed
    BY <2>1, <2>2
  <2> HIDE DEF past, elapsed
  <2>4. Refill * past <= Refill * elapsed /\ Refill * past \in Int /\ Refill * elapsed \in Int
    BY <2>3, RefillGrows, ControlAssumption
  <2>5. allowed <= Capacity + Refill * elapsed
    BY <2>1, <2>2, <2>4, ControlAssumption
  <2> QED
    BY <2>5 DEF elapsed
<1>2. ControlIInv => RateBound
  BY <1>1 DEF ControlIInv
<1> QED
  BY <1>2, ControlInvariant, PTL

(* What was answered is in the log, unless a failing write left a line to  *)
(* which it was glued, and what the log says has happened, with the        *)
(* version that was committed and in the order of the commits, unless      *)
(* another process wrote in between (control_plane.py 117,                 *)
(* catalog_store.py 163).                                                  *)
THEOREM AnsweredIsAuditedHolds == ControlSpec => []AnsweredIsAudited
<1>1. ASSUME EventsTell, FileOK PROVE AnsweredIsAudited
  <2>1. /\ log \in Seq(Events)
        /\ \A i \in 1..Len(log) : TellsOf(req, version, foreign, commits, log[i])
        /\ \A i, j \in 1..Len(log) : log[i].req = log[j].req => i = j
        /\ \A i, j \in 1..Len(log) : i < j => InOrder(req, log[i], log[j])
        /\ \A r \in Request :
               req[r].code \in Recorded =>
                   r \in glued \/ \E i \in 1..Len(log) : log[i].req = r
    BY <1>1, EventsNamed
  <2>2. ASSUME NEW r \in Request, req[r].code \in Recorded, r \notin glued
        PROVE  \E i \in EventsOf(r) : EventsOf(r) = {i}
    <3>1. PICK i \in 1..Len(log) : log[i].req = r
      BY <2>1, <2>2
    <3>2. i \in EventsOf(r) /\ EventsOf(r) = {i}
      BY <2>1, <3>1 DEF EventsOf
    <3> QED
      BY <3>2
  <2>3. ASSUME NEW r \in Request, NEW i \in EventsOf(r)
        PROVE  /\ log[i].outcome = "success" =>
                      /\ r \in commits
                      /\ log[i].by = req[r].before => log[i].version = req[r].next
               /\ req[r].code \in {400, 409} => log[i].outcome = "failure"
               /\ req[r].code = 200 /\ r \in commits => log[i].outcome = "success"
    <3>1. i \in 1..Len(log) /\ log[i].req = r
      BY DEF EventsOf
    <3>2. TellsOf(req, version, foreign, commits, log[i])
      BY <2>1, <3>1
    <3> QED
      BY <3>1, <3>2 DEF TellsOf
  <2>4. /\ glued # {} => tail = "broken"
        /\ \A r, s \in glued : req[r].code \in Recorded /\ req[s].code \in Recorded => r = s
    BY <1>1 DEF FileOK
  <2> QED
    BY <2>1, <2>2, <2>3, <2>4 DEF AnsweredIsAudited, InOrder
<1>2. ControlIInv => AnsweredIsAudited
  BY <1>1 DEF ControlIInv
<1> QED
  BY <1>2, ControlInvariant, PTL
=============================================================================
