-------------------------- MODULE CatalogStore_proofs --------------------------
(***************************************************************************)
(* Proofs about CatalogStore.  The operations of one process's threads are *)
(* linearizable; the theorems assume that every thread belongs to the same *)
(* process, and MCCatalogStore_stale.cfg shows that they need to.          *)
(***************************************************************************)
EXTENDS CatalogStore, TLAPS

(* All threads share one registry object, and so one lock. *)
SingleProcess == \A t, u \in Thread : ProcessOf[t] = ProcessOf[u]

(* The operations on catalogs give catalogs. *)
LEMMA EmptyIsCatalog == NoWorkstreams \in Catalog
<1>1. NoWorkstreams \in [{} -> SUBSET Ordinal]
  BY DEF NoWorkstreams
<1>2. {} \in SUBSET Stream
  OBVIOUS
<1> QED
  BY <1>1, <1>2 DEF Catalog

(* Adding a turn to a workstream of a catalog gives a catalog. *)
LEMMA AddTurn ==
  ASSUME NEW c \in Catalog, NEW s \in DOMAIN c, NEW n \in Ordinal
  PROVE  [c EXCEPT ![s] = @ \cup {n}] \in Catalog
  BY DEF Catalog

(* Removing a workstream from a catalog gives a catalog. *)
LEMMA RemoveStream ==
  ASSUME NEW c \in Catalog, NEW s
  PROVE  [u \in DOMAIN c \ {s} |-> c[u]] \in Catalog
<1>1. PICK S \in SUBSET Stream : c \in [S -> SUBSET Ordinal]
  BY DEF Catalog
<1>2. [u \in DOMAIN c \ {s} |-> c[u]] \in [S \ {s} -> SUBSET Ordinal]
  BY <1>1
<1> QED
  BY <1>2 DEF Catalog

(* The locals of a finished operation are well typed. *)
LEMMA NoRequestType == NoRequest \in Request
  BY DEF NoRequest, Request

(* An operation that finishes keeps the types. *)
LEMMA FinishType ==
  ASSUME TypeOK, NEW T, NEW p \in Process, NEW a \in Answer, Finish(T, p, a)
  PROVE  TypeOK'
  BY EmptyIsCatalog, NoRequestType, ConstantsAssumption
  DEF TypeOK, Finish, store, PC, Ordinal

(* A commit of a catalog and a version keeps the types. *)
LEMMA CommitType ==
  ASSUME TypeOK, NEW t \in Thread, NEW c \in Catalog, NEW v \in Nat, Commit(t, c, v)
  PROVE  TypeOK'
  BY DEF TypeOK, Commit, Goto, locals, PC

(* Every step keeps the types. *)
LEMMA TypeStep == TypeOK /\ [Next]_vars => TypeOK'
<1> SUFFICES ASSUME TypeOK, [Next]_vars PROVE TypeOK'
  OBVIOUS
<1> USE ConstantsAssumption
<1> /\ \A t \in Thread : ProcessOf[t] \in Process
    /\ {<<"none">>, <<"conflict">>, <<"unknown">>, <<"error">>} \subseteq Answer
  BY DEF Answer
<1>1. ASSUME NEW t \in Thread, Begin(t) PROVE TypeOK'
  BY <1>1 DEF Begin, Acquire, Goto, TypeOK, PC, store
<1>2. ASSUME NEW t \in Thread, CheckVersion(t) PROVE TypeOK'
  BY <1>2 DEF CheckVersion, Goto, TypeOK, PC, store
<1>3. ASSUME NEW t \in Thread, RaiseConflict(t) PROVE TypeOK'
  BY <1>3, FinishType DEF RaiseConflict, Leave
<1>4. ASSUME NEW t \in Thread, FindStream(t) PROVE TypeOK'
  BY <1>4 DEF FindStream, Goto, TypeOK, PC, store, locals
<1>5. ASSUME NEW t \in Thread, RaiseUnknown(t) PROVE TypeOK'
  BY <1>5, FinishType DEF RaiseUnknown, Leave
<1>6. ASSUME NEW t \in Thread, ReadOrdinal(t) PROVE TypeOK'
  BY <1>6 DEF ReadOrdinal, Goto, TypeOK, PC, store
<1>7. ASSUME NEW t \in Thread, CommitReplace(t) PROVE TypeOK'
  <2>1. req[t].to \in Replacements
    BY <1>7 DEF CommitReplace, TypeOK, Request
  <2> QED
    BY <1>7, <2>1, CommitType, ReplacementsAssumption DEF CommitReplace, TypeOK
<1>8. ASSUME NEW t \in Thread, CommitAppend(t) PROVE TypeOK'
  <2> DEFINE s == req[t].stream
  <2>1. CASE s \in DOMAIN catalog /\ ordinal[t] \notin catalog[s]
    <3>1. [catalog EXCEPT ![s] = @ \cup {ordinal[t]}] \in Catalog
      BY <2>1, AddTurn DEF TypeOK
    <3> QED
      BY <1>8, <2>1, <3>1, CommitType DEF CommitAppend, TypeOK
  <2>2. CASE ~(s \in DOMAIN catalog /\ ordinal[t] \notin catalog[s])
    BY <1>8, <2>2, FinishType DEF CommitAppend, Leave
  <2> QED
    BY <2>1, <2>2
<1>9. ASSUME NEW t \in Thread, CommitDelete(t) PROVE TypeOK'
  <2> DEFINE s == req[t].stream
  <2>1. CASE s \in DOMAIN catalog
    <3> DEFINE rest == [u \in DOMAIN catalog \ {s} |-> catalog[u]]
    <3>1. rest \in Catalog
      BY RemoveStream DEF TypeOK
    <3>2. Commit(t, rest, version + 1)
      BY <1>9, <2>1 DEF CommitDelete
    <3>3. version + 1 \in Nat
      BY DEF TypeOK
    <3> HIDE DEF rest
    <3> QED
      BY <3>1, <3>2, <3>3, CommitType
  <2>2. CASE s \notin DOMAIN catalog
    BY <1>9, <2>2, FinishType DEF CommitDelete, Leave
  <2> QED
    BY <2>1, <2>2
<1>10. ASSUME NEW t \in Thread, CommitFails(t) PROVE TypeOK'
  BY <1>10, FinishType DEF CommitFails, Leave
<1>11. ASSUME NEW t \in Thread, ReadRows(t) PROVE TypeOK'
  BY <1>11 DEF ReadRows, Goto, TypeOK, PC, store
<1>12. ASSUME NEW t \in Thread, ReadStamp(t) PROVE TypeOK'
  <2>1. <<"ok", version, seen[t]>> \in Answer
    BY DEF TypeOK, Answer
  <2> QED
    BY <1>12, <2>1, FinishType DEF ReadStamp, Leave
<1>13. ASSUME NEW p \in Process, Crash(p) PROVE TypeOK'
  BY <1>13, FinishType DEF Crash
<1>14. CASE UNCHANGED vars
  BY <1>14 DEF TypeOK, vars
<1> QED
  BY <1>1, <1>2, <1>3, <1>4, <1>5, <1>6, <1>7, <1>8, <1>9, <1>10, <1>11, <1>12,
     <1>13, <1>14 DEF Next, Step

(* The initial state satisfies the invariant. *)
LEMMA InitHolds == Init => IInv
  BY EmptyIsCatalog, NoRequestType, ConstantsAssumption
  DEF Init, IInv, TypeOK, LockedOut, KindsMatch, ReadsStillHold, HistoryUpToVersion,
      VersionNamesCatalog, PC, Answer, Ordinal

(* In a single process, a thread in an operation is the only one. *)
LEMMA Alone ==
  ASSUME SingleProcess, LockedOut, NEW t \in Thread, pc[t] # "idle"
  PROVE  \A u \in Thread : u # t => pc[u] = "idle"
  BY DEF SingleProcess, LockedOut

(* When a thread takes the lock, no thread is in an operation. *)
LEMMA Quiet ==
  ASSUME SingleProcess, LockedOut, NEW t \in Thread, holder[ProcessOf[t]] = Nobody
  PROVE  \A u \in Thread : pc[u] = "idle"
  BY ConstantsAssumption DEF SingleProcess, LockedOut

(* The end of the only operations there are, with an answer that names a   *)
(* recorded catalog, keeps the invariant.                                  *)
LEMMA FinishHolds ==
  ASSUME IInv, TypeOK', NEW T \in SUBSET Thread, NEW p \in Process, NEW a \in Answer,
         Finish(T, p, a),
         \A u \in Thread \ T : pc[u] = "idle",
         a[1] = "ok" => <<a[2], a[3]>> \in history
  PROVE  IInv'
<1>1. \A u \in Thread : pc'[u] = "idle"
  BY DEF Finish
<1>2. LockedOut' /\ KindsMatch' /\ ReadsStillHold'
  BY <1>1 DEF LockedOut, KindsMatch, ReadsStillHold
<1>3. HistoryUpToVersion'
  BY DEF IInv, HistoryUpToVersion, Finish, store
<1>4. VersionNamesCatalog'
  BY DEF IInv, VersionNamesCatalog, Finish, store
<1> QED
  BY <1>2, <1>3, <1>4 DEF IInv

(* A commit on top of the current version keeps the invariant. *)
LEMMA CommitHolds ==
  ASSUME SingleProcess, IInv, TypeOK', NEW t \in Thread, NEW c \in Catalog,
         pc[t] = "commit", Commit(t, c, version + 1)
  PROVE  IInv'
<1>1. \A u \in Thread : u # t => pc'[u] = "idle"
  BY Alone DEF IInv, Commit, Goto, TypeOK
<1>2. pc'[t] = "rows"
  BY DEF IInv, Commit, Goto, TypeOK
<1>3. LockedOut' /\ KindsMatch' /\ ReadsStillHold'
  BY <1>1, <1>2 DEF IInv, LockedOut, KindsMatch, ReadsStillHold, Commit
<1>4. \A h \in history : h[1] \in Nat /\ h[1] < version + 1
  BY DEF IInv, TypeOK, HistoryUpToVersion
<1>5. HistoryUpToVersion'
  BY <1>4 DEF IInv, TypeOK, HistoryUpToVersion, Commit
<1>6. VersionNamesCatalog'
  BY <1>4 DEF IInv, TypeOK, VersionNamesCatalog, Commit
<1> QED
  BY <1>3, <1>5, <1>6 DEF IInv

(* Every step keeps the invariant. *)
LEMMA Inductive == SingleProcess /\ IInv /\ [Next]_vars => IInv'
<1> SUFFICES ASSUME SingleProcess, IInv, [Next]_vars PROVE IInv'
  OBVIOUS
<1> TypeOK /\ TypeOK'
  BY TypeStep DEF IInv
<1> /\ \A t \in Thread : ProcessOf[t] \in Process
    /\ {<<"none">>, <<"conflict">>, <<"unknown">>, <<"error">>} \subseteq Answer
  BY ConstantsAssumption DEF Answer
<1>1. ASSUME NEW t \in Thread, Begin(t) PROVE IInv'
  <2>1. \A u \in Thread : u # t => pc'[u] = "idle"
    BY <1>1, Quiet DEF IInv, Begin, Acquire, Goto, TypeOK
  <2>2. pc'[t] \in {"rows", "version"} /\ (pc'[t] = "version" => req'[t].kind # "snapshot")
    BY <1>1 DEF Begin, Goto, TypeOK
  <2>3. holder'[ProcessOf[t]] = t
    BY <1>1 DEF Begin, Acquire, TypeOK
  <2>4. LockedOut' /\ KindsMatch' /\ ReadsStillHold'
    BY <2>1, <2>2, <2>3 DEF LockedOut, KindsMatch, ReadsStillHold
  <2>5. HistoryUpToVersion' /\ VersionNamesCatalog'
    BY <1>1 DEF IInv, HistoryUpToVersion, VersionNamesCatalog, Begin, store, TypeOK
  <2> QED
    BY <2>4, <2>5 DEF IInv
<1>2. ASSUME NEW t \in Thread, CheckVersion(t) PROVE IInv'
  <2>1. \A u \in Thread : u # t => pc'[u] = "idle"
    BY <1>2, Alone DEF IInv, CheckVersion, Goto, TypeOK
  <2>2. /\ pc'[t] \in {"stream", "commit"}
        /\ pc'[t] = "stream" => req'[t].kind = "append"
        /\ req'[t].kind # "snapshot"
        /\ current'[t] = version'
        /\ VersionOk(t)'
    BY <1>2 DEF CheckVersion, Goto, TypeOK, IInv, KindsMatch, VersionOk, store
  <2>3. LockedOut' /\ KindsMatch' /\ ReadsStillHold'
    BY <1>2, <2>1, <2>2 DEF IInv, LockedOut, KindsMatch, ReadsStillHold, CheckVersion
  <2>4. HistoryUpToVersion' /\ VersionNamesCatalog'
    BY <1>2 DEF IInv, HistoryUpToVersion, VersionNamesCatalog, CheckVersion, store
  <2> QED
    BY <2>3, <2>4 DEF IInv
<1>3. ASSUME NEW t \in Thread, NEW a \in Answer, pc[t] # "idle", Leave(t, a),
             a[1] = "ok" => <<a[2], a[3]>> \in history
      PROVE  IInv'
  BY <1>3, Alone, FinishHolds DEF IInv, Leave
<1>4. ASSUME NEW t \in Thread, FindStream(t) \/ ReadOrdinal(t) PROVE IInv'
  <2>1. \A u \in Thread : u # t => pc'[u] = "idle"
    BY <1>4, Alone DEF IInv, FindStream, ReadOrdinal, Goto, TypeOK
  <2>2. /\ pc'[t] \in {"ordinal", "commit"}
        /\ req'[t] = req[t] /\ req[t].kind = "append"
        /\ current'[t] = version'
        /\ VersionOk(t)'
    BY <1>4 DEF FindStream, ReadOrdinal, Goto, TypeOK, IInv, KindsMatch, ReadsStillHold,
                VersionOk, store, locals
  <2>3. LockedOut' /\ KindsMatch' /\ ReadsStillHold'
    BY <1>4, <2>1, <2>2 DEF IInv, LockedOut, KindsMatch, ReadsStillHold, FindStream, ReadOrdinal
  <2>4. HistoryUpToVersion' /\ VersionNamesCatalog'
    BY <1>4 DEF IInv, HistoryUpToVersion, VersionNamesCatalog, FindStream, ReadOrdinal, store
  <2> QED
    BY <2>3, <2>4 DEF IInv
<1>5. ASSUME NEW t \in Thread, CommitReplace(t) PROVE IInv'
  <2>1. req[t].to \in Catalog /\ current[t] = version
    BY <1>5, ReplacementsAssumption DEF CommitReplace, TypeOK, Request, IInv, ReadsStillHold
  <2> QED
    BY <1>5, <2>1, CommitHolds DEF CommitReplace
<1>6. ASSUME NEW t \in Thread, CommitAppend(t) PROVE IInv'
  <2> DEFINE s == req[t].stream
  <2>1. CASE s \in DOMAIN catalog /\ ordinal[t] \notin catalog[s]
    <3>1. [catalog EXCEPT ![s] = @ \cup {ordinal[t]}] \in Catalog
      BY <2>1, AddTurn DEF TypeOK
    <3> QED
      BY <1>6, <2>1, <3>1, CommitHolds DEF CommitAppend
  <2>2. CASE ~(s \in DOMAIN catalog /\ ordinal[t] \notin catalog[s])
    BY <1>6, <2>2, <1>3 DEF CommitAppend
  <2> QED
    BY <2>1, <2>2
<1>7. ASSUME NEW t \in Thread, CommitDelete(t) PROVE IInv'
  <2> DEFINE s == req[t].stream
  <2>1. CASE s \in DOMAIN catalog
    <3> DEFINE rest == [u \in DOMAIN catalog \ {s} |-> catalog[u]]
    <3>1. rest \in Catalog
      BY RemoveStream DEF TypeOK
    <3>2. Commit(t, rest, version + 1) /\ pc[t] = "commit"
      BY <1>7, <2>1 DEF CommitDelete
    <3> HIDE DEF rest
    <3> QED
      BY <3>1, <3>2, CommitHolds
  <2>2. CASE s \notin DOMAIN catalog
    BY <1>7, <2>2, <1>3 DEF CommitDelete
  <2> QED
    BY <2>1, <2>2
<1>8. ASSUME NEW t \in Thread, RaiseConflict(t) \/ RaiseUnknown(t) \/ CommitFails(t)
      PROVE  IInv'
  BY <1>8, <1>3 DEF RaiseConflict, RaiseUnknown, CommitFails
<1>9. ASSUME NEW t \in Thread, ReadRows(t) PROVE IInv'
  <2>1. \A u \in Thread : u # t => pc'[u] = "idle"
    BY <1>9, Alone DEF IInv, ReadRows, Goto, TypeOK
  <2>2. pc'[t] = "stamp" /\ seen'[t] = catalog'
    BY <1>9 DEF ReadRows, Goto, TypeOK, store
  <2>3. LockedOut' /\ KindsMatch' /\ ReadsStillHold'
    BY <1>9, <2>1, <2>2 DEF IInv, LockedOut, KindsMatch, ReadsStillHold, ReadRows
  <2>4. HistoryUpToVersion' /\ VersionNamesCatalog'
    BY <1>9 DEF IInv, HistoryUpToVersion, VersionNamesCatalog, ReadRows, store
  <2> QED
    BY <2>3, <2>4 DEF IInv
<1>10. ASSUME NEW t \in Thread, ReadStamp(t) PROVE IInv'
  <2>1. seen[t] = catalog /\ <<version, catalog>> \in history
    BY <1>10 DEF ReadStamp, IInv, ReadsStillHold, HistoryUpToVersion
  <2>2. <<"ok", version, seen[t]>> \in Answer
    BY DEF TypeOK, Answer
  <2> QED
    BY <1>10, <2>1, <2>2, <1>3 DEF ReadStamp
<1>11. ASSUME NEW p \in Process, Crash(p) PROVE IInv'
  <2> DEFINE T == {t \in Thread : ProcessOf[t] = p}
  <2>1. CASE T = {}
    <3>1. pc' = pc /\ answer' = answer /\ req' = req /\ current' = current /\ seen' = seen
      BY <1>11, <2>1 DEF Crash, Finish, TypeOK
    <3>2. \A t \in Thread : holder'[ProcessOf[t]] = holder[ProcessOf[t]]
      BY <1>11, <2>1 DEF Crash, Finish, TypeOK
    <3>3. LockedOut' /\ KindsMatch' /\ ReadsStillHold'
      BY <1>11, <3>1, <3>2
      DEF IInv, LockedOut, KindsMatch, ReadsStillHold, VersionOk, Crash, Finish, store
    <3>4. HistoryUpToVersion' /\ VersionNamesCatalog'
      BY <1>11, <3>1 DEF IInv, HistoryUpToVersion, VersionNamesCatalog, Crash, Finish, store
    <3> QED
      BY <3>3, <3>4 DEF IInv
  <2>2. CASE T # {}
    <3>1. T = Thread
      BY <2>2 DEF SingleProcess
    <3> QED
      BY <1>11, <3>1, FinishHolds DEF Crash
  <2> QED
    BY <2>1, <2>2
<1>12. CASE UNCHANGED vars
  BY <1>12 DEF IInv, LockedOut, KindsMatch, ReadsStillHold, VersionOk, HistoryUpToVersion,
               VersionNamesCatalog, vars
<1> QED
  BY <1>1, <1>2, <1>4, <1>5, <1>6, <1>7, <1>8, <1>9, <1>10, <1>11, <1>12 DEF Next, Step

(* All variables have their types, whoever shares the file. *)
THEOREM TypeCorrect == Spec => []TypeOK
<1>1. Init => TypeOK
  BY InitHolds DEF IInv
<1> QED
  BY <1>1, TypeStep, PTL DEF Spec

(* In a single process the lock keeps everything an operation has read     *)
(* true until its answer is given.                                         *)
THEOREM CatalogInvariant == ASSUME SingleProcess PROVE Spec => []IInv
  BY InitHolds, Inductive, PTL DEF Spec

(* In a single process, a version names one catalog for ever and every     *)
(* answer carries the catalog its version names.                           *)
THEOREM VersionNamesCatalogHolds == ASSUME SingleProcess PROVE Spec => []VersionNamesCatalog
<1>1. IInv => VersionNamesCatalog
  BY DEF IInv
<1> QED
  BY <1>1, CatalogInvariant, PTL
(* In a single process, what a step changes in the store is a mutation on  *)
(* top of the version its operation checked.                               *)
LEMMA StoreStep ==
  ASSUME SingleProcess, IInv, [Next]_vars
  PROVE  \/ UNCHANGED <<version, catalog>>
         \/ version' = version + 1
<1>1. ASSUME NEW t \in Thread, NEW a, Leave(t, a) PROVE UNCHANGED <<version, catalog>>
  BY <1>1 DEF Leave, Finish, store
<1>2. ASSUME NEW t \in Thread, CommitReplace(t) PROVE version' = version + 1
  BY <1>2 DEF CommitReplace, Commit, IInv, ReadsStillHold
<1>3. ASSUME NEW t \in Thread, CommitAppend(t) \/ CommitDelete(t)
      PROVE  UNCHANGED <<version, catalog>> \/ version' = version + 1
  BY <1>1, <1>3 DEF CommitAppend, CommitDelete, Commit
<1>4. ASSUME NEW t \in Thread,
             RaiseConflict(t) \/ RaiseUnknown(t) \/ CommitFails(t) \/ ReadStamp(t)
      PROVE  UNCHANGED <<version, catalog>>
  BY <1>1, <1>4 DEF RaiseConflict, RaiseUnknown, CommitFails, ReadStamp
<1>5. ASSUME NEW t \in Thread,
             Begin(t) \/ CheckVersion(t) \/ FindStream(t) \/ ReadOrdinal(t) \/ ReadRows(t)
      PROVE  UNCHANGED <<version, catalog>>
  BY <1>5 DEF Begin, CheckVersion, FindStream, ReadOrdinal, ReadRows, store
<1>6. ASSUME NEW p \in Process, Crash(p) PROVE UNCHANGED <<version, catalog>>
  BY <1>6 DEF Crash, Finish, store
<1>7. CASE UNCHANGED vars
  BY <1>7 DEF vars
<1> QED
  BY <1>2, <1>3, <1>4, <1>5, <1>6, <1>7 DEF Next, Step

(* In a single process no mutation is committed on top of a version that   *)
(* its request did not name: there are no lost updates.                    *)
THEOREM NoLostUpdate == ASSUME SingleProcess PROVE Spec => StaleNeverCommits
<1>1. IInv => \A t \in Thread : Mutates(t) => req[t].expected \in {NoVersion, version}
  BY DEF IInv, ReadsStillHold, VersionOk, Mutates
<1>2. IInv /\ [Next]_vars
      => [\A t \in Thread : Mutates(t) => req[t].expected \in {NoVersion, version}]_vars
  BY <1>1
<1> QED
  BY <1>2, CatalogInvariant, PTL DEF Spec, StaleNeverCommits

(* In a single process the version counts the mutations.                   *)
THEOREM VersionCounts == ASSUME SingleProcess PROVE Spec => VersionCountsMutations
<1>1. IInv /\ [Next]_vars
      => [\/ version' = version + 1
          \/ version' = version /\ catalog' = catalog]_vars
  <2> SUFFICES ASSUME SingleProcess, IInv, [Next]_vars
               PROVE  \/ version' = version + 1
                      \/ version' = version /\ catalog' = catalog
    OBVIOUS
  <2> QED
    BY StoreStep
<1> QED
  BY <1>1, CatalogInvariant, PTL DEF Spec, VersionCountsMutations
-----------------------------------------------------------------------------
(* The refinement of the register.                                         *)

(* The initial states are initial states of the register.                  *)
LEMMA RegisterInit == Init => Register!Init
  BY EmptyIsCatalog
  DEF Init, Register!Init, PendingRequest, RegisterAnswer, Committed

(* An operation that ends without a commit is the register's reply.        *)
LEMMA LeaveReplies ==
  ASSUME SingleProcess, IInv, NEW t \in Thread, NEW a, pc[t] # "idle", ~Committed(t), Leave(t, a)
  PROVE  Register!Reply(t, a) /\ UNCHANGED <<version, catalog>>
<1>1. \A u \in Thread : u # t => pc[u] = "idle"
  BY Alone DEF IInv
<1>2. \A u \in Thread : pc'[u] = "idle" /\ ~Committed(u)' /\ ~Committed(u)
  BY <1>1 DEF Leave, Finish, Committed
<1>3. PendingRequest' = [PendingRequest EXCEPT ![t] = NoVersion]
  BY <1>1, <1>2 DEF PendingRequest
<1>4. RegisterAnswer' = [RegisterAnswer EXCEPT ![t] = a]
  BY <1>2 DEF RegisterAnswer, Leave, Finish
<1> QED
  BY <1>3, <1>4 DEF Register!Reply, Leave, Finish, store

(* A request that is neither idle nor committed is pending in the register. *)
LEMMA Pending ==
  ASSUME IInv, NEW t \in Thread, pc[t] # "idle", ~Committed(t)
  PROVE  PendingRequest[t] = req[t] /\ PendingRequest[t] # NoVersion
  BY NoVersionAssumption DEF IInv, TypeOK, PendingRequest

(* A commit is the register's mutation.                                    *)
LEMMA CommitMutates ==
  ASSUME SingleProcess, IInv, NEW t \in Thread, NEW c \in Catalog,
         pc[t] = "commit", Commit(t, c, version + 1)
  PROVE  Register!Mutate(t)
<1>1. \A u \in Thread : u # t => pc[u] = "idle"
  BY Alone DEF IInv
<1>2. /\ pc'[t] = "rows"
      /\ \A u \in Thread : u # t => pc'[u] = "idle"
  BY <1>1 DEF Commit, Goto, IInv, TypeOK
<1>3. req' = req /\ answer' = answer /\ req[t].kind # "snapshot"
  BY DEF Commit, locals, IInv, KindsMatch
<1>4. Committed(t)' /\ ~Committed(t)
  BY <1>2, <1>3 DEF Committed
<1>5. \A u \in Thread : u # t => ~Committed(u)' /\ ~Committed(u)
  BY <1>1, <1>2 DEF Committed
<1>6. PendingRequest' = [PendingRequest EXCEPT ![t] = NoVersion]
  BY <1>1, <1>2, <1>4, <1>5 DEF PendingRequest
<1>7. RegisterAnswer' = [RegisterAnswer EXCEPT ![t] = <<"ok", version', catalog'>>]
  BY <1>3, <1>4, <1>5 DEF RegisterAnswer
<1>8. PendingRequest[t] = req[t] /\ PendingRequest[t] # NoVersion
  BY <1>4, Pending
<1>9. req[t].expected \in {NoVersion, version}
  BY DEF IInv, ReadsStillHold, VersionOk
<1>10. version' = version + 1 /\ catalog' \in Catalog
  BY DEF Commit
<1> QED
  BY <1>3, <1>6, <1>7, <1>8, <1>9, <1>10
  DEF Register!Mutate, Register!Matches, Register!Reply

(* Every step is a step of the register or leaves it unchanged.            *)
LEMMA RegisterStep ==
  SingleProcess /\ IInv /\ [Next]_vars => [Register!Next]_(Register!vars)
<1> SUFFICES ASSUME SingleProcess, IInv, [Next]_vars
             PROVE  Register!Next \/ UNCHANGED Register!vars
  BY DEF Register!vars
<1>1. ASSUME NEW t \in Thread, Begin(t) PROVE Register!Ask(t)
  <2>1. \A u \in Thread : pc[u] = "idle" /\ ~Committed(u)
    BY <1>1, Quiet DEF IInv, Begin, Acquire, Committed
  <2>2. \A u \in Thread : u # t => pc'[u] = "idle" /\ ~Committed(u)'
    BY <1>1, <2>1 DEF Begin, Goto, IInv, TypeOK, Committed
  <2>3. PICK r \in Request : /\ req' = [req EXCEPT ![t] = r]
                             /\ Goto(t, IF r.kind = "snapshot" THEN "rows" ELSE "version")
    BY <1>1 DEF Begin
  <2>4. pc'[t] # "idle" /\ ~Committed(t)' /\ req'[t] = r
    BY <2>3 DEF Goto, IInv, TypeOK, Committed
  <2>5. PendingRequest' = [PendingRequest EXCEPT ![t] = r]
    BY <2>1, <2>2, <2>4 DEF PendingRequest
  <2>6. RegisterAnswer' = [RegisterAnswer EXCEPT ![t] = <<"none">>]
    BY <1>1, <2>1, <2>2, <2>4 DEF RegisterAnswer, Begin, IInv, TypeOK
  <2>7. PendingRequest[t] = NoVersion
    BY <2>1 DEF PendingRequest
  <2> QED
    BY <1>1, <2>5, <2>6, <2>7 DEF Register!Ask, Begin, store
<1>2. ASSUME NEW t \in Thread, CheckVersion(t) \/ FindStream(t) \/ ReadOrdinal(t)
      PROVE  UNCHANGED Register!vars
  <2>1. req' = req /\ answer' = answer /\ version' = version /\ catalog' = catalog
    BY <1>2 DEF CheckVersion, FindStream, ReadOrdinal, store, locals
  <2>2. \A u \in Thread : /\ pc'[u] = "idle" <=> pc[u] = "idle"
                          /\ Committed(u)' <=> Committed(u)
    BY <1>2, <2>1 DEF CheckVersion, FindStream, ReadOrdinal, Goto, IInv, TypeOK, Committed
  <2>3. PendingRequest' = PendingRequest /\ RegisterAnswer' = RegisterAnswer
    BY <2>1, <2>2 DEF PendingRequest, RegisterAnswer
  <2> QED
    BY <2>1, <2>3 DEF Register!vars
<1>3. ASSUME NEW t \in Thread, ReadRows(t) PROVE UNCHANGED Register!vars
  <2>1. req' = req /\ answer' = answer /\ version' = version /\ catalog' = catalog
    BY <1>3 DEF ReadRows, store
  <2>2. \A u \in Thread : /\ pc'[u] = "idle" <=> pc[u] = "idle"
                          /\ Committed(u)' <=> Committed(u)
    BY <1>3, <2>1 DEF ReadRows, Goto, IInv, TypeOK, Committed
  <2>3. PendingRequest' = PendingRequest /\ RegisterAnswer' = RegisterAnswer
    BY <2>1, <2>2 DEF PendingRequest, RegisterAnswer
  <2> QED
    BY <2>1, <2>3 DEF Register!vars
<1>4. ASSUME NEW t \in Thread, RaiseConflict(t) PROVE Register!Conflict(t)
  <2>1. pc[t] = "version" /\ ~Committed(t) /\ Leave(t, <<"conflict">>)
    BY <1>4 DEF RaiseConflict, Committed
  <2> QED
    BY <1>4, <2>1, LeaveReplies, Pending
    DEF RaiseConflict, VersionOk, Register!Conflict, Register!Matches
<1>5. ASSUME NEW t \in Thread, NEW a \in {"unknown", "error"},
             pc[t] \in {"stream", "commit"}, Leave(t, <<a>>)
      PROVE  Register!Refuse(t)
  <2>1. pc[t] # "idle" /\ ~Committed(t)
    BY <1>5 DEF Committed
  <2> QED
    BY <1>5, <2>1, LeaveReplies, Pending DEF Register!Refuse
<1>6. ASSUME NEW t \in Thread, RaiseUnknown(t) \/ CommitFails(t) PROVE Register!Refuse(t)
  BY <1>5, <1>6 DEF RaiseUnknown, CommitFails
<1>7. ASSUME NEW t \in Thread, CommitReplace(t) PROVE Register!Mutate(t)
  <2>1. req[t].to \in Catalog /\ current[t] = version
    BY <1>7, ReplacementsAssumption DEF CommitReplace, TypeOK, Request, IInv, ReadsStillHold
  <2> QED
    BY <1>7, <2>1, CommitMutates DEF CommitReplace
<1>8. ASSUME NEW t \in Thread, CommitAppend(t) PROVE Register!Mutate(t) \/ Register!Refuse(t)
  <2> DEFINE s == req[t].stream
  <2>1. CASE s \in DOMAIN catalog /\ ordinal[t] \notin catalog[s]
    <3>1. [catalog EXCEPT ![s] = @ \cup {ordinal[t]}] \in Catalog
      BY <2>1, AddTurn DEF IInv, TypeOK
    <3> QED
      BY <1>8, <2>1, <3>1, CommitMutates DEF CommitAppend
  <2>2. CASE ~(s \in DOMAIN catalog /\ ordinal[t] \notin catalog[s])
    BY <1>5, <1>8, <2>2 DEF CommitAppend
  <2> QED
    BY <2>1, <2>2
<1>9. ASSUME NEW t \in Thread, CommitDelete(t) PROVE Register!Mutate(t) \/ Register!Refuse(t)
  <2> DEFINE s == req[t].stream
  <2>1. CASE s \in DOMAIN catalog
    <3> DEFINE rest == [u \in DOMAIN catalog \ {s} |-> catalog[u]]
    <3>1. rest \in Catalog
      BY RemoveStream DEF IInv, TypeOK
    <3>2. Commit(t, rest, version + 1) /\ pc[t] = "commit"
      BY <1>9, <2>1 DEF CommitDelete
    <3> HIDE DEF rest
    <3> QED
      BY <3>1, <3>2, CommitMutates
  <2>2. CASE s \notin DOMAIN catalog
    BY <1>5, <1>9, <2>2 DEF CommitDelete
  <2> QED
    BY <2>1, <2>2
<1>10. ASSUME NEW t \in Thread, ReadStamp(t), req[t].kind = "snapshot" PROVE Register!Read(t)
  <2>1. pc[t] # "idle" /\ ~Committed(t) /\ Leave(t, <<"ok", version, catalog>>)
    BY <1>10 DEF ReadStamp, Committed, IInv, ReadsStillHold
  <2> QED
    BY <1>10, <2>1, LeaveReplies, Pending DEF Register!Read
<1>11. ASSUME NEW t \in Thread, ReadStamp(t), req[t].kind # "snapshot"
       PROVE  UNCHANGED Register!vars
  <2>1. pc[t] = "stamp" /\ Committed(t) /\ Leave(t, <<"ok", version, catalog>>)
    BY <1>11 DEF ReadStamp, Committed, IInv, ReadsStillHold
  <2>2. \A u \in Thread : u # t => pc[u] = "idle"
    BY <2>1, Alone DEF IInv
  <2>3. \A u \in Thread : /\ pc'[u] = "idle" /\ ~Committed(u)'
                          /\ u # t => ~Committed(u)
    BY <2>1, <2>2 DEF Leave, Finish, Committed
  <2>4. PendingRequest' = PendingRequest
    BY <2>1, <2>2, <2>3 DEF PendingRequest
  <2>5. RegisterAnswer' = RegisterAnswer
    BY <2>1, <2>3 DEF RegisterAnswer, Leave, Finish
  <2> QED
    BY <2>1, <2>4, <2>5 DEF Register!vars, Leave, Finish, store
<1>12. ASSUME NEW p \in Process, Crash(p)
       PROVE  Register!Lose({t \in Thread : ProcessOf[t] = p})
  <2> DEFINE T == {t \in Thread : ProcessOf[t] = p}
  <2>1. \A u \in Thread : /\ u \in T => pc'[u] = "idle" /\ ~Committed(u)'
                          /\ u \notin T => /\ pc'[u] = pc[u] /\ req'[u] = req[u]
                                           /\ answer'[u] = answer[u]
                                           /\ Committed(u)' <=> Committed(u)
    BY <1>12 DEF Crash, Finish, Committed
  <2>2. version' = version /\ catalog' = catalog
    BY <1>12 DEF Crash, Finish, store
  <2>3. PendingRequest' = [u \in Thread |-> IF u \in T THEN NoVersion ELSE PendingRequest[u]]
    BY <2>1 DEF PendingRequest
  <2>4. \A u \in Thread : answer'[u] = IF u \in T THEN <<"none">> ELSE answer[u]
    BY <1>12 DEF Crash, Finish
  <2>5. RegisterAnswer' = [u \in Thread |-> IF u \in T THEN <<"none">> ELSE RegisterAnswer[u]]
    BY <2>1, <2>2, <2>4 DEF RegisterAnswer
  <2> QED
    BY <2>2, <2>3, <2>5 DEF Register!Lose
<1>13. CASE UNCHANGED vars
  BY <1>13 DEF vars, Register!vars, PendingRequest, RegisterAnswer, Committed
<1> QED
  BY <1>1, <1>2, <1>3, <1>4, <1>6, <1>7, <1>8, <1>9, <1>10, <1>11, <1>12, <1>13
  DEF Next, Step, Register!Next

(* The operations of threads that share one registry are linearizable:     *)
(* the store implements the versioned register.                            *)
THEOREM StoreImplementsRegister == ASSUME SingleProcess PROVE Spec => ImplementsRegister
  BY RegisterInit, RegisterStep, CatalogInvariant, PTL DEF Spec, ImplementsRegister, Register!Spec
=============================================================================
