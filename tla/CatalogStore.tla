----------------------------- MODULE CatalogStore -----------------------------
(***************************************************************************)
(* SlotRegistry (src/rlm_proxy/catalog_store.py): slots, workstreams and   *)
(* turns in one SQLite file, with a catalog version for optimistic         *)
(* concurrency.                                                            *)
(*                                                                         *)
(* Every process that imports routing.registry has one SlotRegistry: one   *)
(* connection and one RLock that its threads share.  An operation reads    *)
(* the version, checks it and reads what it needs with autocommitted       *)
(* statements, writes in one transaction, and reads the whole catalog back *)
(* for its answer.  The lock keeps the threads of one process apart; what  *)
(* happens between two statements when another process has the same file   *)
(* open is left to the interleaving.                                       *)
(*                                                                         *)
(* A workstream stands for its (slot, slug) key, and its turns for the set *)
(* of their ordinals.  The rows of one snapshot are read in one step: only *)
(* the version, which is read last, may differ from them.                  *)
(***************************************************************************)
EXTENDS Integers, FiniteSets

CONSTANTS
    Thread, Process,
    ProcessOf,      \* the process of each thread
    Stream,         \* workstream keys
    Replacements,   \* bound: the catalogs a client may submit
    MaxVersion,     \* bound: no mutation is requested from this version on
    MaxOrdinal,     \* bound: ordinals of turns
    Nobody, NoVersion

ASSUME ConstantsAssumption ==
    /\ ProcessOf \in [Thread -> Process]
    /\ MaxVersion \in Nat
    /\ MaxOrdinal \in Nat
    /\ Nobody \notin Thread

Ordinal == 0..MaxOrdinal

(* A catalog maps the workstreams it has to the ordinals of their turns. *)
Catalog == UNION {[S -> SUBSET Ordinal] : S \in SUBSET Stream}

(* A submitted catalog is a catalog. *)
ASSUME ReplacementsAssumption == Replacements \subseteq Catalog

VARIABLES
    catalog,    \* tables slots, workstreams and turns
    version,    \* catalog_meta.catalog_version
    holder,     \* the thread that holds a process's RLock, or Nobody
    pc,         \* where each thread is in its operation
    req,        \* the operation's arguments
    current,    \* its local current_version
    ordinal,    \* append_turn's local ordinal
    seen,       \* the catalog read by its snapshot
    answer,     \* the answer to the thread's last request
    history     \* every <<version, catalog>> that was ever committed

vars == <<catalog, version, holder, pc, req, current, ordinal, seen, answer, history>>
store == <<catalog, version, history>>
locals == <<req, current, ordinal, seen>>

(* The requests: an expected version may be stale, current or ahead. *)
Request ==
    LET Expected == (0..MaxVersion) \cup {NoVersion} IN
    [kind : {"replace"}, expected : Expected, to : Replacements]
    \cup [kind : {"append", "delete"}, expected : Expected, stream : Stream]
    \cup {[kind |-> "snapshot", expected |-> NoVersion]}

(* "No version" also stands for "no request" in the register below. *)
ASSUME NoVersionAssumption == NoVersion \notin Request

PC == {"idle",
       "version",   \* reads the version and compares it
       "stream",    \* append_turn looks the workstream up
       "ordinal",   \* append_turn reads the next ordinal
       "commit",    \* runs its transaction
       "rows",      \* snapshot reads the rows
       "stamp"}     \* snapshot reads the version

Answer == {<<"none">>, <<"conflict">>, <<"unknown">>, <<"error">>}
          \cup ({"ok"} \X Nat \X Catalog)

NoWorkstreams == [s \in {} |-> {}]

TypeOK ==
    /\ catalog \in Catalog
    /\ version \in Nat
    /\ holder \in [Process -> Thread \cup {Nobody}]
    /\ pc \in [Thread -> PC]
    /\ req \in [Thread -> Request]
    /\ current \in [Thread -> Nat]
    /\ ordinal \in [Thread -> Ordinal]
    /\ seen \in [Thread -> Catalog]
    /\ answer \in [Thread -> Answer]
    /\ history \subseteq Nat \X Catalog

NoRequest == [kind |-> "snapshot", expected |-> NoVersion]

Init ==
    /\ catalog = NoWorkstreams
    /\ version = 0
    /\ holder = [p \in Process |-> Nobody]
    /\ pc = [t \in Thread |-> "idle"]
    /\ req = [t \in Thread |-> NoRequest]
    /\ current = [t \in Thread |-> 0]
    /\ ordinal = [t \in Thread |-> 0]
    /\ seen = [t \in Thread |-> NoWorkstreams]
    /\ answer = [t \in Thread |-> <<"none">>]
    /\ history = {<<0, NoWorkstreams>>}

Goto(t, label) == pc' = [pc EXCEPT ![t] = label]

Acquire(t) == /\ holder[ProcessOf[t]] = Nobody
              /\ holder' = [holder EXCEPT ![ProcessOf[t]] = t]

(* The operations of the threads T are over, and with them their locals    *)
(* and the lock of their process p; a is what they answer.                 *)
Finish(T, p, a) ==
    /\ pc' = [t \in Thread |-> IF t \in T THEN "idle" ELSE pc[t]]
    /\ answer' = [t \in Thread |-> IF t \in T THEN a ELSE answer[t]]
    /\ req' = [t \in Thread |-> IF t \in T THEN NoRequest ELSE req[t]]
    /\ current' = [t \in Thread |-> IF t \in T THEN 0 ELSE current[t]]
    /\ ordinal' = [t \in Thread |-> IF t \in T THEN 0 ELSE ordinal[t]]
    /\ seen' = [t \in Thread |-> IF t \in T THEN NoWorkstreams ELSE seen[t]]
    /\ holder' = [holder EXCEPT ![p] = Nobody]
    /\ UNCHANGED store

(* t's operation returns or raises, and leaves "with self._lock". *)
Leave(t, a) == Finish({t}, ProcessOf[t], a)

(* A request arrives and takes the lock. *)
Begin(t) ==
    /\ pc[t] = "idle"
    /\ Acquire(t)
    /\ \E r \in Request :
          /\ r.kind # "snapshot" => version < MaxVersion
          /\ req' = [req EXCEPT ![t] = r]
          /\ Goto(t, IF r.kind = "snapshot" THEN "rows" ELSE "version")
    /\ answer' = [answer EXCEPT ![t] = <<"none">>]
    /\ UNCHANGED <<store, current, ordinal, seen>>

(* Mutant of VersionOk: any version that is not ahead will do. *)
VersionOkIfNotAhead(t) ==
    req[t].expected # NoVersion => req[t].expected <= version

VersionOk(t) == req[t].expected \in {NoVersion, version}

CheckVersion(t) ==
    /\ pc[t] = "version"
    /\ VersionOk(t)
    /\ current' = [current EXCEPT ![t] = version]
    /\ Goto(t, IF req[t].kind = "append" THEN "stream" ELSE "commit")
    /\ UNCHANGED <<store, holder, answer, req, ordinal, seen>>

RaiseConflict(t) ==
    /\ pc[t] = "version"
    /\ ~VersionOk(t)
    /\ Leave(t, <<"conflict">>)

FindStream(t) ==
    /\ pc[t] = "stream"
    /\ req[t].stream \in DOMAIN catalog
    /\ Goto(t, "ordinal")
    /\ UNCHANGED <<store, holder, answer, locals>>

RaiseUnknown(t) ==
    /\ pc[t] = "stream"
    /\ req[t].stream \notin DOMAIN catalog
    /\ Leave(t, <<"unknown">>)

(* COALESCE(MAX(ordinal), -1) + 1 *)
IsNextOrdinal(n, T) == /\ \A m \in T : m < n
                       /\ n = 0 \/ n - 1 \in T

(* The turns of s, none if the workstream has gone. *)
Turns(s) == IF s \in DOMAIN catalog THEN catalog[s] ELSE {}

ReadOrdinal(t) ==
    /\ pc[t] = "ordinal"
    /\ \E n \in Ordinal :
          /\ IsNextOrdinal(n, Turns(req[t].stream))
          /\ ordinal' = [ordinal EXCEPT ![t] = n]
    /\ Goto(t, "commit")
    /\ UNCHANGED <<store, holder, req, current, seen, answer>>

(* Rows and version are written in one transaction. *)
Commit(t, newCatalog, newVersion) ==
    /\ catalog' = newCatalog
    /\ version' = newVersion
    /\ history' = history \cup {<<newVersion, newCatalog>>}
    /\ Goto(t, "rows")
    /\ UNCHANGED <<holder, answer, locals>>

(* next_version was computed from the version that was checked. *)
CommitReplace(t) ==
    /\ pc[t] = "commit"
    /\ req[t].kind = "replace"
    /\ Commit(t, req[t].to, current[t] + 1)

(* Mutant of CommitAppend: the version is left for a later statement. *)
CommitAppendUnversioned(t) ==
    /\ pc[t] = "commit"
    /\ req[t].kind = "append"
    /\ LET s == req[t].stream IN
       IF s \in DOMAIN catalog /\ ordinal[t] \notin catalog[s]
       THEN Commit(t, [catalog EXCEPT ![s] = @ \cup {ordinal[t]}], version)
       ELSE Leave(t, <<"error">>)

(* A failed statement rolls the transaction back and raises: the foreign   *)
(* key or the primary key refuses a row whose workstream or ordinal        *)
(* another process has taken away or used.                                 *)
CommitAppend(t) ==
    /\ pc[t] = "commit"
    /\ req[t].kind = "append"
    /\ LET s == req[t].stream IN
       IF s \in DOMAIN catalog /\ ordinal[t] \notin catalog[s]
       THEN Commit(t, [catalog EXCEPT ![s] = @ \cup {ordinal[t]}], version + 1)
       ELSE Leave(t, <<"error">>)

CommitDelete(t) ==
    /\ pc[t] = "commit"
    /\ req[t].kind = "delete"
    /\ LET s == req[t].stream IN
       IF s \in DOMAIN catalog
       THEN Commit(t, [u \in DOMAIN catalog \ {s} |-> catalog[u]], version + 1)
       ELSE Leave(t, <<"unknown">>)

(* The file stays locked by another process, the disk is full, ... *)
CommitFails(t) ==
    /\ pc[t] = "commit"
    /\ Leave(t, <<"error">>)

(* Mutant of ReadRows: the lock covers the writes only. *)
ReadRowsUnlocked(t) ==
    /\ pc[t] = "rows"
    /\ seen' = [seen EXCEPT ![t] = catalog]
    /\ holder' = [holder EXCEPT ![ProcessOf[t]] = Nobody]
    /\ Goto(t, "stamp")
    /\ UNCHANGED <<store, req, current, ordinal, answer>>

(* snapshot, at the end of every operation. *)
ReadRows(t) ==
    /\ pc[t] = "rows"
    /\ seen' = [seen EXCEPT ![t] = catalog]
    /\ Goto(t, "stamp")
    /\ UNCHANGED <<store, holder, req, current, ordinal, answer>>

(* Mutant of ReadStamp: the answer repeats the version of the request. *)
ReadStampFromRequest(t) ==
    /\ pc[t] = "stamp"
    /\ Leave(t, <<"ok", req[t].expected, seen[t]>>)

ReadStamp(t) ==
    /\ pc[t] = "stamp"
    /\ Leave(t, <<"ok", version, seen[t]>>)

(* The process ends; SQLite keeps what was committed. *)
Crash(p) == Finish({t \in Thread : ProcessOf[t] = p}, p, <<"none">>)

Step(t) == \/ Begin(t) \/ CheckVersion(t) \/ RaiseConflict(t)
           \/ FindStream(t) \/ RaiseUnknown(t) \/ ReadOrdinal(t)
           \/ CommitReplace(t) \/ CommitAppend(t) \/ CommitDelete(t) \/ CommitFails(t)
           \/ ReadRows(t) \/ ReadStamp(t)

Next == \/ \E t \in Thread : Step(t)
        \/ \E p \in Process : Crash(p)

Spec == Init /\ [][Next]_vars

-----------------------------------------------------------------------------
(* Properties.                                                             *)

Mutates(t) == pc[t] = "commit" /\ pc'[t] = "rows"

(* No lost update: a mutation that named a version is committed on top of  *)
(* exactly that version, however its operation interleaves with others     *)
(* (docs/catalog-mutations.md: a stale version does not modify data).      *)
StaleNeverCommits ==
    [][\A t \in Thread : Mutates(t) => req[t].expected \in {NoVersion, version}]_vars

(* The version counts the mutations: it never moves back or stands still   *)
(* when the catalog changes (docs/catalog-mutations.md: monotonically      *)
(* increasing).                                                            *)
VersionCountsMutations ==
    [][\/ version' = version + 1
       \/ version' = version /\ catalog' = catalog]_vars

(* A version (and the ETag made of it) names one catalog for ever, and     *)
(* every answer pairs a catalog with the version that names it: snapshot   *)
(* never stamps one state's rows with another's version.                   *)
VersionNamesCatalog ==
    /\ \A h, g \in history : h[1] = g[1] => h[2] = g[2]
    /\ \A t \in Thread :
          answer[t][1] = "ok" => <<answer[t][2], answer[t][3]>> \in history

(* The inductive invariant of a single process: the lock's holder is the   *)
(* only thread in an operation, so what it has read is still so.           *)
LockedOut == \A t \in Thread : pc[t] # "idle" => holder[ProcessOf[t]] = t
KindsMatch ==
    \A t \in Thread :
        /\ pc[t] \in {"version", "stream", "ordinal", "commit"} => req[t].kind # "snapshot"
        /\ pc[t] \in {"stream", "ordinal"} => req[t].kind = "append"
ReadsStillHold ==
    \A t \in Thread :
        /\ pc[t] \in {"stream", "ordinal", "commit"} => current[t] = version /\ VersionOk(t)
        /\ pc[t] = "stamp" => seen[t] = catalog
HistoryUpToVersion ==
    /\ <<version, catalog>> \in history
    /\ \A h \in history : h[1] <= version

IInv == /\ TypeOK /\ LockedOut /\ KindsMatch
        /\ ReadsStillHold /\ HistoryUpToVersion /\ VersionNamesCatalog

(* The register a client sees: a mutation takes effect, and is answered,   *)
(* when its transaction commits; a snapshot when it reads the version.     *)
Committed(t) == pc[t] \in {"rows", "stamp"} /\ req[t].kind # "snapshot"
PendingRequest == [t \in Thread |-> IF pc[t] = "idle" \/ Committed(t)
                                    THEN NoVersion ELSE req[t]]
RegisterAnswer == [t \in Thread |-> IF Committed(t)
                                    THEN <<"ok", version, catalog>> ELSE answer[t]]

Register == INSTANCE CatalogRegister WITH
    Client <- Thread, NoRequest <- NoVersion,
    pending <- PendingRequest, answer <- RegisterAnswer

(* Operations of threads that share a registry are linearizable. *)
ImplementsRegister == Register!Spec

=============================================================================
