--------------------------- MODULE KnowledgeClient ---------------------------
(***************************************************************************)
(* The cached knowledge client (src/rlm_proxy/knowledge_query_cache.py)    *)
(* and the synchronisation of a directory with the service over it         *)
(* (knowledge_sync.py), down to the job that ingests the content           *)
(* (KnowledgeJobs has its inside).                                         *)
(*                                                                         *)
(* The directory has one file.  Its versions are numbered, 0 is its        *)
(* absence, and a fingerprint identifies a version.  The job service runs  *)
(* several jobs at once, so those of the file may be ingested in any       *)
(* order; as history a job carries whether a later one was ingested        *)
(* before it.  A result of a search                                        *)
(* is the version the service held; as history it carries for how long it  *)
(* has not been what the service holds, and whether the document was       *)
(* deleted since.  A time is how long ago the clock was read, counted up   *)
(* to one more than matters.                                               *)
(***************************************************************************)
EXTENDS Integers, SequencesExt

CONSTANTS
    Searcher,    \* the threads that search
    Query,       \* the queries they ask
    MaxEntries,  \* CachedKnowledgeApiClient.maximum_entries
    Ttl,         \* its ttl_seconds
    MaxEdits,    \* bound: versions of the file
    MaxFaults,   \* bound: requests and jobs that fail, and crashes
    MaxDeletes   \* bound: deletions of the document

ASSUME ClientAssumption ==
    /\ MaxEntries \in Nat \ {0} /\ Ttl \in Nat
    /\ MaxEdits \in Nat \ {0} /\ MaxFaults \in Nat /\ MaxDeletes \in Nat

VARIABLES
    file,      \* the file's version, and how many there have been
    manifest,  \* the version whose fingerprint the manifest has, 0 if none, or Torn
    sync,      \* the run of synchronize
    jobs,      \* the jobs that are queued or run, in the order of their posts
    doc,       \* the version the service holds, 0 if none
    cache,     \* the cache, least recently used first
    search,    \* the searches
    deleting,  \* a deletion: "none", or "done" until the cache is cleared
    count      \* deletions, faults, and (history) whether a job failed, and
               \* whether the last one that was ingested was overtaken

clientVars == <<file, manifest, sync, jobs, doc, cache, search, deleting, count>>

-----------------------------------------------------------------------------
Age == 0..(Ttl + 1)
Fresh == -1
Older(age) == IF age \in 0..Ttl THEN age + 1 ELSE age
Version == 0..MaxEdits
Torn == -1          \* a manifest that is no JSON
Job(content) == [content |-> content, late |-> FALSE]

IdleSync == [phase |-> "idle", print |-> 0, content |-> 0]
IdleSearch == [phase |-> "idle", query |-> CHOOSE q \in Query : TRUE, age |-> 0,
               result |-> [version |-> 0, stale |-> Fresh, gone |-> FALSE],
               overtaken |-> FALSE]

Result == [version : Version, stale : Age \cup {Fresh}, gone : BOOLEAN]
CacheEntry == [query : Query, age : Age, result : Result, overtaken : BOOLEAN]
Search == [phase : {"idle", "sent", "got"}, query : Query \cup {IdleSearch.query},
           age : Age, result : Result, overtaken : BOOLEAN]

ClientTypeOK ==
    /\ file \in [version : Version, edits : Version]
    /\ manifest \in Version \cup {Torn}
    /\ sync \in [phase : {"idle", "read", "post", "clear", "save"}, print : Version,
                 content : Version]
    /\ jobs \in Seq([content : Version, late : BOOLEAN])
    /\ doc \in Version
    /\ cache \in Seq(CacheEntry)
    /\ search \in [Searcher -> Search]
    /\ deleting \in {"none", "done"}
    /\ count \in [deleted : 0..MaxDeletes, faults : 0..MaxFaults,
                  failed : BOOLEAN, overtaken : BOOLEAN]

ClientInit ==
    /\ file = [version |-> 0, edits |-> 0]
    /\ manifest = 0 /\ sync = IdleSync /\ jobs = <<>>
    /\ doc = 0
    /\ cache = <<>> /\ search = [s \in Searcher |-> IdleSearch]
    /\ deleting = "none"
    /\ count = [deleted |-> 0, faults |-> 0, failed |-> FALSE, overtaken |-> FALSE]

Fault == count.faults < MaxFaults
Faulted == [count EXCEPT !.faults = @ + 1]

-----------------------------------------------------------------------------
(* The cache.                                                              *)

(* It is a dictionary in the order of use: a query has one place at most.  *)
Places(q) == {i \in 1..Len(cache) : cache[i].query = q}
Lookup(q) == IF Places(q) = {} THEN [age |-> Ttl + 1]
             ELSE cache[CHOOSE i \in Places(q) : TRUE]
Others(q) == IF Places(q) = {} THEN cache
             ELSE RemoveAt(cache, CHOOSE i \in Places(q) : TRUE)

SearchHits(s, q) ==
    /\ search[s].phase = "idle"
    /\ Lookup(q).age <= Ttl
    /\ cache' = Append(Others(q), Lookup(q))
    /\ UNCHANGED <<file, manifest, sync, jobs, doc, search, deleting, count>>

SearchMisses(s, q) ==
    /\ search[s].phase = "idle"
    /\ Lookup(q).age > Ttl
    /\ cache' = Others(q)
    /\ search' = [search EXCEPT ![s] = [IdleSearch EXCEPT !.phase = "sent", !.query = q]]
    /\ UNCHANGED <<file, manifest, sync, jobs, doc, deleting, count>>

SearchAnswered(s) ==
    /\ search[s].phase = "sent"
    /\ search' = [search EXCEPT ![s].phase = "got", ![s].result.version = doc]
    /\ UNCHANGED <<file, manifest, sync, jobs, doc, cache, deleting, count>>

SearchFails(s) ==
    /\ search[s].phase = "sent" /\ Fault
    /\ search' = [search EXCEPT ![s] = IdleSearch]
    /\ count' = Faulted
    /\ UNCHANGED <<file, manifest, sync, jobs, doc, cache, deleting>>

Entry(s) == [query |-> search[s].query, age |-> search[s].age, result |-> search[s].result,
             overtaken |-> search[s].overtaken]
Newest(entries) == SubSeq(entries, Len(entries) - MaxEntries + 1, Len(entries))

(* Mutant of Stored: the age counts from the answer instead of the request. *)
StoredFresh(s) == Append(Others(search[s].query), [Entry(s) EXCEPT !.age = 0])

Stored(s) == Append(Others(search[s].query), Entry(s))

(* The result is stored with the time read before it was asked for.        *)
SearchStores(s) ==
    /\ search[s].phase = "got"
    /\ cache' = IF Len(Stored(s)) > MaxEntries THEN Newest(Stored(s)) ELSE Stored(s)
    /\ search' = [search EXCEPT ![s] = IdleSearch]
    /\ UNCHANGED <<file, manifest, sync, jobs, doc, deleting, count>>

(* The results there are when the service changes. *)
AllResults(Now(_)) ==
    /\ cache' = [i \in 1..Len(cache) |-> [cache[i] EXCEPT !.result = Now(@)]]
    /\ search' = [s \in Searcher |-> IF search[s].phase = "got"
                                     THEN [search[s] EXCEPT !.result = Now(@)]
                                     ELSE search[s]]
Outdated(result) == [result EXCEPT !.stale = IF @ = Fresh THEN 0 ELSE @]

(* clear overtakes the searches that are under way.                        *)
Cleared ==
    /\ cache' = <<>>
    /\ search' = [s \in Searcher |-> [search[s] EXCEPT !.overtaken = search[s].phase # "idle"]]

-----------------------------------------------------------------------------
(* delete_document: the service deletes, then the cache is cleared.        *)
DeleteSends ==
    /\ doc # 0 /\ deleting = "none" /\ count.deleted < MaxDeletes
    /\ deleting' = "done"
    /\ doc' = 0
    /\ AllResults(LAMBDA r : [Outdated(r) EXCEPT !.gone = TRUE])
    /\ count' = [count EXCEPT !.deleted = @ + 1]
    /\ UNCHANGED <<file, manifest, sync, jobs>>

(* The answer is lost: the caller sees a failure, and nothing is cleared.  *)
DeleteAnswerLost ==
    /\ deleting = "done" /\ Fault
    /\ deleting' = "none" /\ count' = Faulted
    /\ AllResults(LAMBDA r : [r EXCEPT !.gone = FALSE])
    /\ UNCHANGED <<file, manifest, sync, jobs, doc>>

DeleteClears ==
    /\ deleting = "done" /\ deleting' = "none"
    /\ Cleared
    /\ UNCHANGED <<file, manifest, sync, jobs, doc, count>>

-----------------------------------------------------------------------------
(* The file and synchronize.                                               *)
Edit ==
    /\ file.edits < MaxEdits
    /\ file' = [version |-> file.edits + 1, edits |-> file.edits + 1]
    /\ UNCHANGED <<manifest, sync, jobs, doc, cache, search, deleting, count>>
RemoveFile ==
    /\ file.version # 0
    /\ file' = [file EXCEPT !.version = 0]
    /\ UNCHANGED <<manifest, sync, jobs, doc, cache, search, deleting, count>>

(* Only a file that is not as the manifest has it is submitted; one that   *)
(* is gone is only left out of the manifest.  A manifest that cannot be    *)
(* read ends the run, this time and every other.                           *)
SyncScans ==
    /\ sync.phase = "idle"
    /\ manifest # Torn
    /\ sync' = [sync EXCEPT !.print = file.version,
                    !.phase = IF file.version \in {0, manifest} THEN "save" ELSE "read"]
    /\ UNCHANGED <<file, manifest, jobs, doc, cache, search, deleting, count>>

(* The content is read when it is submitted, after the fingerprint; a file *)
(* that is gone by then ends the run.                                      *)
SyncReads ==
    /\ sync.phase = "read"
    /\ sync' = IF file.version = 0 THEN IdleSync
               ELSE [sync EXCEPT !.phase = "post", !.content = file.version]
    /\ UNCHANGED <<file, manifest, jobs, doc, cache, search, deleting, count>>

SyncPosts ==
    /\ sync.phase = "post"
    /\ jobs' = Append(jobs, Job(sync.content))
    /\ sync' = [sync EXCEPT !.phase = "clear"]
    /\ UNCHANGED <<file, manifest, doc, cache, search, deleting, count>>

(* Mutant of SyncPostFails: the failure is taken for a submission. *)
SyncPostIgnored ==
    /\ sync.phase = "post" /\ Fault
    /\ sync' = [sync EXCEPT !.phase = "save"]
    /\ count' = Faulted
    /\ UNCHANGED <<file, manifest, jobs, doc, cache, search, deleting>>

(* The request is lost, or its answer; the manifest stays as it was.       *)
SyncPostFails ==
    /\ sync.phase = "post" /\ Fault
    /\ \/ UNCHANGED jobs
       \/ jobs' = Append(jobs, Job(sync.content))
    /\ sync' = IdleSync
    /\ count' = Faulted
    /\ UNCHANGED <<file, manifest, doc, cache, search, deleting>>

SyncClears ==
    /\ sync.phase = "clear"
    /\ Cleared
    /\ sync' = [sync EXCEPT !.phase = "save"]
    /\ UNCHANGED <<file, manifest, jobs, doc, deleting, count>>

SyncSaves ==
    /\ sync.phase = "save"
    /\ manifest' = sync.print
    /\ sync' = IdleSync
    /\ UNCHANGED <<file, jobs, doc, cache, search, deleting, count>>

-----------------------------------------------------------------------------
(* The job service runs the jobs beside one another, and ingests or fails  *)
(* them in any order; a job that is ingested overtakes those before it.    *)
Overtaken(i) == [k \in 1..Len(jobs) |-> IF k < i THEN [jobs[k] EXCEPT !.late = TRUE] ELSE jobs[k]]

JobIngests ==
    /\ \E i \in 1..Len(jobs) :
           /\ jobs' = RemoveAt(Overtaken(i), i)
           /\ doc' = jobs[i].content
           /\ count' = [count EXCEPT !.overtaken = jobs[i].late]
    /\ AllResults(Outdated)
    /\ UNCHANGED <<file, manifest, sync, deleting>>
JobFails ==
    /\ Fault
    /\ \E i \in 1..Len(jobs) : jobs' = RemoveAt(jobs, i)
    /\ count' = [Faulted EXCEPT !.failed = TRUE]
    /\ UNCHANGED <<file, manifest, sync, doc, cache, search, deleting>>

(* The client's process is killed.  The manifest is written in place, so a *)
(* crash while it is saved may leave a part of it, or nothing.             *)
Crash ==
    /\ Fault
    /\ count' = Faulted
    /\ \/ UNCHANGED manifest
       \/ sync.phase = "save" /\ manifest' = Torn
    /\ cache' = <<>> /\ search' = [s \in Searcher |-> IdleSearch]
    /\ sync' = IdleSync /\ deleting' = "none"
    /\ UNCHANGED <<file, jobs, doc>>

Tick ==
    /\ cache' = [i \in 1..Len(cache) |-> [cache[i] EXCEPT !.age = Older(@),
                                                          !.result.stale = Older(@)]]
    /\ search' = [s \in Searcher |->
                     IF search[s].phase = "idle" THEN search[s]
                     ELSE [search[s] EXCEPT !.age = Older(@), !.result.stale = Older(@)]]
    /\ UNCHANGED <<file, manifest, sync, jobs, doc, deleting, count>>

-----------------------------------------------------------------------------
SyncStep == SyncScans \/ SyncReads \/ SyncPosts \/ SyncClears \/ SyncSaves
Ask(s, q) == SearchHits(s, q) \/ SearchMisses(s, q)
Finish(s) == SearchAnswered(s) \/ SearchStores(s)

ClientNext ==
    \/ Edit \/ RemoveFile \/ SyncStep \/ SyncPostFails \/ JobIngests \/ JobFails
    \/ DeleteSends \/ DeleteAnswerLost \/ DeleteClears \/ Crash \/ Tick
    \/ \E s \in Searcher : Finish(s) \/ SearchFails(s) \/ \E q \in Query : Ask(s, q)

ClientSpec == ClientInit /\ [][ClientNext]_clientVars

(* The calls have time limits and the jobs end.  That synchronize is run   *)
(* again and again is up to the client's user.                             *)
ClientFairSpec ==
    /\ ClientSpec
    /\ WF_clientVars(SyncStep) /\ WF_clientVars(JobIngests) /\ WF_clientVars(Tick)
    /\ \A s \in Searcher : WF_clientVars(Finish(s))

-----------------------------------------------------------------------------
(* What the cache answers with has been outdated for no longer than its    *)
(* time to live: a result was still true at the time its entry carries     *)
(* (knowledge_query_cache.py 36, 49).  And although an ingestion clears    *)
(* the cache before its job has run, a deletion that has returned is only  *)
(* missed by the result of a search that the clear overtook.               *)
Truthful(e) ==
    /\ e.result.stale <= e.age
    /\ e.result.gone /\ deleting = "none" => e.overtaken
CacheTruthful == \A i \in 1..Len(cache) : Truthful(cache[i])

(* The inductive invariant: what a search has got will be as truthful an   *)
(* entry, and one that waits has nothing yet (ChatProxy_proofs).           *)
SearchTruthful(s) ==
    /\ search[s].phase # "idle" => search[s].query \in Query
    /\ search[s].phase = "sent" => search[s].result = IdleSearch.result
    /\ search[s].phase = "got" => Truthful(search[s])
ClientIInv == ClientTypeOK /\ CacheTruthful /\ \A s \in Searcher : SearchTruthful(s)

(* When the file is left alone, and no job fails and nobody deletes the    *)
(* document, whatever a search may answer with becomes the file's content, *)
(* whatever requests failed and crashes happened before, unless a crash    *)
(* tore the manifest (knowledge_sync.py 90), or the job that was ingested  *)
(* last was posted before another that was ingested (knowledge-jobs.rs     *)
(* 125, 238): the manifest has the fingerprint of the later one, and       *)
(* nothing submits it again.                                               *)
Answers == {doc} \cup {cache[i].result.version : i \in {k \in 1..Len(cache) : cache[k].age <= Ttl}}
FileGetsServed ==
    <>[](/\ file.version # 0 /\ count.deleted = 0 /\ manifest # Torn
         /\ ~count.failed /\ ~count.overtaken
         => Answers = {file.version})
=============================================================================
