--------------------------- MODULE KnowledgeService ---------------------------
(***************************************************************************)
(* The ingest, search and delete handlers of the retrieval service         *)
(* (rust/knowledge-service/src/main.rs) over the chunk store of            *)
(* knowledge-core (sqlite_store.rs).                                       *)
(*                                                                         *)
(* Handlers run in parallel on tokio's threads.  An ingest prepares its    *)
(* chunks and embeddings first; it then holds mutation_gate while it       *)
(* deletes the source's documents, one transaction each, and inserts the   *)
(* new one in a last transaction.  Nothing is awaited under the gate, so a *)
(* handler that is there runs on to its end unless a database call fails   *)
(* or the process stops.  Searches take no gate.                           *)
(*                                                                         *)
(* A document stands for its chunks in both tables, which every            *)
(* transaction changes together; its id is made of source and text.        *)
(***************************************************************************)
EXTENDS Integers, FiniteSets

CONSTANTS
    Source,      \* source_uri values
    Version,     \* extracted texts
    Request,     \* ingest requests
    SourceOf, VersionOf,
    Searcher,    \* search requests
    Free         \* no request holds the gate

ASSUME ServiceAssumption ==
    /\ SourceOf \in [Request -> Source]
    /\ VersionOf \in [Request -> Version]
    /\ Free \notin Request

Document == Source \X Version
DocumentOf(r) == <<SourceOf[r], VersionOf[r]>>
OfSource(s) == {s} \X Version

VARIABLES
    docs,      \* documents that have rows in knowledge_chunks
    stage,     \* where each ingest request is
    replaced,  \* replaced_document_ids it has yet to delete
    gate,      \* the request that holds mutation_gate, or Free
    latest,    \* for each source, the last ingest that entered the gate, or
               \* Free when delete_document came after it
    searching, \* where each search is
    hits       \* documents it has found

serviceVars == <<docs, stage, replaced, gate, latest, searching, hits>>
searchVars == <<searching, hits>>

Stage == {"none",
          "preparing",  \* extracts, chunks and embeds
          "queued",     \* waits for the gate
          "replacing",  \* holds the gate
          "ok", "failed",
          "lost"}       \* the service or the client went away

Answered == {"ok", "failed", "lost"}

ServiceTypeOK ==
    /\ docs \subseteq Document
    /\ stage \in [Request -> Stage]
    /\ replaced \in [Request -> SUBSET Document]
    /\ \A r \in Request : replaced[r] \subseteq OfSource(SourceOf[r])
    /\ gate \in Request \cup {Free}
    /\ latest \in [Source -> Request \cup {Free}]
    /\ searching \in [Searcher -> {"idle", "lexical", "done"}]
    /\ hits \in [Searcher -> SUBSET Document]

ServiceInit ==
    /\ docs = {}
    /\ stage = [r \in Request |-> "none"]
    /\ replaced = [r \in Request |-> {}]
    /\ gate = Free
    /\ latest = [s \in Source |-> Free]
    /\ searching = [q \in Searcher |-> "idle"]
    /\ hits = [q \in Searcher |-> {}]

SetStage(r, s) == stage' = [stage EXCEPT ![r] = s]

Receive(r) ==
    /\ stage[r] = "none"
    /\ SetStage(r, "preparing")
    /\ UNCHANGED <<docs, replaced, gate, latest, searchVars>>

Prepare(r) ==
    /\ stage[r] = "preparing"
    /\ SetStage(r, "queued")
    /\ UNCHANGED <<docs, replaced, gate, latest, searchVars>>

(* A bad request, an extraction or an embedding error, or no chunks. *)
Reject(r) ==
    /\ stage[r] = "preparing"
    /\ SetStage(r, "failed")
    /\ UNCHANGED <<docs, replaced, gate, latest, searchVars>>

(* Mutant of DocumentIdsForSource: no test of the metadata's source_uri. *)
AllDocumentIds(s) == docs

DocumentIdsForSource(s) == docs \cap OfSource(s)

(* Mutant of GateOpen: handlers do not lock mutation_gate. *)
NoGate == TRUE

GateOpen == gate = Free

EnterGate(r) ==
    /\ stage[r] = "queued"
    /\ GateOpen
    /\ gate' = r
    /\ replaced' = [replaced EXCEPT ![r] = DocumentIdsForSource(SourceOf[r])]
    /\ latest' = [latest EXCEPT ![SourceOf[r]] = r]
    /\ SetStage(r, "replacing")
    /\ UNCHANGED <<docs, searchVars>>

(* delete_document_rows, one transaction for each replaced document. *)
DeleteReplaced(r) ==
    /\ stage[r] = "replacing"
    /\ \E d \in replaced[r] :
          /\ docs' = docs \ {d}
          /\ replaced' = [replaced EXCEPT ![r] = @ \ {d}]
    /\ UNCHANGED <<stage, gate, latest, searchVars>>

(* Mutant of Upsert: the new chunks are inserted before the old ones go. *)
UpsertFirst(r) ==
    /\ stage[r] = "replacing"
    /\ docs' = docs \cup {DocumentOf(r)}
    /\ SetStage(r, "ok")
    /\ gate' = Free
    /\ UNCHANGED <<replaced, latest, searchVars>>

Upsert(r) ==
    /\ stage[r] = "replacing"
    /\ replaced[r] = {}
    /\ docs' = docs \cup {DocumentOf(r)}
    /\ SetStage(r, "ok")
    /\ gate' = Free
    /\ UNCHANGED <<replaced, latest, searchVars>>

(* Mutant of FailMutation: the gate is not released on an error. *)
FailMutationKeepsGate(r) ==
    /\ stage[r] = "replacing"
    /\ SetStage(r, "failed")
    /\ replaced' = [replaced EXCEPT ![r] = {}]
    /\ UNCHANGED <<docs, gate, latest, searchVars>>

(* A database call fails; what was deleted stays deleted. *)
FailMutation(r) ==
    /\ stage[r] = "replacing"
    /\ SetStage(r, "failed")
    /\ gate' = Free
    /\ replaced' = [replaced EXCEPT ![r] = {}]
    /\ UNCHANGED <<docs, latest, searchVars>>

(* The client goes away: the handler is dropped where it awaits. *)
Drop(r) ==
    /\ stage[r] \in {"preparing", "queued"}
    /\ SetStage(r, "lost")
    /\ UNCHANGED <<docs, replaced, gate, latest, searchVars>>

DeleteDocument(d) ==
    /\ GateOpen
    /\ docs' = docs \ {d}
    /\ latest' = [latest EXCEPT ![d[1]] = Free]
    /\ UNCHANGED <<stage, replaced, gate, searchVars>>

(* hybrid_search takes the connection twice.  The query matches every      *)
(* document and no candidate limit is met.                                 *)
LexicalSearch(q) ==
    /\ searching[q] = "idle"
    /\ hits' = [hits EXCEPT ![q] = docs]
    /\ searching' = [searching EXCEPT ![q] = "lexical"]
    /\ UNCHANGED <<docs, stage, replaced, gate, latest>>

VectorSearch(q) ==
    /\ searching[q] = "lexical"
    /\ hits' = [hits EXCEPT ![q] = @ \cup docs]
    /\ searching' = [searching EXCEPT ![q] = "done"]
    /\ UNCHANGED <<docs, stage, replaced, gate, latest>>

EndSearch(q) ==
    /\ searching[q] = "done"
    /\ hits' = [hits EXCEPT ![q] = {}]
    /\ searching' = [searching EXCEPT ![q] = "idle"]
    /\ UNCHANGED <<docs, stage, replaced, gate, latest>>

(* The service stops and is started again; SQLite keeps what was committed. *)
Restart ==
    /\ stage' = [r \in Request |->
                    IF stage[r] \in {"preparing", "queued", "replacing"}
                    THEN "lost" ELSE stage[r]]
    /\ replaced' = [r \in Request |-> {}]
    /\ gate' = Free
    /\ searching' = [q \in Searcher |-> "idle"]
    /\ hits' = [q \in Searcher |-> {}]
    /\ UNCHANGED <<docs, latest>>

IngestStep(r) == \/ Prepare(r) \/ Reject(r) \/ EnterGate(r) \/ DeleteReplaced(r)
                 \/ Upsert(r) \/ FailMutation(r)
SearchStep(q) == LexicalSearch(q) \/ VectorSearch(q) \/ EndSearch(q)

ServiceNext ==
    \/ \E r \in Request : Receive(r) \/ IngestStep(r) \/ Drop(r)
    \/ \E d \in Document : DeleteDocument(d)
    \/ \E q \in Searcher : SearchStep(q)
    \/ Restart

ServiceSpec == ServiceInit /\ [][ServiceNext]_serviceVars

-----------------------------------------------------------------------------
(* Properties.                                                             *)

(* Two versions of a source are never stored together, whatever ingests    *)
(* race, fail or are cut off (docs/knowledge.md: a re-ingest replaces      *)
(* every previous version before the new chunks become searchable).        *)
OneVersion ==
    \A d, e \in docs : d[1] = e[1] => d = e

(* An ingest that answered is what the store holds for its source until    *)
(* another ingest or a deletion of that source enters the gate: no other   *)
(* request that was under way can undo it.                                 *)
AnsweredIsStored ==
    \A s \in Source :
        latest[s] # Free /\ stage[latest[s]] = "ok"
        => docs \cap OfSource(s) = {DocumentOf(latest[s])}

(* Every ingest is answered: no failure or restart leaves the gate shut.   *)
(* (Checked where fairness is stated, in KnowledgeJobs.)                   *)
IngestsEnd ==
    \A r \in Request : (stage[r] = "preparing") ~> (stage[r] \in Answered)

(* docs/knowledge.md as a search sees it: it never finds two versions of   *)
(* one source.  The service violates this (README, section 5): the halves  *)
(* of a hybrid search see different states.                                *)
SearchSeesOneVersion ==
    \A q \in Searcher : \A d, e \in hits[q] : d[1] = e[1] => d = e

(* The inductive invariant: the gate is held exactly by the request that   *)
(* replaces, whose list holds what is left of its source, and which is the *)
(* latest of its source.                                                   *)
GateHolder ==
    \A r \in Request :
        /\ stage[r] = "replacing" <=> gate = r
        /\ stage[r] = "replacing" => /\ latest[SourceOf[r]] = r
                                     /\ replaced[r] = DocumentIdsForSource(SourceOf[r])
LatestOfSource ==
    \A s \in Source : latest[s] # Free => SourceOf[latest[s]] = s

ServiceIInv == /\ ServiceTypeOK /\ GateHolder /\ LatestOfSource
               /\ OneVersion /\ AnsweredIsStored
=============================================================================
