-------------------------- MODULE KnowledgeJobs_proofs --------------------------
(***************************************************************************)
(* Proofs about KnowledgeService and KnowledgeJobs.  Of the retrieval      *)
(* service by itself: mutation_gate keeps one version of every source, and *)
(* what an answered ingest stored stays stored.  Of the two together: jobs *)
(* and their posts are a client of the service, settle every job once and  *)
(* for good, never leave one that is not settled without a task while the  *)
(* process runs, and the later of two jobs for one source wins.            *)
(***************************************************************************)
EXTENDS KnowledgeJobs, FiniteSetTheorems, TLAPS

-----------------------------------------------------------------------------
(* The retrieval service by itself.                                        *)

(* Documents of different sources differ. *)
LEMMA SourcesDisjoint ==
  ASSUME NEW s, NEW u, s # u PROVE OfSource(s) \cap OfSource(u) = {}
  BY DEF OfSource

(* A request's document is one of its source. *)
LEMMA DocumentType ==
  ASSUME NEW r \in Request
  PROVE  DocumentOf(r) \in Document /\ DocumentOf(r) \in OfSource(SourceOf[r])
  BY ServiceAssumption DEF Document, DocumentOf, OfSource

(* The initial state satisfies the invariant. *)
LEMMA ServiceInitHolds == ServiceInit => ServiceIInv
  BY ServiceAssumption
  DEF ServiceInit, ServiceIInv, ServiceTypeOK, GateHolder, LatestOfSource, OneVersion,
      AnsweredIsStored, Stage

(* A step that leaves the store, the gate and the replacing requests alone *)
(* and answers nobody keeps the invariant.                                 *)
LEMMA QuietStep ==
  ASSUME ServiceIInv, ServiceTypeOK', UNCHANGED <<docs, replaced, gate, latest>>,
         \A r \in Request : /\ stage'[r] = "replacing" <=> stage[r] = "replacing"
                            /\ stage'[r] = "ok" => stage[r] = "ok"
  PROVE  ServiceIInv'
<1>1. GateHolder'
  BY DEF ServiceIInv, GateHolder, DocumentIdsForSource
<1>2. LatestOfSource' /\ OneVersion'
  BY DEF ServiceIInv, LatestOfSource, OneVersion
<1>3. AnsweredIsStored'
  BY DEF ServiceIInv, ServiceTypeOK, AnsweredIsStored
<1> QED
  BY <1>1, <1>2, <1>3 DEF ServiceIInv

(* Every step keeps the types. *)
LEMMA ServiceTypeStep == ServiceTypeOK /\ [ServiceNext]_serviceVars => ServiceTypeOK'
<1> SUFFICES ASSUME ServiceTypeOK, [ServiceNext]_serviceVars PROVE ServiceTypeOK'
  OBVIOUS
<1> USE ServiceAssumption DEF ServiceTypeOK
<1>1. ASSUME NEW r \in Request, Receive(r) \/ Prepare(r) \/ Reject(r) \/ Drop(r)
      PROVE  ServiceTypeOK'
  BY <1>1 DEF Receive, Prepare, Reject, Drop, SetStage, Stage, searchVars
<1>2. ASSUME NEW r \in Request, EnterGate(r) PROVE ServiceTypeOK'
  <2>1. DocumentIdsForSource(SourceOf[r]) \subseteq Document \cap OfSource(SourceOf[r])
    BY DEF DocumentIdsForSource
  <2> QED
    BY <1>2, <2>1 DEF EnterGate, SetStage, Stage, searchVars
<1>3. ASSUME NEW r \in Request, DeleteReplaced(r) PROVE ServiceTypeOK'
  BY <1>3 DEF DeleteReplaced, searchVars
<1>4. ASSUME NEW r \in Request, Upsert(r) PROVE ServiceTypeOK'
  BY <1>4, DocumentType DEF Upsert, SetStage, Stage, searchVars
<1>5. ASSUME NEW r \in Request, FailMutation(r) PROVE ServiceTypeOK'
  BY <1>5 DEF FailMutation, SetStage, Stage, searchVars
<1>6. ASSUME NEW d \in Document, DeleteDocument(d) PROVE ServiceTypeOK'
  BY <1>6 DEF DeleteDocument, searchVars
<1>7. ASSUME NEW q \in Searcher, SearchStep(q) PROVE ServiceTypeOK'
  BY <1>7 DEF SearchStep, LexicalSearch, VectorSearch, EndSearch
<1>8. CASE Restart
  BY <1>8 DEF Restart, Stage
<1>9. CASE UNCHANGED serviceVars
  BY <1>9 DEF serviceVars
<1> QED
  BY <1>1, <1>2, <1>3, <1>4, <1>5, <1>6, <1>7, <1>8, <1>9 DEF ServiceNext, IngestStep

(* Every step keeps the invariant. *)
LEMMA ServiceInductive == ServiceIInv /\ [ServiceNext]_serviceVars => ServiceIInv'
<1> SUFFICES ASSUME ServiceIInv, [ServiceNext]_serviceVars PROVE ServiceIInv'
  OBVIOUS
<1> ServiceTypeOK /\ ServiceTypeOK'
  BY ServiceTypeStep DEF ServiceIInv
<1> USE ServiceAssumption
<1>1. ASSUME NEW r \in Request, Receive(r) \/ Prepare(r) \/ Reject(r) \/ Drop(r)
      PROVE  ServiceIInv'
  BY <1>1, QuietStep DEF Receive, Prepare, Reject, Drop, SetStage, ServiceTypeOK
<1>2. ASSUME NEW r \in Request, EnterGate(r) PROVE ServiceIInv'
  <2>1. \A u \in Request : stage[u] # "replacing"
    BY <1>2 DEF EnterGate, GateOpen, ServiceIInv, GateHolder
  <2>2. /\ stage' = [stage EXCEPT ![r] = "replacing"] /\ gate' = r /\ docs' = docs
        /\ latest' = [latest EXCEPT ![SourceOf[r]] = r]
        /\ replaced' = [replaced EXCEPT ![r] = DocumentIdsForSource(SourceOf[r])]
    BY <1>2 DEF EnterGate, SetStage
  <2>3. GateHolder'
    BY <2>1, <2>2 DEF GateHolder, DocumentIdsForSource, ServiceTypeOK
  <2>4. LatestOfSource' /\ OneVersion'
    BY <2>2 DEF ServiceIInv, LatestOfSource, OneVersion, ServiceTypeOK
  <2>5. AnsweredIsStored'
    BY <2>2 DEF ServiceIInv, AnsweredIsStored, ServiceTypeOK
  <2> QED
    BY <2>3, <2>4, <2>5 DEF ServiceIInv
<1>3. ASSUME NEW r \in Request, DeleteReplaced(r) PROVE ServiceIInv'
  <2>1. PICK d \in replaced[r] : /\ docs' = docs \ {d}
                                 /\ replaced' = [replaced EXCEPT ![r] = @ \ {d}]
    BY <1>3 DEF DeleteReplaced
  <2>2. /\ stage[r] = "replacing" /\ UNCHANGED <<stage, gate, latest>>
    BY <1>3 DEF DeleteReplaced
  <2>3. d \in OfSource(SourceOf[r]) /\ gate = r /\ latest[SourceOf[r]] = r
    BY <2>2 DEF ServiceTypeOK, ServiceIInv, GateHolder
  <2>4. GateHolder'
    BY <2>1, <2>2, <2>3 DEF ServiceIInv, GateHolder, DocumentIdsForSource, ServiceTypeOK
  <2>5. LatestOfSource' /\ OneVersion'
    BY <2>1, <2>2 DEF ServiceIInv, LatestOfSource, OneVersion
  <2>6. ASSUME NEW s \in Source, latest[s] # Free, stage[latest[s]] = "ok"
        PROVE  docs' \cap OfSource(s) = {DocumentOf(latest[s])}
    <3>1. s # SourceOf[r]
      BY <2>2, <2>3, <2>6
    <3>2. d \notin OfSource(s)
      BY <2>3, <3>1, SourcesDisjoint
    <3> QED
      BY <2>1, <2>6, <3>2 DEF ServiceIInv, AnsweredIsStored
  <2>7. AnsweredIsStored'
    BY <2>2, <2>6 DEF AnsweredIsStored
  <2> QED
    BY <2>4, <2>5, <2>7 DEF ServiceIInv
<1>4. ASSUME NEW r \in Request, Upsert(r) PROVE ServiceIInv'
  <2> DEFINE s == SourceOf[r]
  <2>1. /\ stage[r] = "replacing" /\ replaced[r] = {} /\ gate' = Free
        /\ docs' = docs \cup {DocumentOf(r)}
        /\ stage' = [stage EXCEPT ![r] = "ok"]
        /\ UNCHANGED <<replaced, latest>>
    BY <1>4 DEF Upsert, SetStage
  <2>2. docs \cap OfSource(s) = {} /\ gate = r /\ latest[s] = r
    BY <2>1 DEF ServiceIInv, GateHolder, DocumentIdsForSource
  <2>3. \A u \in Request : stage'[u] # "replacing"
    BY <2>1, <2>2 DEF ServiceIInv, GateHolder, ServiceTypeOK
  <2>4. GateHolder'
    BY <2>1, <2>3 DEF GateHolder
  <2>5. DocumentOf(r) \in Document /\ DocumentOf(r) \in OfSource(s)
    BY DocumentType
  <2>6. OneVersion'
    <3>1. \A d \in docs : d[1] # s
      BY <2>2 DEF ServiceTypeOK, Document, OfSource
    <3>2. DocumentOf(r)[1] = s
      BY DEF DocumentOf
    <3> QED
      BY <2>1, <3>1, <3>2 DEF OneVersion, ServiceIInv
  <2>7. ASSUME NEW u \in Source, latest[u] # Free, stage'[latest[u]] = "ok"
        PROVE  docs' \cap OfSource(u) = {DocumentOf(latest[u])}
    <3>1. CASE u = s
      BY <2>1, <2>2, <2>5, <3>1
    <3>2. CASE u # s
      <4>1. latest[u] # r
        BY <2>7, <3>2 DEF ServiceIInv, LatestOfSource
      <4>2. stage[latest[u]] = "ok"
        BY <2>1, <2>7, <4>1 DEF ServiceTypeOK
      <4>3. DocumentOf(r) \notin OfSource(u)
        BY <2>5, <3>2, SourcesDisjoint
      <4> QED
        BY <2>1, <2>7, <4>2, <4>3 DEF ServiceIInv, AnsweredIsStored
    <3> QED
      BY <3>1, <3>2
  <2>8. AnsweredIsStored' /\ LatestOfSource'
    BY <2>1, <2>7 DEF AnsweredIsStored, LatestOfSource, ServiceIInv
  <2> QED
    BY <2>4, <2>6, <2>8 DEF ServiceIInv
<1>5. ASSUME NEW r \in Request, FailMutation(r) PROVE ServiceIInv'
  <2>1. /\ stage[r] = "replacing" /\ gate' = Free /\ UNCHANGED <<docs, latest>>
        /\ stage' = [stage EXCEPT ![r] = "failed"]
    BY <1>5 DEF FailMutation, SetStage
  <2>2. \A u \in Request : stage'[u] # "replacing" /\ (stage'[u] = "ok" => stage[u] = "ok")
    BY <2>1 DEF ServiceIInv, GateHolder, ServiceTypeOK
  <2>3. GateHolder' /\ LatestOfSource' /\ OneVersion'
    BY <2>1, <2>2 DEF ServiceIInv, GateHolder, LatestOfSource, OneVersion
  <2>4. AnsweredIsStored'
    BY <2>1, <2>2 DEF ServiceIInv, AnsweredIsStored, ServiceTypeOK
  <2> QED
    BY <2>3, <2>4 DEF ServiceIInv
<1>6. ASSUME NEW d \in Document, DeleteDocument(d) PROVE ServiceIInv'
  <2>1. /\ gate = Free /\ docs' = docs \ {d} /\ latest' = [latest EXCEPT ![d[1]] = Free]
        /\ UNCHANGED <<stage, replaced, gate>>
    BY <1>6 DEF DeleteDocument, GateOpen
  <2>2. \A u \in Request : stage[u] # "replacing"
    BY <2>1 DEF ServiceIInv, GateHolder
  <2>3. GateHolder' /\ LatestOfSource' /\ OneVersion'
    BY <2>1, <2>2 DEF ServiceIInv, GateHolder, LatestOfSource, OneVersion, ServiceTypeOK
  <2>4. ASSUME NEW s \in Source, latest'[s] # Free, stage[latest'[s]] = "ok"
        PROVE  docs' \cap OfSource(s) = {DocumentOf(latest'[s])}
    <3>1. s # d[1] /\ latest'[s] = latest[s]
      BY <2>1, <2>4 DEF ServiceTypeOK
    <3>2. d \notin OfSource(s)
      BY <3>1 DEF OfSource
    <3> QED
      BY <2>1, <2>4, <3>1, <3>2 DEF ServiceIInv, AnsweredIsStored
  <2>5. AnsweredIsStored'
    BY <2>1, <2>4 DEF AnsweredIsStored
  <2> QED
    BY <2>3, <2>5 DEF ServiceIInv
<1>7. ASSUME NEW q \in Searcher, SearchStep(q) PROVE ServiceIInv'
  BY <1>7, QuietStep DEF SearchStep, LexicalSearch, VectorSearch, EndSearch
<1>8. CASE Restart
  <2>1. /\ gate' = Free /\ UNCHANGED <<docs, latest>>
        /\ \A u \in Request : stage'[u] # "replacing" /\ (stage'[u] = "ok" => stage[u] = "ok")
    BY <1>8 DEF Restart
  <2>2. GateHolder' /\ LatestOfSource' /\ OneVersion'
    BY <2>1 DEF ServiceIInv, GateHolder, LatestOfSource, OneVersion
  <2>3. AnsweredIsStored'
    BY <2>1 DEF ServiceIInv, AnsweredIsStored, ServiceTypeOK
  <2> QED
    BY <2>2, <2>3 DEF ServiceIInv
<1>9. CASE UNCHANGED serviceVars
  BY <1>9, QuietStep DEF serviceVars
<1> QED
  BY <1>1, <1>2, <1>3, <1>4, <1>5, <1>6, <1>7, <1>8, <1>9 DEF ServiceNext, IngestStep

(* The gate's holder replaces the documents of its own source, which no    *)
(* other request can change meanwhile.                                     *)
THEOREM ServiceInvariant == ServiceSpec => []ServiceIInv
  BY ServiceInitHolds, ServiceInductive, PTL DEF ServiceSpec

(* All variables have their types. *)
THEOREM ServiceTypeCorrect == ServiceSpec => []ServiceTypeOK
<1>1. ServiceIInv => ServiceTypeOK
  BY DEF ServiceIInv
<1> QED
  BY <1>1, ServiceInvariant, PTL

(* Two versions of one source are never stored together. *)
THEOREM OneVersionHolds == ServiceSpec => []OneVersion
<1>1. ServiceIInv => OneVersion
  BY DEF ServiceIInv
<1> QED
  BY <1>1, ServiceInvariant, PTL

(* An answered ingest is what the store holds until the next mutation of   *)
(* its source.                                                             *)
THEOREM AnsweredIsStoredHolds == ServiceSpec => []AnsweredIsStored
<1>1. ServiceIInv => AnsweredIsStored
  BY DEF ServiceIInv
<1> QED
  BY <1>1, ServiceInvariant, PTL

-----------------------------------------------------------------------------
(* The jobs and their posts.                                               *)

(* The request of a job's task, in every start of the process.             *)
LEMMA RequestType ==
  ASSUME NEW j \in Job, NEW e \in 1..MaxEpoch
  PROVE  <<j, e>> \in Request /\ <<j, e>>[1] = j
  BY JobsAssumption

(* Every step of the composition is a step of the retrieval service or     *)
(* leaves it alone.                                                        *)
LEMMA ServiceSteps ==
  ASSUME JobsTypeOK, [Next]_vars PROVE [ServiceNext]_serviceVars
<1>1. ASSUME NEW j \in Job, Post(j) PROVE ServiceNext
  <2>1. RequestOf(j) \in Request
    BY RequestType DEF JobsTypeOK, RequestOf
  <2> QED
    BY <1>1, <2>1 DEF Post, ServiceNext
<1>2. ASSUME NEW j \in Job, TaskStep(j), ~Post(j) PROVE UNCHANGED serviceVars
  BY <1>2 DEF TaskStep, Spawn, TakePermit, SkipCancelled, MarkRunning, PostFails, TakeAnswer,
     AnswerLost, DropAnswer, AcceptAnswer, RefuseAnswer, FinishSucceeded, FinishFailed, Fail
<1>3. ASSUME NEW j \in Job,
             \/ Enqueue(j) \/ Cancel(j) \/ ReadBackFails(j) \/ StatementFails(j)
             \/ FinishFails(j) \/ ConnectionBreaks(j)
      PROVE  UNCHANGED serviceVars
  BY <1>3 DEF Enqueue, Cancel, ReadBackFails, StatementFails, FinishFails, ConnectionBreaks, Fail
<1>4. CASE Crash \/ Start
  BY <1>4 DEF Crash, Start
<1>5. ASSUME NEW r \in Request, RetrievalStep(r) \/ Drop(r) PROVE ServiceNext
  BY <1>5 DEF RetrievalStep, ServiceNext
<1>6. CASE UNCHANGED vars
  BY <1>6 DEF vars
<1> QED
  BY <1>1, <1>2, <1>3, <1>4, <1>5, <1>6 DEF Next, ServiceNext

-----------------------------------------------------------------------------
(* The tasks that have a permit. *)
Holders == {j \in Job : task[j] \in HasPermit}

(* They are finitely many. *)
LEMMA HoldersFinite == IsFiniteSet(Holders) /\ IsFiniteSet(Holders')
  BY JobsAssumption, FS_Subset DEF Holders

(* A permit goes with its task, whatever else a step does.                 *)
LEMMA PermitMoves ==
  ASSUME JobsTypeOK, NEW j \in Job, NEW t, SetTask(j, t),
         permits' = permits + (IF task[j] \in HasPermit THEN 1 ELSE 0)
                            - (IF t \in HasPermit THEN 1 ELSE 0)
  PROVE  PermitsCounted'
<1>1. task \in [Job -> Task] /\ permits \in Nat
  BY DEF JobsTypeOK
<1>2. Cardinality(Holders) \in Nat /\ Cardinality(Holders) + permits = Concurrency
  BY HoldersFinite, FS_CardinalityType DEF JobsTypeOK, PermitsCounted, Holders
<1>3. j \in Holders <=> task[j] \in HasPermit
  BY DEF Holders
<1>4. CASE t \in HasPermit
  <2>1. Holders' = Holders \cup {j}
    BY <1>1, <1>4 DEF SetTask, Holders
  <2>2. Cardinality(Holders') = IF j \in Holders THEN Cardinality(Holders)
                                ELSE Cardinality(Holders) + 1
    BY <2>1, HoldersFinite, FS_AddElement
  <2>3. Cardinality(Holders') + permits' = Concurrency
    BY <1>1, <1>2, <1>3, <1>4, <2>2
  <2> QED
    BY <2>3 DEF PermitsCounted, Holders
<1>5. CASE t \notin HasPermit
  <2>1. Holders' = Holders \ {j}
    BY <1>1, <1>5 DEF SetTask, Holders
  <2>2. Cardinality(Holders') = IF j \in Holders THEN Cardinality(Holders) - 1
                                ELSE Cardinality(Holders)
    BY <2>1, HoldersFinite, FS_RemoveElement
  <2>3. Cardinality(Holders') + permits' = Concurrency
    BY <1>1, <1>2, <1>3, <1>5, <2>2
  <2> QED
    BY <2>3 DEF PermitsCounted, Holders
<1> QED
  BY <1>4, <1>5

(* A task that fails gives its permit back, if it has one. *)
LEMMA FailReleases ==
  ASSUME JobsTypeOK, NEW j \in Job, Fail(j)
  PROVE  PermitsCounted'
<1>1. SetTask(j, "failing") /\ "failing" \notin HasPermit
  BY DEF Fail, HasPermit
<1>2. permits' = permits + (IF task[j] \in HasPermit THEN 1 ELSE 0) - 0
  BY DEF Fail, ReleasePermit, JobsTypeOK
<1> QED
  BY <1>1, <1>2, PermitMoves

(* No step loses a permit or gives one twice. *)
LEMMA PermitStep == JobsIInv /\ [Next]_vars => PermitsCounted'
<1> SUFFICES ASSUME JobsIInv, [Next]_vars PROVE PermitsCounted'
  OBVIOUS
<1>0. JobsTypeOK /\ permits \in Nat /\ PermitsCounted /\ TaskMatchesJob
  BY DEF JobsIInv, JobsTypeOK
<1>1. ASSUME UNCHANGED <<task, permits>> PROVE PermitsCounted'
  BY <1>0, <1>1 DEF PermitsCounted
<1>2. ASSUME NEW j \in Job, NEW t, SetTask(j, t), UNCHANGED permits,
             task[j] \in HasPermit <=> t \in HasPermit
      PROVE  PermitsCounted'
  <2>1. permits' = permits + (IF task[j] \in HasPermit THEN 1 ELSE 0)
                           - (IF t \in HasPermit THEN 1 ELSE 0)
    BY <1>0, <1>2
  <2> QED
    BY <1>0, <1>2, <2>1, PermitMoves
<1>3. ASSUME NEW j \in Job, Enqueue(j) PROVE PermitsCounted'
  <2>1. task[j] = "none" /\ SetTask(j, "inserted") /\ UNCHANGED permits
    BY <1>0, <1>3 DEF Enqueue, TaskMatchesJob, Unfinished
  <2> QED
    BY <1>2, <2>1 DEF HasPermit
<1>4. ASSUME NEW j \in Job, Cancel(j) PROVE PermitsCounted'
  BY <1>1, <1>4 DEF Cancel
<1>5. ASSUME NEW j \in Job,
             \/ Spawn(j) \/ ReadBackFails(j) \/ SkipCancelled(j) \/ MarkRunning(j) \/ Post(j)
             \/ TakeAnswer(j) \/ AcceptAnswer(j) \/ FinishFailed(j) \/ FinishFails(j)
      PROVE  PermitsCounted'
  <2>1. CASE Spawn(j)
    BY <1>2, <2>1 DEF Spawn, HasPermit
  <2>2. CASE ReadBackFails(j)
    BY <1>2, <2>2 DEF ReadBackFails, HasPermit
  <2>3. CASE SkipCancelled(j)
    BY <1>2, <2>3 DEF SkipCancelled, HasPermit
  <2>4. CASE MarkRunning(j)
    BY <1>2, <2>4 DEF MarkRunning, HasPermit
  <2>5. CASE Post(j)
    BY <1>2, <2>5 DEF Post, HasPermit
  <2>6. CASE TakeAnswer(j)
    BY <1>2, <2>6 DEF TakeAnswer, HasPermit
  <2>7. CASE AcceptAnswer(j)
    BY <1>2, <2>7 DEF AcceptAnswer, HasPermit
  <2>8. CASE FinishFailed(j)
    BY <1>2, <2>8 DEF FinishFailed, HasPermit
  <2>9. CASE FinishFails(j)
    BY <1>2, <2>9 DEF FinishFails, HasPermit
  <2> QED
    BY <1>5, <2>1, <2>2, <2>3, <2>4, <2>5, <2>6, <2>7, <2>8, <2>9
<1>6. ASSUME NEW j \in Job, TakePermit(j) PROVE PermitsCounted'
  <2>1. /\ task[j] \notin HasPermit /\ "checked" \in HasPermit
        /\ SetTask(j, "checked") /\ permits' = permits - 1
    BY <1>6 DEF TakePermit, HasPermit
  <2>2. permits' = permits + (IF task[j] \in HasPermit THEN 1 ELSE 0)
                           - (IF "checked" \in HasPermit THEN 1 ELSE 0)
    BY <1>0, <2>1
  <2> QED
    BY <1>0, <2>1, <2>2, PermitMoves
<1>7. ASSUME NEW j \in Job,
             \/ PostFails(j) \/ AnswerLost(j) \/ ConnectionBreaks(j) \/ RefuseAnswer(j)
             \/ StatementFails(j)
      PROVE  PermitsCounted'
  BY <1>0, <1>7, FailReleases
  DEF PostFails, AnswerLost, ConnectionBreaks, RefuseAnswer, StatementFails
<1>8. ASSUME NEW j \in Job, DropAnswer(j) \/ FinishSucceeded(j) PROVE PermitsCounted'
  <2>1. SetTask(j, "none") /\ "none" \notin HasPermit /\ ReleasePermit(j)
    BY <1>8 DEF DropAnswer, FinishSucceeded, HasPermit
  <2>2. permits' = permits + (IF task[j] \in HasPermit THEN 1 ELSE 0)
                           - (IF "none" \in HasPermit THEN 1 ELSE 0)
    BY <1>0, <2>1 DEF ReleasePermit
  <2> QED
    BY <1>0, <2>1, <2>2, PermitMoves
<1>9. ASSUME \A k \in Job : task'[k] \notin HasPermit, permits' = Concurrency
      PROVE  PermitsCounted'
  <2>1. {k \in Job : task'[k] \in HasPermit} = {}
    BY <1>9
  <2>2. Cardinality({k \in Job : task'[k] \in HasPermit}) = 0
    BY <2>1, FS_EmptySet
  <2> QED
    BY <1>9, <2>2, JobsAssumption DEF PermitsCounted
<1>10. CASE Crash
  BY <1>9, <1>10 DEF Crash, HasPermit
<1>11. CASE Start
  <2>1. \A k \in Job : task[k] = "none"
    BY <1>0, <1>11 DEF Start, TaskMatchesJob
  <2>2. Holders = {}
    BY <2>1 DEF Holders, HasPermit
  <2>3. permits = Concurrency
    BY <1>0, <2>2, FS_EmptySet, JobsAssumption DEF PermitsCounted, Holders
  <2> QED
    BY <1>9, <1>11, <2>3 DEF Start, HasPermit
<1>12. CASE UNCHANGED jobVars
  BY <1>1, <1>12 DEF jobVars
<1> QED
  BY <1>3, <1>4, <1>5, <1>6, <1>7, <1>8, <1>10, <1>11, <1>12
  DEF Next, TaskStep, RetrievalStep, vars

(* The initial state satisfies the invariant.                              *)
LEMMA JobsInit == Init => JobsIInv
<1> SUFFICES ASSUME Init PROVE JobsIInv
  OBVIOUS
<1>1. ServiceTypeOK
  BY ServiceInitHolds DEF Init, ServiceIInv
<1>2. PermitsCounted
  <2>1. Holders = {}
    BY DEF Init, Holders, HasPermit
  <2>2. Cardinality(Holders) = 0 /\ permits = Concurrency /\ Concurrency \in Nat
    BY <2>1, FS_EmptySet, JobsAssumption DEF Init
  <2> QED
    BY <2>2 DEF PermitsCounted, Holders
<1>2a. JobsTypeOK
  BY <1>1, <1>2, JobsAssumption DEF Init, JobsTypeOK, Status, Task
<1>3. TaskMatchesJob /\ RequestsOfJobs
  BY JobsAssumption DEF Init, ServiceInit, TaskMatchesJob, RequestsOfJobs
<1> QED
  BY <1>2a, <1>3 DEF JobsIInv

(* Every step keeps the types. *)
LEMMA JobsTypeStep == JobsIInv /\ [Next]_vars => JobsTypeOK'
<1> SUFFICES ASSUME JobsIInv, [Next]_vars PROVE JobsTypeOK'
  OBVIOUS
<1>0. JobsTypeOK
  BY DEF JobsIInv
<1>1. ServiceTypeOK' /\ PermitsCounted'
  BY <1>0, ServiceSteps, ServiceTypeStep, PermitStep DEF JobsTypeOK
<1> USE <1>0, JobsAssumption DEF JobsTypeOK, Status, Task, SetTask
<1>2. ASSUME NEW j \in Job, Enqueue(j) \/ Spawn(j) \/ ReadBackFails(j) \/ Cancel(j)
      PROVE  JobsTypeOK'
  BY <1>1, <1>2 DEF Enqueue, Spawn, ReadBackFails, Cancel
<1>3. ASSUME NEW j \in Job, TakePermit(j) PROVE JobsTypeOK'
  BY <1>1, <1>3 DEF TakePermit, PermitFree
<1>4. ASSUME NEW j \in Job,
             \/ SkipCancelled(j) \/ MarkRunning(j) \/ Post(j) \/ TakeAnswer(j)
             \/ AcceptAnswer(j)
      PROVE  JobsTypeOK'
  BY <1>1, <1>4 DEF SkipCancelled, MarkRunning, Post, TakeAnswer, AcceptAnswer
<1>5. ASSUME NEW j \in Job, Fail(j), faults' \in 0..MaxFaults, broken' \in 0..MaxBroken
      PROVE  JobsTypeOK'
  BY <1>1, <1>5 DEF Fail, ReleasePermit
<1>6. ASSUME NEW j \in Job,
             \/ PostFails(j) \/ AnswerLost(j) \/ ConnectionBreaks(j) \/ RefuseAnswer(j)
             \/ StatementFails(j)
      PROVE  JobsTypeOK'
  BY <1>5, <1>6 DEF PostFails, AnswerLost, ConnectionBreaks, RefuseAnswer, StatementFails
<1>7. ASSUME NEW j \in Job, DropAnswer(j) \/ FinishSucceeded(j) \/ FinishFailed(j) \/ FinishFails(j)
      PROVE  JobsTypeOK'
  BY <1>1, <1>7
  DEF DropAnswer, FinishSucceeded, FinishFailed, FinishFails, FinishedStatus, ReleasePermit
<1>8. CASE Crash
  BY <1>1, <1>8 DEF Crash
<1>9. CASE Start
  <2>1. epoch + 1 \in 1..MaxEpoch
    BY <1>9 DEF Start
  <2> QED
    BY <1>1, <1>9, <2>1 DEF Start, RecoveredStatus
<1>10. CASE UNCHANGED jobVars
  BY <1>1, <1>10 DEF jobVars
<1> QED
  BY <1>2, <1>3, <1>4, <1>6, <1>7, <1>8, <1>9, <1>10
  DEF Next, TaskStep, RetrievalStep, vars

(* The service never moves a request that has ended, nor starts one.       *)
LEMMA StageStep ==
  ASSUME ServiceTypeOK, NEW r \in Request, IngestStep(r) \/ Drop(r)
  PROVE  /\ \A u \in Request : stage'[u] # "none" <=> stage[u] # "none"
         /\ \A u \in Request : stage[u] = "ok" => stage'[u] = "ok"
         /\ \A u \in Request : u # r => stage'[u] = stage[u]
  BY DEF ServiceTypeOK, IngestStep, Drop, Prepare, Reject, EnterGate, DeleteReplaced, Upsert,
         FailMutation, SetStage

(* A step of a task that leaves the requests alone and moves its job only  *)
(* forward keeps the invariant.                                            *)
LEMMA TaskMoves ==
  ASSUME JobsIInv, JobsTypeOK', NEW j \in Job, up, UNCHANGED <<stage, epoch, up>>,
         \A k \in Job : k # j => task'[k] = task[k] /\ status'[k] = status[k],
         task'[j] # "none" => status'[j] \in Unfinished \cup {"cancelled"},
         task'[j] = "finishing" => stage[RequestOf(j)] = "ok",
         status'[j] # "none"
  PROVE  JobsIInv'
<1>1. TaskMatchesJob'
  BY DEF JobsIInv, TaskMatchesJob, RequestOf
<1>2. \A k \in Job : status[k] # "none" => status'[k] # "none"
  OBVIOUS
<1>3. \A r \in Request : r[1] \in Job
  BY JobsAssumption
<1>4. RequestsOfJobs'
  BY <1>2, <1>3 DEF JobsIInv, RequestsOfJobs
<1> QED
  BY <1>1, <1>4 DEF JobsIInv

(* Every step keeps the invariant. *)
LEMMA JobsInductive == JobsIInv /\ [Next]_vars => JobsIInv'
<1> SUFFICES ASSUME JobsIInv, [Next]_vars PROVE JobsIInv'
  OBVIOUS
<1> JobsTypeOK /\ JobsTypeOK'
  BY JobsTypeStep DEF JobsIInv
<1> DEFINE Alive(j) == up /\ status[j] \in Unfinished \cup {"cancelled"} /\ status[j] # "none"
<1>0. ASSUME NEW j \in Job, task[j] # "none" PROVE Alive(j)
  BY <1>0 DEF JobsIInv, TaskMatchesJob, Unfinished
<1> HIDE DEF Alive
<1>1. ASSUME NEW j \in Job, Enqueue(j) PROVE JobsIInv'
  BY <1>1, TaskMoves DEF Enqueue, SetTask, JobsTypeOK, serviceVars, Unfinished
<1>2. ASSUME NEW j \in Job, Cancel(j) PROVE JobsIInv'
  BY <1>2, TaskMoves DEF Cancel, JobsTypeOK, serviceVars, JobsIInv, TaskMatchesJob
<1>3. ASSUME NEW j \in Job,
             \/ Spawn(j) \/ ReadBackFails(j) \/ TakePermit(j) \/ SkipCancelled(j)
             \/ TakeAnswer(j) \/ DropAnswer(j)
      PROVE  JobsIInv'
  BY <1>0, <1>3, TaskMoves
  DEF Spawn, ReadBackFails, TakePermit, SkipCancelled, TakeAnswer, DropAnswer, SetTask, JobsTypeOK, serviceVars, Alive
<1>4. ASSUME NEW j \in Job, MarkRunning(j) PROVE JobsIInv'
  BY <1>0, <1>4, TaskMoves DEF MarkRunning, SetTask, JobsTypeOK, serviceVars, Alive, Unfinished
<1>5. ASSUME NEW j \in Job, AcceptAnswer(j) PROVE JobsIInv'
  BY <1>0, <1>5, TaskMoves DEF AcceptAnswer, SetTask, JobsTypeOK, serviceVars, Alive
<1>6. ASSUME NEW j \in Job, Fail(j), task[j] # "none" PROVE JobsIInv'
  BY <1>0, <1>6, TaskMoves DEF Fail, SetTask, JobsTypeOK, serviceVars, Alive
<1>7. ASSUME NEW j \in Job, FinishSucceeded(j) \/ FinishFailed(j) PROVE JobsIInv'
  BY <1>0, <1>7, TaskMoves
  DEF FinishSucceeded, FinishFailed, FinishedStatus, SetTask, JobsTypeOK, serviceVars, Alive
<1>8. ASSUME NEW j \in Job, FinishFails(j) PROVE JobsIInv'
  BY <1>0, <1>8, TaskMoves DEF FinishFails, SetTask, JobsTypeOK, serviceVars, Alive
<1>9. ASSUME NEW j \in Job, Post(j) PROVE JobsIInv'
  <2>1. Alive(j) /\ RequestOf(j) \in Request
    BY <1>0, <1>9, RequestType DEF Post, RequestOf, JobsTypeOK
  <2>2. /\ stage' = [stage EXCEPT ![RequestOf(j)] = "preparing"]
        /\ stage[RequestOf(j)] = "none"
        /\ task' = [task EXCEPT ![j] = "posting"] /\ UNCHANGED <<up, epoch, status>>
    BY <1>9 DEF Post, Receive, SetStage, SetTask
  <2>3. TaskMatchesJob'
    BY <2>1, <2>2 DEF JobsIInv, TaskMatchesJob, Alive, JobsTypeOK, ServiceTypeOK, RequestOf
  <2>4. RequestsOfJobs'
    BY <2>1, <2>2 DEF JobsIInv, RequestsOfJobs, Alive, JobsTypeOK, ServiceTypeOK, RequestOf
  <2> QED
    BY <2>3, <2>4 DEF JobsIInv
<1>10. CASE Crash
  BY <1>10 DEF Crash, JobsIInv, TaskMatchesJob, RequestsOfJobs, serviceVars
<1>11. CASE Start
  <2>1. TaskMatchesJob'
    BY <1>11 DEF Start, TaskMatchesJob, RecoveredStatus, Unfinished, JobsTypeOK
  <2>2. RequestsOfJobs'
    BY <1>11, JobsAssumption DEF Start, JobsIInv, RequestsOfJobs, RecoveredStatus, serviceVars
  <2> QED
    BY <2>1, <2>2 DEF JobsIInv
<1>12. ASSUME UNCHANGED <<up, epoch, status, task>>,
              \A u \in Request : stage'[u] # "none" => stage[u] # "none",
              \A u \in Request : stage[u] = "ok" => stage'[u] = "ok"
       PROVE  JobsIInv'
  <2>1. \A j \in Job : RequestOf(j) \in Request
    BY RequestType DEF RequestOf, JobsTypeOK
  <2>2. TaskMatchesJob'
    BY <1>12, <2>1 DEF JobsIInv, TaskMatchesJob, RequestOf
  <2>3. RequestsOfJobs'
    BY <1>12 DEF JobsIInv, RequestsOfJobs
  <2> QED
    BY <2>2, <2>3 DEF JobsIInv
<1>13. ASSUME NEW r \in Request, IngestStep(r) \/ Drop(r), UNCHANGED jobVars PROVE JobsIInv'
  BY <1>12, <1>13, StageStep DEF jobVars, JobsTypeOK
<1>14. CASE Restart /\ UNCHANGED jobVars
  BY <1>12, <1>14 DEF Restart, jobVars
<1>15. ASSUME NEW d \in Document, DeleteDocument(d), UNCHANGED jobVars PROVE JobsIInv'
  BY <1>12, <1>15 DEF DeleteDocument, jobVars
<1>16. CASE UNCHANGED vars
  BY <1>12, <1>16 DEF vars, serviceVars, jobVars
<1>17. ASSUME NEW j \in Job,
              \/ PostFails(j) \/ AnswerLost(j) \/ ConnectionBreaks(j) \/ RefuseAnswer(j)
              \/ StatementFails(j)
       PROVE  JobsIInv'
  BY <1>6, <1>17 DEF PostFails, AnswerLost, ConnectionBreaks, RefuseAnswer, StatementFails
<1> QED
  BY <1>1, <1>2, <1>3, <1>4, <1>5, <1>7, <1>8, <1>9, <1>10, <1>11, <1>13, <1>14, <1>15,
     <1>16, <1>17
  DEF Next, TaskStep, RetrievalStep

(* A task works only on a job that nothing but a cancellation has settled, *)
(* and what it is about to mark as succeeded was stored.                   *)
THEOREM JobsInvariant == Spec => []JobsIInv
  BY JobsInit, JobsInductive, PTL DEF Spec

(* All variables have their types. *)
THEOREM JobsTypeCorrect == Spec => []JobsTypeOK
<1>1. JobsIInv => JobsTypeOK
  BY DEF JobsIInv
<1> QED
  BY <1>1, JobsInvariant, PTL

(* The jobs are a client like any other of the retrieval service, which    *)
(* keeps all its promises for them.                                        *)
THEOREM JobsUseService == Spec => ServiceSpec
<1>1. Init => ServiceInit
  BY DEF Init
<1>2. JobsTypeOK /\ [Next]_vars => [ServiceNext]_serviceVars
  BY ServiceSteps
<1> QED
  BY <1>1, <1>2, JobsTypeCorrect, PTL DEF Spec, ServiceSpec

-----------------------------------------------------------------------------
(* The refinement of the ledger.                                           *)

(* The jobs that are stored, as the ledger has them. *)
StoredJobs == {j \in Job : \E e \in 1..MaxEpoch : stage[<<j, e>>] = "ok"}

(* The initial states are initial states of the ledger. *)
LEMMA LedgerInit == Init => Ledger!Init
  BY JobsAssumption DEF Init, ServiceInit, Ledger!Init, Settled, Unfinished

(* A step that changes one job's status and no request settles, submits or *)
(* leaves that job.                                                        *)
LEMMA LedgerMoves ==
  ASSUME NEW j \in Job, UNCHANGED stage, status \in [Job -> Status], status' \in [Job -> Status],
         \A k \in Job : k # j => status'[k] = status[k],
         \/ Settled(j)' = Settled(j)
         \/ Settled(j) = "none" /\ Settled(j)' = "pending"
         \/ Settled(j) = "pending" /\ Settled(j)' \in {"failed", "cancelled"}
         \/ Settled(j) = "pending" /\ Settled(j)' = "succeeded" /\ j \in StoredJobs
  PROVE  [Ledger!Next]_(Ledger!vars)
<1> DEFINE ledger == [k \in Job |-> Settled(k)]
<1>1. \A k \in Job : k # j => Settled(k)' = Settled(k)
  BY DEF Settled
<1>2. ledger' = [ledger EXCEPT ![j] = Settled(j)']
  BY <1>1
<1>3. StoredJobs' = StoredJobs
  BY DEF StoredJobs
<1>4. CASE Settled(j)' = Settled(j)
  BY <1>2, <1>3, <1>4 DEF Ledger!vars, StoredJobs
<1>5. CASE Settled(j) = "none" /\ Settled(j)' = "pending"
  BY <1>2, <1>3, <1>5 DEF Ledger!Next, Ledger!Submit, StoredJobs
<1>6. CASE Settled(j) = "pending" /\ Settled(j)' \in {"failed", "cancelled"}
  BY <1>2, <1>3, <1>6 DEF Ledger!Next, Ledger!Settle, StoredJobs
<1>7. CASE Settled(j) = "pending" /\ Settled(j)' = "succeeded" /\ j \in StoredJobs
  BY <1>2, <1>3, <1>7 DEF Ledger!Next, Ledger!Settle, StoredJobs
<1> QED
  BY <1>4, <1>5, <1>6, <1>7

(* A step that leaves the statuses alone and stores at most one request's  *)
(* content is the ledger's, too.                                           *)
LEMMA LedgerStores ==
  ASSUME JobsIInv, UNCHANGED status, NEW r \in Request,
         \A u \in Request : u # r => (stage'[u] = "ok" <=> stage[u] = "ok"),
         stage[r] = "ok" => stage'[r] = "ok",
         stage'[r] = "ok" => stage[r] # "none"
  PROVE  [Ledger!Next]_(Ledger!vars)
<1>1. \A k \in Job : Settled(k)' = Settled(k)
  BY DEF Settled
<1>2. PICK j \in Job, e \in 1..MaxEpoch : r = <<j, e>>
  BY JobsAssumption
<1>3. CASE stage'[r] = "ok"
  <2>1. status[j] # "none"
    BY <1>2, <1>3 DEF JobsIInv, RequestsOfJobs
  <2>2. Settled(j) # "none"
    BY <2>1 DEF Settled
  <2>3. StoredJobs' = StoredJobs \cup {j}
    BY <1>2, <1>3, RequestType DEF StoredJobs
  <2> QED
    BY <1>1, <2>2, <2>3 DEF Ledger!Next, Ledger!Store, StoredJobs
<1>4. CASE stage'[r] # "ok"
  <2>1. StoredJobs' = StoredJobs
    BY <1>2, <1>4, RequestType DEF StoredJobs
  <2> QED
    BY <1>1, <2>1 DEF Ledger!vars, StoredJobs
<1> QED
  BY <1>3, <1>4

(* Every step is a step of the ledger or leaves it unchanged. *)
LEMMA LedgerStep == JobsIInv /\ JobsIInv' /\ [Next]_vars => [Ledger!Next]_(Ledger!vars)
<1> SUFFICES ASSUME JobsIInv, JobsIInv', [Next]_vars PROVE [Ledger!Next]_(Ledger!vars)
  OBVIOUS
<1>0. status \in [Job -> Status] /\ status' \in [Job -> Status] /\ ServiceTypeOK
  BY DEF JobsIInv, JobsTypeOK
<1>1. ASSUME NEW j \in Job, UNCHANGED <<stage, status>> PROVE [Ledger!Next]_(Ledger!vars)
  BY <1>0, <1>1, LedgerMoves DEF Settled
<1>2. ASSUME NEW j \in Job, Enqueue(j) PROVE [Ledger!Next]_(Ledger!vars)
  BY <1>0, <1>2, LedgerMoves DEF Enqueue, Settled, Unfinished, serviceVars
<1>3. ASSUME NEW j \in Job, Cancel(j) PROVE [Ledger!Next]_(Ledger!vars)
  BY <1>0, <1>3, LedgerMoves DEF Cancel, Settled, Unfinished, serviceVars
<1>4. ASSUME NEW j \in Job, MarkRunning(j) PROVE [Ledger!Next]_(Ledger!vars)
  BY <1>0, <1>4, LedgerMoves DEF MarkRunning, Settled, Unfinished, serviceVars
<1>5. ASSUME NEW j \in Job, FinishSucceeded(j) PROVE [Ledger!Next]_(Ledger!vars)
  <2>1. status[j] \in Unfinished \cup {"cancelled"} /\ stage[RequestOf(j)] = "ok"
    BY <1>5 DEF FinishSucceeded, JobsIInv, TaskMatchesJob
  <2>2. j \in StoredJobs
    BY <2>1 DEF StoredJobs, RequestOf, JobsIInv, JobsTypeOK
  <2> QED
    BY <1>0, <1>5, <2>1, <2>2, LedgerMoves
    DEF FinishSucceeded, FinishedStatus, Settled, Unfinished, serviceVars
<1>6. ASSUME NEW j \in Job, FinishFailed(j) PROVE [Ledger!Next]_(Ledger!vars)
  <2>1. status[j] \in Unfinished \cup {"cancelled"}
    BY <1>6 DEF FinishFailed, JobsIInv, TaskMatchesJob
  <2> QED
    BY <1>0, <1>6, <2>1, LedgerMoves
    DEF FinishFailed, FinishedStatus, Settled, Unfinished, serviceVars
<1>7. ASSUME NEW j \in Job, Post(j) PROVE [Ledger!Next]_(Ledger!vars)
  <2>1. RequestOf(j) \in Request
    BY RequestType DEF RequestOf, JobsIInv, JobsTypeOK
  <2>2. stage' = [stage EXCEPT ![RequestOf(j)] = "preparing"] /\ UNCHANGED status
        /\ stage[RequestOf(j)] = "none"
    BY <1>7 DEF Post, Receive, SetStage
  <2> QED
    BY <1>0, <2>1, <2>2, LedgerStores DEF ServiceTypeOK
<1>8. ASSUME NEW j \in Job,
             \/ Spawn(j) \/ ReadBackFails(j) \/ TakePermit(j) \/ SkipCancelled(j)
             \/ PostFails(j) \/ TakeAnswer(j) \/ AnswerLost(j) \/ ConnectionBreaks(j)
             \/ DropAnswer(j) \/ AcceptAnswer(j) \/ RefuseAnswer(j)
             \/ StatementFails(j) \/ FinishFails(j)
      PROVE  [Ledger!Next]_(Ledger!vars)
  BY <1>1, <1>8
  DEF Spawn, ReadBackFails, TakePermit, SkipCancelled, PostFails, TakeAnswer, AnswerLost,
      ConnectionBreaks, DropAnswer, AcceptAnswer, RefuseAnswer, StatementFails, FinishFails, Fail,
      serviceVars
<1>9. ASSUME UNCHANGED stage, \A j \in Job : Settled(j)' = Settled(j)
      PROVE  [Ledger!Next]_(Ledger!vars)
  BY <1>9 DEF Ledger!vars
<1>10. CASE Crash \/ Start \/ UNCHANGED vars
  BY <1>9, <1>10 DEF Crash, Start, RecoveredStatus, Settled, Unfinished, vars, serviceVars, jobVars
<1>11. ASSUME NEW r \in Request, IngestStep(r) \/ Drop(r), UNCHANGED jobVars
       PROVE  [Ledger!Next]_(Ledger!vars)
  <2>1. /\ \A u \in Request : u # r => stage'[u] = stage[u]
        /\ stage[r] = "ok" => stage'[r] = "ok"
        /\ stage'[r] # "none" <=> stage[r] # "none"
    BY <1>0, <1>11, StageStep
  <2> QED
    BY <1>11, <2>1, LedgerStores DEF jobVars
<1>12. CASE Restart /\ UNCHANGED jobVars
  <2>1. \A u \in Request : stage'[u] = "ok" <=> stage[u] = "ok"
    BY <1>12 DEF Restart
  <2>2. StoredJobs' = StoredJobs
    BY <2>1, RequestType DEF StoredJobs
  <2>3. \A j \in Job : Settled(j)' = Settled(j)
    BY <1>12 DEF jobVars, Settled
  <2> QED
    BY <2>2, <2>3 DEF Ledger!vars, StoredJobs
<1>13. ASSUME NEW d \in Document, DeleteDocument(d), UNCHANGED jobVars
       PROVE  [Ledger!Next]_(Ledger!vars)
  BY <1>9, <1>13 DEF DeleteDocument, jobVars, Settled
<1> QED
  BY <1>2, <1>3, <1>4, <1>5, <1>6, <1>7, <1>8, <1>10, <1>11, <1>12, <1>13
  DEF Next, TaskStep, RetrievalStep

(* Jobs are settled once and for good, and as succeeded only if their      *)
(* content was stored, however often the process crashes and whatever      *)
(* fails: the job service implements the ledger.                           *)
THEOREM JobsImplementLedger == Spec => ImplementsLedger
  BY LedgerInit, LedgerStep, JobsInvariant, PTL DEF Spec, ImplementsLedger, Ledger!Spec

-----------------------------------------------------------------------------
(* No unfinished job without a task.                                       *)

(* A step of one job that leaves the job with a task, or settled, keeps    *)
(* the property. *)
LEMMA HaveTaskMoves ==
  ASSUME JobsTypeOK, UnfinishedHaveTask, NEW j \in Job, up,
         \A k \in Job : k # j => task'[k] = task[k] /\ status'[k] = status[k],
         faults' = faults, task'[j] # "none" \/ status'[j] \notin Unfinished
  PROVE  UnfinishedHaveTask'
  BY DEF UnfinishedHaveTask

(* Every step keeps it. *)
LEMMA HaveTaskStep ==
  ASSUME JobsIInv, UnfinishedHaveTask, [Next]_vars PROVE UnfinishedHaveTask'
<1>0. JobsTypeOK /\ TaskMatchesJob
  BY DEF JobsIInv
<1>1. ASSUME NEW j \in Job, task[j] # "none" PROVE up
  BY <1>0, <1>1 DEF TaskMatchesJob
<1>2. ASSUME NEW j \in Job, Enqueue(j) PROVE UnfinishedHaveTask'
  BY <1>0, <1>2, HaveTaskMoves DEF Enqueue, SetTask, JobsTypeOK
<1>3. ASSUME NEW j \in Job, Cancel(j) PROVE UnfinishedHaveTask'
  BY <1>0, <1>3, HaveTaskMoves DEF Cancel, Unfinished, JobsTypeOK
<1>4. ASSUME NEW j \in Job,
             Spawn(j) \/ TakePermit(j) \/ Post(j) \/ TakeAnswer(j) \/ AcceptAnswer(j)
      PROVE  UnfinishedHaveTask'
  BY <1>0, <1>1, <1>4, HaveTaskMoves
  DEF Spawn, TakePermit, Post, TakeAnswer, AcceptAnswer, SetTask, JobsTypeOK
<1>5. ASSUME NEW j \in Job, SkipCancelled(j) \/ DropAnswer(j) PROVE UnfinishedHaveTask'
  BY <1>0, <1>1, <1>5, HaveTaskMoves
  DEF SkipCancelled, DropAnswer, SetTask, JobsTypeOK, Unfinished
<1>6. ASSUME NEW j \in Job, MarkRunning(j) PROVE UnfinishedHaveTask'
  BY <1>0, <1>1, <1>6, HaveTaskMoves DEF MarkRunning, SetTask, JobsTypeOK
<1>7. ASSUME NEW j \in Job,
             PostFails(j) \/ AnswerLost(j) \/ ConnectionBreaks(j) \/ RefuseAnswer(j)
      PROVE  UnfinishedHaveTask'
  BY <1>0, <1>1, <1>7, HaveTaskMoves
  DEF PostFails, AnswerLost, ConnectionBreaks, RefuseAnswer, Fail, SetTask, JobsTypeOK
<1>8. ASSUME NEW j \in Job, FinishSucceeded(j) \/ FinishFailed(j) PROVE UnfinishedHaveTask'
  <2>1. status'[j] \notin Unfinished
    BY <1>0, <1>8
    DEF FinishSucceeded, FinishFailed, FinishedStatus, JobsTypeOK, Unfinished
  <2> QED
    BY <1>0, <1>1, <1>8, <2>1, HaveTaskMoves
    DEF FinishSucceeded, FinishFailed, FinishedStatus, SetTask, JobsTypeOK
<1>9. ASSUME NEW j \in Job, ReadBackFails(j) \/ StatementFails(j) \/ FinishFails(j)
      PROVE  UnfinishedHaveTask'
  <2>1. faults' # 0
    BY <1>0, <1>9, JobsAssumption DEF ReadBackFails, StatementFails, FinishFails, JobsTypeOK
  <2> QED
    BY <2>1 DEF UnfinishedHaveTask
<1>10. CASE Crash
  BY <1>10 DEF Crash, UnfinishedHaveTask
<1>11. CASE Start
  <2>1. \A j \in Job : status'[j] \in Unfinished => status'[j] = "queued"
    BY <1>0, <1>11 DEF Start, RecoveredStatus, Unfinished, JobsTypeOK
  <2> QED
    BY <1>11, <2>1 DEF Start, UnfinishedHaveTask
<1>12. CASE UNCHANGED jobVars
  BY <1>12 DEF jobVars, UnfinishedHaveTask
<1> QED
  BY <1>2, <1>3, <1>4, <1>5, <1>6, <1>7, <1>8, <1>9, <1>10, <1>11, <1>12
  DEF Next, TaskStep, RetrievalStep, vars

(* While the process is up and no database call failed, every unfinished   *)
(* job has a task that works on it.                                        *)
THEOREM UnfinishedHaveTaskHolds == Spec => []UnfinishedHaveTask
<1>1. Init => UnfinishedHaveTask
  BY DEF Init, UnfinishedHaveTask, Unfinished
<1>2. JobsIInv /\ UnfinishedHaveTask /\ [Next]_vars => UnfinishedHaveTask'
  BY HaveTaskStep
<1> QED
  BY <1>1, <1>2, JobsInvariant, PTL DEF Spec

-----------------------------------------------------------------------------
(* A later job wins.                                                       *)

(* An ingest's step changes the latest ingest of a source only by entering *)
(* the gate, and only then is it one that has had it. *)
LEMMA LatestStep ==
  ASSUME ServiceTypeOK, NEW r \in Request, IngestStep(r) \/ Drop(r)
  PROVE  \/ latest' = latest
            /\ (stage'[r] \in {"replacing", "ok"} => stage[r] \in {"replacing", "ok"})
         \/ /\ stage[r] = "queued" /\ latest' = [latest EXCEPT ![SourceOf[r]] = r]
            /\ stage'[r] = "replacing"
  BY DEF ServiceTypeOK, IngestStep, Drop, Prepare, Reject, EnterGate, DeleteReplaced, Upsert,
         FailMutation, SetStage

(* An ingest's step is one of an ingest that is under way, and no other.   *)
LEMMA UnderWayStep ==
  ASSUME ServiceTypeOK, NEW r \in Request, IngestStep(r) \/ Drop(r)
  PROVE  /\ stage[r] \notin Answered \cup {"none"}
         /\ \A u \in Request : u # r => stage'[u] = stage[u]
  BY DEF ServiceTypeOK, IngestStep, Drop, Prepare, Reject, EnterGate, DeleteReplaced, Upsert,
         FailMutation, SetStage, Answered

(* A job that is over stays so: it gets no other task, and posts nothing.  *)
LEMMA OverStays ==
  ASSUME JobsIInv, [Next]_vars, epoch' = 1, epoch = 1, NEW j \in Job, status[j] # "none",
         task[j] = "none", Over(j)
  PROVE  status'[j] # "none" /\ task'[j] = "none" /\ Over(j)'
<1>0. /\ status \in [Job -> Status] /\ task \in [Job -> Task] /\ ServiceTypeOK
      /\ stage \in [Request -> Stage] /\ epoch \in 1..MaxEpoch
      /\ RequestOf(j) \in Request /\ RequestOf(j)' = RequestOf(j)
  BY RequestType DEF JobsIInv, JobsTypeOK, ServiceTypeOK, RequestOf
<1>1. ASSUME stage'[RequestOf(j)] = stage[RequestOf(j)] \/ stage'[RequestOf(j)] = "lost"
      PROVE  Over(j)'
  BY <1>0, <1>1 DEF Over, Answered
<1>2. ASSUME NEW k \in Job, Enqueue(k) \/ Cancel(k)
      PROVE  status'[j] # "none" /\ task'[j] = "none" /\ stage' = stage
  BY <1>0, <1>2 DEF Enqueue, Cancel, SetTask, serviceVars
<1>3. ASSUME NEW k \in Job, task[k] # "none",
             k # j => task'[j] = task[j] /\ status'[j] = status[j]
      PROVE  status'[j] # "none" /\ task'[j] = "none"
  BY <1>3
<1>4. ASSUME NEW k \in Job,
             \/ Spawn(k) \/ ReadBackFails(k) \/ TakePermit(k) \/ SkipCancelled(k)
             \/ TakeAnswer(k) \/ DropAnswer(k) \/ AcceptAnswer(k) \/ FinishFails(k)
      PROVE  status'[j] # "none" /\ task'[j] = "none" /\ stage' = stage
  BY <1>0, <1>3, <1>4
  DEF Spawn, ReadBackFails, TakePermit, SkipCancelled, TakeAnswer, DropAnswer, AcceptAnswer,
      FinishFails, SetTask, serviceVars
<1>5. ASSUME NEW k \in Job, MarkRunning(k) \/ FinishSucceeded(k) \/ FinishFailed(k)
      PROVE  status'[j] # "none" /\ task'[j] = "none" /\ stage' = stage
  BY <1>0, <1>3, <1>5
  DEF MarkRunning, FinishSucceeded, FinishFailed, FinishedStatus, SetTask, serviceVars
<1>6. ASSUME NEW k \in Job,
             \/ PostFails(k) \/ AnswerLost(k) \/ ConnectionBreaks(k) \/ RefuseAnswer(k)
             \/ StatementFails(k)
      PROVE  status'[j] # "none" /\ task'[j] = "none" /\ stage' = stage
  BY <1>0, <1>3, <1>6
  DEF PostFails, AnswerLost, ConnectionBreaks, RefuseAnswer, StatementFails, Fail, SetTask,
      serviceVars
<1>7. ASSUME NEW k \in Job, Post(k)
      PROVE  status'[j] # "none" /\ task'[j] = "none"
             /\ stage'[RequestOf(j)] = stage[RequestOf(j)]
  <2>1. k # j /\ RequestOf(k) # RequestOf(j)
    BY <1>7 DEF Post, RequestOf
  <2> QED
    BY <1>0, <1>7, <2>1 DEF Post, Receive, SetStage, SetTask
<1>8. CASE Crash
  BY <1>0, <1>1, <1>8 DEF Crash, serviceVars
<1>9. ~Start
  BY <1>0, JobsAssumption DEF Start
<1>10. ASSUME NEW r \in Request, IngestStep(r) \/ Drop(r), UNCHANGED jobVars
       PROVE  status'[j] # "none" /\ task'[j] = "none"
              /\ stage'[RequestOf(j)] = stage[RequestOf(j)]
  BY <1>0, <1>10, UnderWayStep DEF Over, jobVars
<1>11. ASSUME NEW d \in Document, DeleteDocument(d), UNCHANGED jobVars
       PROVE  status'[j] # "none" /\ task'[j] = "none" /\ stage' = stage
  BY <1>11 DEF DeleteDocument, jobVars
<1>12. CASE Restart /\ UNCHANGED jobVars
  <2>1. stage'[RequestOf(j)] = stage[RequestOf(j)] \/ stage'[RequestOf(j)] = "lost"
    BY <1>0, <1>12 DEF Restart
  <2> QED
    BY <1>1, <1>12, <2>1 DEF jobVars
<1>13. CASE UNCHANGED vars
  BY <1>1, <1>13 DEF vars, serviceVars, jobVars
<1> QED
  BY <1>1, <1>2, <1>4, <1>5, <1>6, <1>7, <1>8, <1>9, <1>10, <1>11, <1>12, <1>13
  DEF Next, TaskStep, RetrievalStep

(* Only a task that posts has an ingest under way, unless a connection     *)
(* breaks: a task leaves its post when it is answered, or lost.            *)
LEMMA PostingStep ==
  ASSUME JobsIInv, OnlyPosting, [Next]_vars, epoch' = 1, epoch = 1, broken' = 0, broken = 0
  PROVE  OnlyPosting'
<1>0. /\ task \in [Job -> Task] /\ stage \in [Request -> Stage] /\ ServiceTypeOK
      /\ \A j \in Job : RequestOf(j) \in Request /\ RequestOf(j)' = RequestOf(j)
      /\ \A j \in Job : task[j] # "none" => up
  BY RequestType DEF JobsIInv, JobsTypeOK, ServiceTypeOK, RequestOf, TaskMatchesJob
<1>1. ASSUME UNCHANGED <<stage, up>>,
             \A j \in Job : up /\ task'[j] # "posting" => task[j] # "posting" \/ Over(j)
      PROVE  OnlyPosting'
  BY <1>0, <1>1 DEF OnlyPosting, Over
<1>2. ASSUME NEW k \in Job, NEW t, SetTask(k, t), UNCHANGED <<stage, up>>,
             task[k] # "posting" \/ Over(k)
      PROVE  OnlyPosting'
  BY <1>0, <1>1, <1>2 DEF SetTask
<1>3. ASSUME NEW k \in Job, Cancel(k) PROVE OnlyPosting'
  BY <1>1, <1>3 DEF Cancel, serviceVars
<1>4. ASSUME NEW k \in Job, Enqueue(k) PROVE OnlyPosting'
  <2>1. task[k] # "posting"
    BY <1>4 DEF Enqueue, JobsIInv, TaskMatchesJob, Unfinished
  <2> QED
    BY <1>2, <1>4, <2>1 DEF Enqueue, serviceVars
<1>5. ASSUME NEW k \in Job,
             \/ Spawn(k) \/ ReadBackFails(k) \/ TakePermit(k) \/ SkipCancelled(k)
             \/ MarkRunning(k)
      PROVE  OnlyPosting'
  <2>1. task[k] # "posting" /\ UNCHANGED <<stage, up>>
    BY <1>5
    DEF Spawn, ReadBackFails, TakePermit, SkipCancelled, MarkRunning, serviceVars
  <2>2. SetTask(k, "waiting") \/ SetTask(k, "none") \/ SetTask(k, "checked") \/ SetTask(k, "marked")
    BY <1>5 DEF Spawn, ReadBackFails, TakePermit, SkipCancelled, MarkRunning
  <2> QED
    BY <1>2, <2>1, <2>2
<1>6. ASSUME NEW k \in Job,
             \/ DropAnswer(k) \/ AcceptAnswer(k) \/ FinishSucceeded(k) \/ FinishFailed(k)
             \/ FinishFails(k)
      PROVE  OnlyPosting'
  <2>1. task[k] # "posting" /\ UNCHANGED <<stage, up>>
    BY <1>6
    DEF DropAnswer, AcceptAnswer, FinishSucceeded, FinishFailed, FinishFails, serviceVars
  <2>2. SetTask(k, "none") \/ SetTask(k, "finishing")
    BY <1>6 DEF DropAnswer, AcceptAnswer, FinishSucceeded, FinishFailed, FinishFails
  <2> QED
    BY <1>2, <2>1, <2>2
<1>7. ASSUME NEW k \in Job,
             PostFails(k) \/ AnswerLost(k) \/ RefuseAnswer(k) \/ StatementFails(k)
      PROVE  OnlyPosting'
  <2>1. SetTask(k, "failing") /\ UNCHANGED <<stage, up>>
    BY <1>7 DEF PostFails, AnswerLost, RefuseAnswer, StatementFails, Fail, serviceVars
  <2>2. task[k] # "posting" \/ Over(k)
    BY <1>7 DEF PostFails, AnswerLost, RefuseAnswer, StatementFails, Over
  <2> QED
    BY <1>2, <2>1, <2>2
<1>8. ASSUME NEW k \in Job, TakeAnswer(k) PROVE OnlyPosting'
  <2>1. Over(k)
    BY <1>8 DEF TakeAnswer, Over, Answered
  <2> QED
    BY <1>2, <1>8, <2>1 DEF TakeAnswer, serviceVars
<1>9. ASSUME NEW k \in Job, Post(k) PROVE OnlyPosting'
  <2>1. /\ stage' = [stage EXCEPT ![RequestOf(k)] = "preparing"] /\ up' = up
        /\ task' = [task EXCEPT ![k] = "posting"]
    BY <1>9 DEF Post, Receive, SetStage, SetTask
  <2>2. ASSUME NEW j \in Job, up, task'[j] # "posting" PROVE Over(j)'
    <3>1. j # k /\ task[j] # "posting"
      BY <1>0, <2>1, <2>2
    <3>2. RequestOf(j) # RequestOf(k)
      BY <3>1 DEF RequestOf
    <3>3. stage'[RequestOf(j)] = stage[RequestOf(j)]
      BY <1>0, <2>1, <3>2
    <3> QED
      BY <1>0, <2>2, <3>1, <3>3 DEF OnlyPosting, Over
  <2> QED
    BY <2>1, <2>2 DEF OnlyPosting
<1>10. ASSUME NEW k \in Job PROVE ~ConnectionBreaks(k)
  BY JobsAssumption DEF ConnectionBreaks
<1>11. CASE Crash
  BY <1>11 DEF Crash, OnlyPosting
<1>12. ~Start
  BY <1>0, JobsAssumption DEF Start
<1>13. ASSUME NEW r \in Request, IngestStep(r) \/ Drop(r), UNCHANGED jobVars PROVE OnlyPosting'
  <2>1. UNCHANGED <<up, task>>
    BY <1>13 DEF jobVars
  <2>2. ASSUME NEW j \in Job, up, task[j] # "posting" PROVE Over(j)'
    <3>1. Over(j)
      BY <2>2 DEF OnlyPosting
    <3>2. stage'[RequestOf(j)] = stage[RequestOf(j)]
      BY <1>0, <1>13, <3>1, UnderWayStep DEF Over
    <3> QED
      BY <1>0, <3>1, <3>2 DEF Over
  <2> QED
    BY <2>1, <2>2 DEF OnlyPosting
<1>14. ASSUME NEW d \in Document, DeleteDocument(d), UNCHANGED jobVars PROVE OnlyPosting'
  BY <1>1, <1>14 DEF DeleteDocument, jobVars
<1>15. CASE Restart /\ UNCHANGED jobVars
  <2>1. \A j \in Job : Over(j) => Over(j)'
    BY <1>0, <1>15 DEF Restart, Over, Answered
  <2> QED
    BY <1>15, <2>1 DEF OnlyPosting, jobVars
<1>16. CASE UNCHANGED vars
  BY <1>1, <1>16 DEF vars, serviceVars, jobVars
<1> QED
  BY <1>3, <1>4, <1>5, <1>6, <1>7, <1>8, <1>9, <1>10, <1>11, <1>12, <1>13, <1>14, <1>15, <1>16
  DEF Next, TaskStep, RetrievalStep

(* The jobs a job comes after stay over. *)
LEMMA BeforeOverStep ==
  ASSUME JobsIInv, OnlyPosting, BeforeOver, [Next]_vars, epoch' = 1, epoch = 1
  PROVE  BeforeOver'
<1>0. before \in [Job -> SUBSET Job]
  BY DEF JobsIInv, JobsTypeOK
<1>1. ASSUME NEW n \in Job, Enqueue(n) PROVE BeforeOver'
  <2>1. before' = [before EXCEPT ![n] = {k \in Job : status[k] # "none" /\ task[k] = "none"}]
        /\ up
    BY <1>1 DEF Enqueue
  <2>2. ASSUME NEW k \in Job, NEW j \in before'[k]
        PROVE  j \in Job /\ status[j] # "none" /\ task[j] = "none" /\ Over(j)
    BY <1>0, <2>1, <2>2 DEF BeforeOver, OnlyPosting
  <2> QED
    BY <2>2, OverStays DEF BeforeOver
<1>2. CASE before' = before
  <2>1. ASSUME NEW k \in Job, NEW j \in before[k]
        PROVE  j \in Job /\ status[j] # "none" /\ task[j] = "none" /\ Over(j)
    BY <1>0 DEF BeforeOver
  <2> QED
    BY <1>2, <2>1, OverStays DEF BeforeOver
<1> QED
  BY <1>1, <1>2
  DEF Next, TaskStep, RetrievalStep, Cancel, Spawn, ReadBackFails, TakePermit, SkipCancelled,
      MarkRunning, Post, PostFails, TakeAnswer, AnswerLost, ConnectionBreaks, DropAnswer,
      AcceptAnswer, RefuseAnswer, StatementFails, FinishSucceeded, FinishFailed, FinishFails,
      Fail, Crash, Start, vars, jobVars

(* What succeeded was stored, and an ingest of a job comes after those of  *)
(* the jobs before it. *)
Ordered ==
  /\ SucceededAreStored
  /\ \A k \in Job : \A j \in before[k] : ComesAfter(k, j)

(* A step that takes no ingest further, settles only what was stored and   *)
(* adds no order keeps the order. *)
LEMMA OrderStays ==
  ASSUME JobsTypeOK, Ordered, epoch' = 1, epoch = 1, before' = before, latest' = latest,
         \A j \in Job : /\ stage[RequestOf(j)] = "ok" => stage'[RequestOf(j)] = "ok"
                        /\ stage'[RequestOf(j)] \in {"replacing", "ok"}
                               => stage[RequestOf(j)] \in {"replacing", "ok"}
                        /\ status[j] = "succeeded" => status'[j] = "succeeded"
                        /\ status'[j] = "succeeded" =>
                               status[j] = "succeeded" \/ stage[RequestOf(j)] = "ok"
  PROVE  Ordered'
<1>1. SucceededAreStored /\ \A k \in Job : \A j \in before[k] : ComesAfter(k, j)
  BY DEF Ordered
<1>2. \A j \in Job : RequestOf(j)' = RequestOf(j)
  BY DEF RequestOf
<1>3. SucceededAreStored'
  BY <1>1, <1>2 DEF SucceededAreStored
<1>4. \A k \in Job : before[k] \subseteq Job
  BY DEF JobsTypeOK
<1>5. \A k \in Job : \A j \in before'[k] : ComesAfter(k, j)'
  BY <1>1, <1>2, <1>4 DEF ComesAfter
<1> QED
  BY <1>3, <1>5 DEF Ordered

(* A job is enqueued: it has posted nothing, so that it comes after        *)
(* whatever was over.                                                      *)
LEMMA OrderEnqueued ==
  ASSUME JobsIInv, Ordered, epoch' = 1, epoch = 1, NEW n \in Job, Enqueue(n)
  PROVE  Ordered'
<1>1. /\ status[n] = "none" /\ status' = [status EXCEPT ![n] = "queued"]
      /\ before' = [before EXCEPT ![n] = {k \in Job : status[k] # "none" /\ task[k] = "none"}]
      /\ UNCHANGED <<stage, latest, epoch>>
  BY DEF Enqueue, serviceVars
<1>2. SucceededAreStored /\ JobsTypeOK /\ RequestsOfJobs
      /\ \A k \in Job : \A j \in before[k] : ComesAfter(k, j)
  BY DEF Ordered, JobsIInv
<1>3. /\ status \in [Job -> Status] /\ before \in [Job -> SUBSET Job]
      /\ \A j \in Job : RequestOf(j)' = RequestOf(j)
  BY <1>1, <1>2 DEF JobsTypeOK, RequestOf
<1>4. stage[RequestOf(n)] = "none"
  <2>1. RequestOf(n) \in Request /\ RequestOf(n)[1] = n
    BY <1>2, RequestType DEF RequestOf, JobsTypeOK
  <2> QED
    BY <1>1, <1>2, <2>1 DEF RequestsOfJobs
<1>5. SucceededAreStored'
  BY <1>1, <1>2, <1>3 DEF SucceededAreStored
<1>6. ASSUME NEW k \in Job, NEW j \in before'[k]
      PROVE  ComesAfter(k, j)'
  <2>1. CASE k = n
    BY <1>1, <1>3, <1>4, <2>1 DEF ComesAfter
  <2>2. CASE k # n
    <3>1. j \in before[k] /\ j \in Job
      BY <1>1, <1>3, <1>6, <2>2
    <3> QED
      BY <1>1, <1>2, <1>3, <3>1 DEF ComesAfter
  <2> QED
    BY <2>1, <2>2
<1> QED
  BY <1>5, <1>6 DEF Ordered

(* An ingest enters the gate: it is none of a job that is over. *)
LEMMA OrderEntered ==
  ASSUME JobsIInv, Ordered, BeforeOver, epoch' = 1, epoch = 1, NEW r \in Request,
         UNCHANGED jobVars,
         stage[r] = "queued", latest' = [latest EXCEPT ![SourceOf[r]] = r],
         stage'[r] = "replacing", \A u \in Request : u # r => stage'[u] = stage[u]
  PROVE  Ordered'
<1>1. UNCHANGED <<epoch, before, status>>
  BY DEF jobVars
<1>2. SucceededAreStored /\ JobsTypeOK
      /\ \A k \in Job : \A j \in before[k] : ComesAfter(k, j)
  BY DEF Ordered, JobsIInv
<1>3. \A j \in Job : RequestOf(j) \in Request /\ RequestOf(j)' = RequestOf(j)
  BY <1>1, <1>2, RequestType DEF RequestOf, JobsTypeOK
<1>4. \A k \in Job : before[k] \subseteq Job
  BY <1>2 DEF JobsTypeOK
<1>5. SucceededAreStored'
  BY <1>1, <1>2, <1>3 DEF SucceededAreStored
<1>6. ASSUME NEW k \in Job, NEW j \in before[k] PROVE ComesAfter(k, j)'
  <2>1. j \in Job /\ stage[RequestOf(j)] # "queued"
    BY <1>4 DEF BeforeOver, Over, Answered
  <2>2. RequestOf(j) # r
    BY <2>1
  <2>3. latest \in [Source -> Request \cup {Free}] /\ SourceOf[RequestOf(k)] \in Source
    BY <1>2, <1>3, ServiceAssumption DEF JobsTypeOK, ServiceTypeOK
  <2>4. CASE SourceOf[RequestOf(k)] = SourceOf[r]
    <3>1. latest'[SourceOf[RequestOf(k)]] = r
      BY <2>3, <2>4
    <3> QED
      BY <1>3, <2>1, <2>2, <3>1 DEF ComesAfter
  <2>5. CASE SourceOf[RequestOf(k)] # SourceOf[r]
    <3>1. latest'[SourceOf[RequestOf(k)]] = latest[SourceOf[RequestOf(k)]]
      BY <2>3, <2>5
    <3>2. stage'[RequestOf(k)] = stage[RequestOf(k)]
      BY <1>3, <2>5
    <3> QED
      BY <1>2, <1>3, <2>1, <3>1, <3>2 DEF ComesAfter
  <2> QED
    BY <2>4, <2>5
<1> QED
  BY <1>1, <1>5, <1>6 DEF Ordered

(* A deletion makes no ingest the latest. *)
LEMMA OrderDeleted ==
  ASSUME JobsIInv, Ordered, epoch' = 1, epoch = 1, NEW d \in Document, DeleteDocument(d),
         UNCHANGED jobVars
  PROVE  Ordered'
<1>1. UNCHANGED <<epoch, before, status, stage>>
      /\ latest' = [latest EXCEPT ![d[1]] = Free]
  BY DEF jobVars, DeleteDocument
<1>2. SucceededAreStored /\ JobsTypeOK
      /\ \A k \in Job : \A j \in before[k] : ComesAfter(k, j)
  BY DEF Ordered, JobsIInv
<1>3. \A j \in Job : RequestOf(j) \in Request /\ RequestOf(j) # Free /\ RequestOf(j)' = RequestOf(j)
  BY <1>1, <1>2, RequestType, ServiceAssumption DEF RequestOf, JobsTypeOK
<1>4. \A k \in Job : before[k] \subseteq Job /\ SourceOf[RequestOf(k)] \in Source
  BY <1>2, <1>3, ServiceAssumption DEF JobsTypeOK
<1>5. \A s \in Source : latest'[s] \in {latest[s], Free}
  BY <1>1, <1>2 DEF JobsTypeOK, ServiceTypeOK
<1>6. SucceededAreStored'
  BY <1>1, <1>2, <1>3 DEF SucceededAreStored
<1>7. ASSUME NEW k \in Job, NEW j \in before[k] PROVE ComesAfter(k, j)'
  <2>1. latest'[SourceOf[RequestOf(k)]] \in {latest[SourceOf[RequestOf(k)]], Free}
    BY <1>4, <1>5
  <2>2. j \in Job
    BY <1>4
  <2> QED
    BY <1>1, <1>2, <1>3, <2>1, <2>2 DEF ComesAfter
<1> QED
  BY <1>1, <1>6, <1>7 DEF Ordered

(* Every step keeps the order. *)
LEMMA OrderedStep ==
  ASSUME JobsIInv, Ordered, BeforeOver, [Next]_vars, epoch' = 1, epoch = 1 PROVE Ordered'
<1>0. /\ JobsTypeOK /\ TaskMatchesJob /\ ServiceTypeOK /\ epoch \in Nat
      /\ status \in [Job -> Status] /\ stage \in [Request -> Stage]
      /\ \A j \in Job : RequestOf(j) \in Request
  BY RequestType, JobsAssumption DEF JobsIInv, JobsTypeOK, ServiceTypeOK, RequestOf
<1>1. ASSUME UNCHANGED <<before, stage, latest>>,
             \A j \in Job : status[j] = "succeeded" => status'[j] = "succeeded",
             \A j \in Job : status'[j] = "succeeded" =>
                                status[j] = "succeeded" \/ stage[RequestOf(j)] = "ok"
      PROVE  Ordered'
  BY <1>0, <1>1, OrderStays
<1>2. ASSUME NEW j \in Job, Enqueue(j) PROVE Ordered'
  BY <1>2, OrderEnqueued
<1>3. ASSUME NEW j \in Job, Cancel(j) PROVE Ordered'
  BY <1>0, <1>1, <1>3 DEF Cancel, Unfinished, serviceVars
<1>4. ASSUME NEW j \in Job,
             \/ Spawn(j) \/ ReadBackFails(j) \/ TakePermit(j) \/ SkipCancelled(j)
             \/ PostFails(j) \/ TakeAnswer(j) \/ AnswerLost(j) \/ ConnectionBreaks(j)
             \/ DropAnswer(j) \/ AcceptAnswer(j) \/ RefuseAnswer(j)
             \/ StatementFails(j) \/ FinishFails(j)
      PROVE  Ordered'
  BY <1>1, <1>4
  DEF Spawn, ReadBackFails, TakePermit, SkipCancelled, PostFails, TakeAnswer, AnswerLost,
      ConnectionBreaks, DropAnswer, AcceptAnswer, RefuseAnswer, StatementFails, FinishFails, Fail,
      serviceVars
<1>5. ASSUME NEW j \in Job, MarkRunning(j) PROVE Ordered'
  BY <1>0, <1>1, <1>5 DEF MarkRunning, serviceVars
<1>6. ASSUME NEW j \in Job, FinishSucceeded(j) PROVE Ordered'
  <2>1. stage[RequestOf(j)] = "ok"
    BY <1>0, <1>6 DEF FinishSucceeded, TaskMatchesJob
  <2> QED
    BY <1>0, <1>1, <1>6, <2>1 DEF FinishSucceeded, FinishedStatus, serviceVars
<1>7. ASSUME NEW j \in Job, FinishFailed(j) PROVE Ordered'
  <2>1. status[j] # "succeeded"
    BY <1>0, <1>7 DEF FinishFailed, TaskMatchesJob, Unfinished
  <2> QED
    BY <1>0, <1>1, <1>7, <2>1 DEF FinishFailed, FinishedStatus, serviceVars
<1>8. ASSUME NEW j \in Job, Post(j) PROVE Ordered'
  <2>1. /\ stage' = [stage EXCEPT ![RequestOf(j)] = "preparing"]
        /\ stage[RequestOf(j)] = "none" /\ UNCHANGED <<before, latest, status>>
    BY <1>8 DEF Post, Receive, SetStage
  <2>2. \A k \in Job : /\ stage[RequestOf(k)] = "ok" => stage'[RequestOf(k)] = "ok"
                       /\ stage'[RequestOf(k)] \in {"replacing", "ok"}
                              => stage[RequestOf(k)] \in {"replacing", "ok"}
    BY <1>0, <2>1
  <2> QED
    BY <1>0, <2>1, <2>2, OrderStays
<1>9. CASE Crash
  BY <1>1, <1>9 DEF Crash, serviceVars
<1>10. ~Start
  BY <1>0, JobsAssumption DEF Start, JobsTypeOK
<1>11. ASSUME NEW r \in Request, IngestStep(r) \/ Drop(r), UNCHANGED jobVars PROVE Ordered'
  <2>1. /\ \A u \in Request : u # r => stage'[u] = stage[u]
        /\ \A u \in Request : stage[u] = "ok" => stage'[u] = "ok"
    BY <1>0, <1>11, StageStep
  <2>2. CASE /\ latest' = latest
             /\ stage'[r] \in {"replacing", "ok"} => stage[r] \in {"replacing", "ok"}
    <3>1. UNCHANGED <<before, status>>
      BY <1>11 DEF jobVars
    <3>2. \A k \in Job : /\ stage[RequestOf(k)] = "ok" => stage'[RequestOf(k)] = "ok"
                         /\ stage'[RequestOf(k)] \in {"replacing", "ok"}
                                => stage[RequestOf(k)] \in {"replacing", "ok"}
      BY <1>0, <2>1, <2>2
    <3> QED
      BY <1>0, <2>2, <3>1, <3>2, OrderStays
  <2>3. CASE /\ stage[r] = "queued" /\ latest' = [latest EXCEPT ![SourceOf[r]] = r]
             /\ stage'[r] = "replacing"
    BY <1>11, <2>1, <2>3, OrderEntered
  <2> QED
    BY <1>0, <1>11, <2>2, <2>3, LatestStep
<1>12. CASE Restart /\ UNCHANGED jobVars
  <2>1. UNCHANGED <<before, status, latest>>
    BY <1>12 DEF Restart, jobVars
  <2>2. \A k \in Job : /\ stage[RequestOf(k)] = "ok" => stage'[RequestOf(k)] = "ok"
                       /\ stage'[RequestOf(k)] \in {"replacing", "ok"}
                              => stage[RequestOf(k)] \in {"replacing", "ok"}
    BY <1>0, <1>12 DEF Restart
  <2> QED
    BY <1>0, <2>1, <2>2, OrderStays
<1>13. ASSUME NEW d \in Document, DeleteDocument(d), UNCHANGED jobVars PROVE Ordered'
  BY <1>13, OrderDeleted
<1>14. CASE UNCHANGED vars
  BY <1>1, <1>14 DEF vars, serviceVars, jobVars
<1> QED
  BY <1>2, <1>3, <1>4, <1>5, <1>6, <1>7, <1>8, <1>9, <1>10, <1>11, <1>12, <1>13, <1>14
  DEF Next, TaskStep, RetrievalStep

(* Every step keeps the inductive invariant. *)
LEMMA OrderStep ==
  ASSUME JobsIInv, OrderIInv, [Next]_vars PROVE OrderIInv'
<1> SUFFICES ASSUME epoch' = 1, broken' = 0 PROVE OrderIInv'
  BY DEF OrderIInv
<1>1. epoch \in 1..MaxEpoch /\ broken \in 0..MaxBroken
  BY DEF JobsIInv, JobsTypeOK
<1>2. epoch' \in {epoch, epoch + 1} /\ broken' \in {broken, broken + 1}
  BY DEF Next, TaskStep, RetrievalStep, Enqueue, Cancel, Spawn, ReadBackFails, TakePermit,
         SkipCancelled, MarkRunning, Post, PostFails, TakeAnswer, AnswerLost, ConnectionBreaks,
         DropAnswer, AcceptAnswer, RefuseAnswer, StatementFails, FinishSucceeded, FinishFailed,
         FinishFails, Fail, Crash, Start, vars, jobVars
<1>3. epoch = 1 /\ broken = 0
  BY <1>1, <1>2, JobsAssumption
<1>4. Ordered /\ OnlyPosting /\ BeforeOver
  BY <1>3 DEF OrderIInv, Ordered
<1>5. Ordered' /\ OnlyPosting' /\ BeforeOver'
  BY <1>3, <1>4, OrderedStep, PostingStep, BeforeOverStep
<1> QED
  BY <1>5 DEF OrderIInv, Ordered

(* As long as the process has not crashed and no connection broke, a job   *)
(* that was enqueued when another one was over, and succeeds itself, is    *)
(* not undone by that other one's ingest.                                  *)
THEOREM LaterJobWinsHolds == Spec => []LaterJobWins
<1>1. Init => OrderIInv
  <2> SUFFICES ASSUME Init PROVE OrderIInv
    OBVIOUS
  <2>1. \A j \in Job : RequestOf(j) \in Request
    BY RequestType, JobsAssumption DEF Init, RequestOf
  <2>2. OnlyPosting
    BY <2>1 DEF Init, ServiceInit, OnlyPosting, Over
  <2> QED
    BY <2>2 DEF Init, OrderIInv, SucceededAreStored, BeforeOver
<1>2. JobsIInv /\ OrderIInv /\ [Next]_vars => OrderIInv'
  BY OrderStep
<1>3. JobsIInv /\ OrderIInv => LaterJobWins
  <2> SUFFICES ASSUME JobsIInv, OrderIInv, epoch = 1, broken = 0,
                      NEW k \in Job, status[k] = "succeeded", NEW j \in before[k],
                      SourceOf[RequestOf(j)] = SourceOf[RequestOf(k)]
               PROVE  latest[SourceOf[RequestOf(k)]] # RequestOf(j)
    BY DEF LaterJobWins
  <2>1. stage[RequestOf(k)] = "ok" /\ ComesAfter(k, j)
    BY DEF OrderIInv, SucceededAreStored
  <2> QED
    BY <2>1 DEF ComesAfter
<1> QED
  BY <1>1, <1>2, <1>3, JobsInvariant, PTL DEF Spec
=============================================================================
