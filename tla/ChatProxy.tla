------------------------------ MODULE ChatProxy ------------------------------
(***************************************************************************)
(* POST /v1/chat/completions of the proxy (src/rlm_proxy/app.py) with the  *)
(* preprocessing of oversized messages (ingestion.py), the routing against *)
(* the slot catalog (routing.py), the retrieval of knowledge (knowledge.py)*)
(* and the metrics (metrics.py).                                           *)
(*                                                                         *)
(* The handlers are coroutines of one event loop, so a step is what one    *)
(* request does between two awaits: from a model or retrieval call to the  *)
(* next one, or to its answer.  An operator of that stretch takes the      *)
(* request's record and gives the set of records it may leave.  An option  *)
(* of the request is chosen where it is first looked at.                   *)
(*                                                                         *)
(* The contents of a slot are abstracted to the catalog version they come  *)
(* from.  The completion tree (RunTree) is a call that answers, raises an  *)
(* RLMError or lets another exception pass.                                *)
(***************************************************************************)
EXTENDS Windows

CONSTANTS
    Request,       \* bound: the requests of a behaviour
    Text,          \* bound: the final user messages they may carry
    ThresholdChars,\* IngestionOptions.threshold_chars
    MaxWindows,    \* IngestionOptions.max_windows
    MaxTurnCount,  \* RoutingOptions.max_turn_count
    RecentLimit,   \* ProxyMetrics(recent_limit)
    Slot,          \* slot slugs the caller and the router may name
    Stream,        \* workstream slugs
    CatalogSlots,  \* bound: the catalogs that may be stored
    MaxVersion,    \* bound: catalog versions
    NoSlot

ASSUME ChatAssumption ==
    /\ Text \subseteq Seq(Nat \ {0})
    /\ ThresholdChars \in Nat \ {0} /\ MaxWindows \in Nat \ {0}
    /\ MaxTurnCount \in Nat \ {0} /\ RecentLimit \in Nat \ {0}
    /\ MaxVersion \in Nat
    /\ IsFiniteSet(Request) /\ NoSlot \notin Slot
    /\ CatalogSlots \subseteq UNION {[S -> SUBSET Stream] : S \in SUBSET Slot}

VARIABLES
    service,  \* whether settings.knowledge_api_base is set
    catalog,  \* the registry: [version, slots], each slot with its workstreams
    req,      \* the state of each request
    metrics,  \* ProxyMetrics
    answers   \* history: the requests in the order they were answered

chatVars == <<service, catalog, req, metrics, answers>>

-----------------------------------------------------------------------------
Code == {0, 200, 400, 500, 502}
Status == {"none", "ok", "clarify", "error"}  \* "none": nothing was recorded
Context == [slot : Slot \cup {NoSlot}, version : 0..MaxVersion, streams : SUBSET Stream]
NoContext == [slot |-> NoSlot, version |-> 0, streams |-> {}]

NewRequest ==
    [phase |-> "idle", text |-> <<>>, windows |-> <<>>, chunks |-> <<>>,
     snap |-> [version |-> 0, slots |-> <<>>], mode |-> "auto",
     turns |-> 0, shown |-> 0, routed |-> NoContext, required |-> FALSE,
     knowledge |-> "off", code |-> 0, status |-> "none"]

ChatTypeOK ==
    /\ service \in BOOLEAN
    /\ catalog \in [version : 0..MaxVersion, slots : CatalogSlots]
    /\ \A r \in Request :
           /\ req[r].phase \in {"idle", "dump", "route", "knowledge", "rlm", "done"}
           /\ req[r].turns \in 0..MaxTurnCount
           /\ req[r].routed \in Context
           /\ req[r].code \in Code /\ req[r].status \in Status
           /\ req[r].phase = "done" <=> req[r].code # 0

ChatInit ==
    /\ service \in BOOLEAN
    /\ \E s \in CatalogSlots : catalog = [version |-> 0, slots |-> s]
    /\ req = [r \in Request |-> NewRequest]
    /\ metrics = [total |-> 0, ok |-> 0, failed |-> 0, clarified |-> 0, recent |-> <<>>]
    /\ answers = <<>>

(* The answer, and the status it is recorded with. *)
Answered(code, status) == {[NewRequest EXCEPT !.phase = "done", !.code = code,
                                              !.status = status]}

-----------------------------------------------------------------------------
(* Routing.                                                                *)

(* KnowledgeOptions: what `required` says of a retrieval that the request  *)
(* switches off is never looked at.                                        *)
Wish == {"off", "wanted", "required"}

(* Retrieval is next if the proxy has a service and the request does not   *)
(* switch it off; otherwise the RLM, whatever the request requires.        *)
ToKnowledge(j) ==
    {[j EXCEPT !.required = (wish = "required"),
               !.phase = IF service /\ wish # "off" THEN "knowledge" ELSE "rlm"] :
     wish \in Wish}

Known(c, slot, streams) == slot \in DOMAIN c.slots /\ streams \subseteq c.slots[slot]

(* Mutant of RoutedContext: the registry is read again. *)
RoutedContextNow(c, slot, streams) ==
    [slot |-> slot, version |-> catalog.version, streams |-> streams]

RoutedContext(c, slot, streams) ==
    [slot |-> slot, version |-> c.version, streams |-> streams]

WithRoute(j, slot, streams) ==
    ToKnowledge([j EXCEPT !.routed = RoutedContext(j.snap, slot, streams)])

(* The request names the slot; without workstreams it means all of them.   *)
ExplicitRoute(j, slot, streams) ==
    IF ~Known(j.snap, slot, streams)
    THEN Answered(400, "error")
    ELSE WithRoute([j EXCEPT !.mode = "explicit"], slot,
                   IF streams = {} THEN j.snap.slots[slot] ELSE streams)

(* The router is asked, from some number of the request's last turns on.   *)
Asked(j, n, mode) == [j EXCEPT !.phase = "route", !.turns = n, !.mode = mode]
AskRouter(j) ==
    {Asked(j, n, mode) : n \in 1..MaxTurnCount, mode \in {"auto", "clarify_only"}}

(* The catalog is read once; what it shows the router is what the context  *)
(* is built from.                                                          *)
ToRouting(j) ==
    LET s == [j EXCEPT !.snap = catalog, !.shown = catalog.version]
        Named == UNION {ExplicitRoute(s, slot, streams) :
                        slot \in Slot, streams \in SUBSET Stream}
    IN ToKnowledge(j) \cup Named
       \cup (IF DOMAIN catalog.slots = {} THEN ToKnowledge(s) ELSE AskRouter(s))

(* Mutant of NextTurnCount: at the limit the count wraps instead of stopping. *)
WrappedTurnCount(n) == (n * 2) % MaxTurnCount

NextTurnCount(n) == Min({MaxTurnCount, Max({n + 1, n * 2})})

Reply == [action : {"route", "expand", "clarify"}, slot : Slot \cup {NoSlot},
          streams : SUBSET Stream]

(* One round of resolve_route; several workstreams are a route only if the *)
(* request allows them.                                                    *)
Route(j, reply) ==
    IF reply.action = "expand" /\ j.turns < MaxTurnCount
    THEN {[j EXCEPT !.turns = NextTurnCount(@)]}
    ELSE IF reply.action # "route" \/ j.mode = "clarify_only" \/ reply.slot = NoSlot
    THEN Answered(200, "clarify")
    ELSE IF ~Known(j.snap, reply.slot, reply.streams)
    THEN Answered(400, "error")
    ELSE WithRoute([j EXCEPT !.turns = 0], reply.slot, reply.streams)
         \cup (IF Cardinality(reply.streams) > 1 THEN Answered(200, "clarify") ELSE {})

-----------------------------------------------------------------------------
(* Preprocessing.                                                          *)

(* split_query_context refuses a request without a user message; a long    *)
(* message is preprocessed unless the request says otherwise.              *)
Begin(text, enabled) ==
    IF text = <<>>
    THEN Answered(400, "error")
    ELSE IF ~(enabled /\ TextLength(text) >= ThresholdChars)
    THEN ToRouting(NewRequest)
    ELSE IF Len(NaturalWindows(text)) > MaxWindows
    THEN Answered(400, "error")
    ELSE {[NewRequest EXCEPT !.phase = "dump", !.text = text,
                             !.windows = NaturalWindows(text)]}

(* The record of one more window is kept with the window's text; after the *)
(* last one the query and the context are made of them.                    *)
Analyzed(j) ==
    LET k == [j EXCEPT !.chunks = Append(@, Head(j.windows)), !.windows = Tail(@)] IN
    IF k.windows = <<>> THEN ToRouting(k) ELSE {k}

-----------------------------------------------------------------------------
(* Mutant of Recorded: a clarification counts as a success as well. *)
RecordedTwice(m, r, status) ==
    [total |-> m.total + 1,
     ok |-> m.ok + (IF status \in {"ok", "clarify"} THEN 1 ELSE 0),
     clarified |-> m.clarified + (IF status = "clarify" THEN 1 ELSE 0),
     failed |-> m.failed + (IF status = "error" THEN 1 ELSE 0),
     recent |-> SubSeq(<<r>> \o m.recent, 1, Min({RecentLimit, Len(m.recent) + 1}))]

(* ProxyMetrics.record *)
Recorded(m, r, status) ==
    [total |-> m.total + 1,
     ok |-> m.ok + (IF status = "ok" THEN 1 ELSE 0),
     clarified |-> m.clarified + (IF status = "clarify" THEN 1 ELSE 0),
     failed |-> m.failed + (IF status = "error" THEN 1 ELSE 0),
     recent |-> SubSeq(<<r>> \o m.recent, 1, Min({RecentLimit, Len(m.recent) + 1}))]

(* Request r runs to its next await or to its answer. *)
RunTo(r, outcomes) ==
    \E k \in outcomes :
        /\ req' = [req EXCEPT ![r] = k]
        /\ metrics' = IF k.status = "none" THEN metrics
                      ELSE Recorded(metrics, r, k.status)
        /\ answers' = IF k.status = "none" THEN answers ELSE Append(answers, r)
        /\ UNCHANGED <<service, catalog>>

Receive(r) ==
    /\ req[r].phase = "idle"
    /\ \E text \in Text \cup {<<>>}, enabled \in BOOLEAN : RunTo(r, Begin(text, enabled))

(* The model answers for a window; a ValueError, which a reply that is not *)
(* a JSON object raises, is taken for the caller's, any other error for    *)
(* the model's.                                                            *)
WindowAnalyzed(r) ==
    /\ req[r].phase = "dump"
    /\ RunTo(r, Analyzed(req[r]))
WindowFails(r) ==
    /\ req[r].phase = "dump"
    /\ RunTo(r, Answered(400, "error") \cup Answered(502, "error"))

RouterReplies(r) ==
    /\ req[r].phase = "route"
    /\ \E reply \in Reply : RunTo(r, Route(req[r], reply))

(* A reply that is not a JSON object is a ValueError; no other exception   *)
(* of the router call is caught.                                           *)
RouterFails(r) ==
    /\ req[r].phase = "route"
    /\ RunTo(r, Answered(400, "error") \cup Answered(500, "none"))

KnowledgeFound(r) ==
    /\ req[r].phase = "knowledge"
    /\ RunTo(r, {[req[r] EXCEPT !.phase = "rlm", !.knowledge = "ok"]})

Without(j) == [j EXCEPT !.phase = "rlm", !.knowledge = "unavailable"]

(* Mutant of Unavailable: what fails is only noted. *)
UnavailableNoted(j) == {Without(j)}

(* Only a request that requires the knowledge fails without it. *)
Unavailable(j) == IF j.required THEN Answered(502, "error") ELSE {Without(j)}

KnowledgeMissing(r) ==
    /\ req[r].phase = "knowledge"
    /\ RunTo(r, Unavailable(req[r]))

(* A body that is no object raises what nothing catches. *)
KnowledgeMalformed(r) ==
    /\ req[r].phase = "knowledge"
    /\ RunTo(r, Answered(500, "none"))

(* The RLM answers, raises an RLMError, or lets a provider's error pass.   *)
RlmEnds(r) ==
    /\ req[r].phase = "rlm"
    /\ RunTo(r, Answered(200, "ok") \cup Answered(502, "error")
                \cup Answered(500, "none"))

(* The catalog changes while requests are under way. *)
ReplaceCatalog ==
    /\ catalog.version < MaxVersion
    /\ \E s \in CatalogSlots : catalog' = [version |-> catalog.version + 1, slots |-> s]
    /\ UNCHANGED <<service, req, metrics, answers>>

ModelStep(r) == \/ WindowAnalyzed(r) \/ WindowFails(r) \/ RouterReplies(r) \/ RouterFails(r)
                \/ KnowledgeFound(r) \/ KnowledgeMissing(r) \/ KnowledgeMalformed(r)
                \/ RlmEnds(r)

ChatNext == ReplaceCatalog \/ \E r \in Request : Receive(r) \/ ModelStep(r)

ChatSpec == ChatInit /\ [][ChatNext]_chatVars

(* Every call to the model or the service ends: httpx has a timeout, and   *)
(* the provider's client one of its own.                                   *)
ChatFairSpec == ChatSpec /\ \A r \in Request : WF_chatVars(ModelStep(r))

-----------------------------------------------------------------------------
(* docs/architecture.md 61: routing works on one snapshot of the catalog   *)
(* for the whole request.  The context handed on is that of one slot with  *)
(* workstreams it had in the very version the router was shown, however    *)
(* the catalog changed while the router was asked (app.py 223, 269).       *)
RoutedFromShown ==
    \A r \in Request :
        LET c == req[r].routed IN
        c.slot # NoSlot =>
            /\ c.version = req[r].shown
            /\ Known(req[r].snap, c.slot, c.streams)
            /\ req[r].mode # "clarify_only"

(* The RLM is run with all the request brought.  A preprocessed message    *)
(* reaches it whole, in windows no longer than the overlap makes them      *)
(* (app.py 187, ingestion.py 178).  And if the proxy has a service, a      *)
(* request that requires its knowledge runs only with a retrieval that     *)
(* succeeded, by whichever way of routing it came there (app.py 295-324);  *)
(* without a service it runs all the same (app.py 274), where              *)
(* docs/knowledge.md 91 promises it a 502.                                 *)
RunsWithAllAsked ==
    \A r \in Request : req[r].phase = "rlm" =>
        /\ service /\ req[r].required => req[r].knowledge = "ok"
        /\ Covered(req[r].chunks, req[r].text)
        /\ Bounded(req[r].chunks)

(* The metrics count every answer once and under its own kind, except the  *)
(* errors nothing catches, and remember the latest of them newest first    *)
(* (metrics.py 53).                                                        *)
MetricsAgree ==
    LET With(s) == Cardinality({r \in Request : req[r].status = s}) IN
    /\ metrics.total = With("ok") + With("clarify") + With("error")
    /\ metrics.ok = With("ok")
    /\ metrics.clarified = With("clarify")
    /\ metrics.failed = With("error")
    /\ metrics.recent = SubSeq(Reverse(answers), 1, Min({RecentLimit, Len(answers)}))

(* The inductive invariant of the two.  A request in one of its phases:    *)
(* what it has been routed to is what its snapshot holds, and nothing is   *)
(* recorded before it is answered.                                         *)
Snapshots == [version : 0..MaxVersion, slots : CatalogSlots]

RoutedAsShown(j) == j.routed.slot # NoSlot =>
    /\ j.routed.version = j.shown
    /\ Known(j.snap, j.routed.slot, j.routed.streams)
    /\ j.mode # "clarify_only"

InPhase(j) ==
    /\ j.phase \in {"idle", "dump"} => j.routed = NoContext
    /\ j.phase = "route" =>
           j.snap \in Snapshots /\ j.shown = j.snap.version /\ j.routed = NoContext
    /\ j.status # "none" => j.phase = "done"

RequestShape(j) ==
    j = [phase |-> j.phase, text |-> j.text, windows |-> j.windows, chunks |-> j.chunks,
         snap |-> j.snap, mode |-> j.mode, turns |-> j.turns, shown |-> j.shown,
         routed |-> j.routed, required |-> j.required, knowledge |-> j.knowledge,
         code |-> j.code, status |-> j.status]

ChatIInv ==
    /\ ChatTypeOK
    /\ req = [r \in Request |-> req[r]]
    /\ \A r \in Request : RequestShape(req[r]) /\ InPhase(req[r]) /\ RoutedAsShown(req[r])
    /\ answers \in Seq(Request)
    /\ MetricsAgree

(* And of the third: what a request carries, while its windows are         *)
(* analyzed one by one and from then on, is the whole of its message; and  *)
(* it has the knowledge it requires by the time it runs.                   *)
Loaded(j) ==
    /\ j.chunks \in Seq(Windowed) /\ j.windows \in Seq(Windowed)
    /\ Covered(j.chunks \o j.windows, j.text)
Informed(j) == j.phase = "rlm" /\ service /\ j.required => j.knowledge = "ok"
AllAsked(j) == Loaded(j) /\ Informed(j) /\ (j.phase = "dump" <=> j.windows # <<>>)
AskedIInv == \A r \in Request : AllAsked(req[r])

(* Every request is answered: the router cannot ask for more history for   *)
(* ever (routing.py 199).                                                  *)
RequestsEnd == \A r \in Request : (req[r].phase # "idle") ~> (req[r].phase = "done")
=============================================================================
