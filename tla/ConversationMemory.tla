-------------------------- MODULE ConversationMemory --------------------------
(***************************************************************************)
(* The memory gateway (src/rlm_proxy/memory_gateway.py) over its store of  *)
(* conversations (conversation_memory.py, conversation_compaction.py).     *)
(*                                                                         *)
(* A chat request reads its conversation, awaits the completion that is    *)
(* given it as context, and then records the turn: the user's message, the *)
(* assistant's, and a new summary, one transaction each.  The gateway is   *)
(* one process with one event loop (entrypoints.py), and nothing is        *)
(* awaited while a turn is recorded: between its transactions there can be *)
(* a crash or a failing statement, but no other handler.                   *)
(*                                                                         *)
(* A message is its role and the request it comes from.  A summary is the  *)
(* sequence of its headings, messages and mark of truncation; a heading    *)
(* and a message count for one unit of max_summary_chars, and the mark for *)
(* MarkLength.                                                             *)
(***************************************************************************)
EXTENDS Integers, Sequences

CONSTANTS
    Chat,            \* chat requests
    Conversation,    \* conversation ids
    Policies,        \* the compaction policies a gateway may be given
    MarkLength,      \* units of the mark of truncation
    MaxLives,        \* bound: how often a conversation id is created
    MaxFaults,       \* bound: failing statements and crashes
    Nobody           \* no handler is between two transactions

(* A policy is what three environment variables say: any integers. *)
ASSUME PolicyAssumption ==
    /\ \A p \in Policies : p \in [messages : Int, recent : Int, chars : Int]
    /\ MarkLength \in Nat

ASSUME BoundsAssumption == MaxLives \in Nat /\ MaxFaults \in Nat /\ Nobody \notin Chat

Message == {"user", "assistant"} \X Chat
Heading == {<<"previous">>, <<"turns">>, <<"cut">>}

VARIABLES
    policy,    \* the gateway's policy: max_messages, preserve_recent, max_summary_chars
    exists,    \* conversations that have a row
    revision, messages, summary,  \* their columns and messages
    lives,     \* how often each was created (history)
    pc,        \* where each request is
    target,    \* its conversation
    life,      \* the life of the conversation it read, then recorded in (history)
    seen,      \* snapshot.messages: the context of its completion
    current,   \* current.revision
    text,      \* the completion has a text
    recording, \* the request that is between two transactions, or Nobody
    faults

rows == <<exists, revision, messages, summary, lives>>
locals == <<target, life, seen, current, text>>
vars == <<policy, rows, pc, locals, recording, faults>>

PC == {"none",
       "awaiting",  \* the completion is under way
       "answer",    \* the user's message is stored
       "summary",   \* the turn is stored
       "ok",
       "failed",    \* answered with an error
       "lost"}      \* cut off by a crash

(* The longest summary: the mark is never shortened. *)
SummaryLimit == IF policy.chars < MarkLength THEN MarkLength ELSE policy.chars

(* Types, and the bound on summaries (deterministic_summary). *)
TypeOK ==
    /\ policy \in Policies
    /\ exists \subseteq Conversation
    /\ revision \in [Conversation -> Nat]
    /\ messages \in [Conversation -> Seq(Message)]
    /\ summary \in [Conversation -> Seq(Message \cup Heading)]
    /\ \A c \in Conversation : Len(summary[c]) <= SummaryLimit
    /\ lives \in [Conversation -> 0..MaxLives]
    /\ pc \in [Chat -> PC]
    /\ target \in [Chat -> Conversation]
    /\ life \in [Chat -> 0..MaxLives]
    /\ seen \in [Chat -> Seq(Message)]
    /\ current \in [Chat -> Nat]
    /\ text \in [Chat -> BOOLEAN]
    /\ recording \in Chat \cup {Nobody}
    /\ faults \in 0..MaxFaults

Init ==
    /\ policy \in Policies
    /\ exists = {}
    /\ revision = [c \in Conversation |-> 0]
    /\ messages = [c \in Conversation |-> <<>>]
    /\ summary = [c \in Conversation |-> <<>>]
    /\ lives = [c \in Conversation |-> 0]
    /\ pc = [h \in Chat |-> "none"]
    /\ target \in [Chat -> Conversation]
    /\ life = [h \in Chat |-> 0]
    /\ seen = [h \in Chat |-> <<>>]
    /\ current = [h \in Chat |-> 0]
    /\ text \in [Chat -> BOOLEAN]
    /\ recording = Nobody
    /\ faults = 0

Goto(h, label) == pc' = [pc EXCEPT ![h] = label]
LoopFree == recording = Nobody

(* store.get, or store.create when there is no such conversation. *)
GetOrCreate(c) ==
    IF c \in exists
    THEN UNCHANGED rows
    ELSE /\ lives[c] < MaxLives
         /\ exists' = exists \cup {c}
         /\ lives' = [lives EXCEPT ![c] = @ + 1]
         /\ UNCHANGED <<revision, messages, summary>>

Receive(h) ==
    /\ LoopFree
    /\ pc[h] = "none"
    /\ GetOrCreate(target[h])
    /\ seen' = [seen EXCEPT ![h] = messages[target[h]]]
    /\ life' = [life EXCEPT ![h] = lives'[target[h]]]
    /\ Goto(h, "awaiting")
    /\ UNCHANGED <<target, current, text, recording, policy, faults>>

(* No user message: refused only after the conversation was created. *)
Refuse(h) ==
    /\ LoopFree
    /\ pc[h] = "none"
    /\ GetOrCreate(target[h])
    /\ Goto(h, "failed")
    /\ UNCHANGED <<locals, recording, policy, faults>>

CompletionFails(h) ==
    /\ LoopFree
    /\ pc[h] = "awaiting"
    /\ Goto(h, "failed")
    /\ UNCHANGED <<rows, locals, recording, policy, faults>>

(* store.get raises KeyError: deleted while the completion was awaited. *)
ConversationGone(h) ==
    /\ LoopFree
    /\ pc[h] = "awaiting"
    /\ target[h] \notin exists
    /\ Goto(h, "failed")
    /\ UNCHANGED <<rows, locals, recording, policy, faults>>

Fail(h) ==
    /\ Goto(h, "failed")
    /\ recording' = Nobody
    /\ UNCHANGED <<rows, locals>>

RevisionOk(c, expected) == revision[c] = expected

(* Mutant of AppendMessage: run in a thread, without a revision. *)
AppendInThread(h, role, expected, next) ==
    LET c == target[h] IN
    /\ messages' = [messages EXCEPT ![c] = Append(@, <<role, h>>)]
    /\ revision' = [revision EXCEPT ![c] = @ + 1]
    /\ current' = [current EXCEPT ![h] = revision[c] + 1]
    /\ life' = [life EXCEPT ![h] = lives[c]]
    /\ recording' = Nobody
    /\ Goto(h, next)
    /\ UNCHANGED <<exists, summary, lives, target, seen, text>>

(* store.append: the check, the transaction and the snapshot it returns. *)
AppendMessage(h, role, expected, next) ==
    LET c == target[h] IN
    IF RevisionOk(c, expected)
    THEN /\ messages' = [messages EXCEPT ![c] = Append(@, <<role, h>>)]
         /\ revision' = [revision EXCEPT ![c] = @ + 1]
         /\ current' = [current EXCEPT ![h] = revision[c] + 1]
         /\ life' = [life EXCEPT ![h] = lives[c]]
         /\ recording' = h
         /\ Goto(h, next)
         /\ UNCHANGED <<exists, summary, lives, target, seen, text>>
    ELSE Fail(h)

AppendUser(h) ==
    /\ LoopFree
    /\ pc[h] = "awaiting"
    /\ target[h] \in exists
    /\ AppendMessage(h, "user", revision[target[h]], "answer")
    /\ UNCHANGED <<policy, faults>>

(* Mutant of AppendAnswer: the revision is that of the snapshot before. *)
AppendAnswerStale(h) ==
    /\ pc[h] = "answer"
    /\ text[h]
    /\ AppendMessage(h, "assistant", current[h] - 1, "summary")
    /\ UNCHANGED <<policy, faults>>

AppendAnswer(h) ==
    /\ pc[h] = "answer"
    /\ text[h]
    /\ AppendMessage(h, "assistant", current[h], "summary")
    /\ UNCHANGED <<policy, faults>>

SkipAnswer(h) ==
    /\ pc[h] = "answer"
    /\ ~text[h]
    /\ Goto(h, "summary")
    /\ UNCHANGED <<rows, locals, recording, policy, faults>>

Mark == [i \in 1..MarkLength |-> <<"cut">>]

(* Mutant of Truncated: the mark is not counted. *)
TruncatedLate(s) ==
    IF Len(s) <= policy.chars THEN s ELSE SubSeq(s, 1, policy.chars) \o Mark

(* The mark is counted, but a limit below its length leaves it whole. *)
Truncated(s) ==
    IF Len(s) <= policy.chars THEN s
    ELSE SubSeq(s, 1, policy.chars - MarkLength) \o Mark

(* deterministic_summary *)
Summary(previous, compacted) ==
    Truncated((IF previous = <<>> THEN <<>> ELSE <<<<"previous">>>> \o previous)
              \o <<<<"turns">>>> \o compacted)

(* CompactionPolicy.validate *)
PolicyValid == policy.messages >= 1 /\ policy.recent \in 1..policy.messages /\ policy.chars >= 1

(* compact_context; of its two results the gateway uses the summary only. *)
Compacted(previous, history) ==
    IF Len(history) <= policy.messages
    THEN previous
    ELSE Summary(previous, SubSeq(history, 1, Len(history) - policy.recent))

(* Mutants of Summarize: the summarized messages are deleted, and the      *)
(* summary is changed without a new revision.                              *)
SummarizeAndDrop(h) ==
    LET c == target[h]
        new == Compacted(summary[c], messages[c]) IN
    /\ pc[h] = "summary" /\ PolicyValid
    /\ summary' = [summary EXCEPT ![c] = new]
    /\ messages' = [messages EXCEPT ![c] =
                       IF new = summary[c] THEN @
                       ELSE SubSeq(@, Len(@) - policy.recent + 1, Len(@))]
    /\ revision' = [revision EXCEPT ![c] = IF new = summary[c] THEN @ ELSE @ + 1]
    /\ Goto(h, "ok")
    /\ recording' = Nobody
    /\ UNCHANGED <<exists, lives, locals, policy, faults>>

SummarizeUnversioned(h) ==
    LET c == target[h] IN
    /\ pc[h] = "summary" /\ PolicyValid
    /\ summary' = [summary EXCEPT ![c] = Compacted(@, messages[c])]
    /\ Goto(h, "ok")
    /\ recording' = Nobody
    /\ UNCHANGED <<exists, messages, revision, lives, locals, policy, faults>>

Summarize(h) ==
    LET c == target[h]
        new == Compacted(summary[c], messages[c]) IN
    /\ pc[h] = "summary" /\ PolicyValid
    /\ IF new = summary[c] \/ RevisionOk(c, current[h])
       THEN /\ summary' = [summary EXCEPT ![c] = new]
            /\ revision' = [revision EXCEPT ![c] = IF new = summary[c] THEN @ ELSE @ + 1]
            /\ Goto(h, "ok")
            /\ recording' = Nobody
            /\ UNCHANGED <<exists, messages, lives, locals>>
       ELSE Fail(h)
    /\ UNCHANGED <<policy, faults>>

(* The policy is validated only now, when the turn is already stored. *)
PolicyRefused(h) ==
    /\ pc[h] = "summary"
    /\ ~PolicyValid
    /\ Fail(h)
    /\ UNCHANGED <<policy, faults>>

(* A transaction of the recording fails and is rolled back, or a read that *)
(* follows it fails.                                                       *)
StatementFails(h) ==
    /\ pc[h] \in {"awaiting", "answer", "summary"}
    /\ pc[h] = "awaiting" => LoopFree /\ target[h] \in exists
    /\ faults < MaxFaults
    /\ faults' = faults + 1
    /\ Fail(h)
    /\ UNCHANGED policy

(* Mutant of Delete: foreign keys are not enforced. *)
DeleteRowOnly(c) ==
    /\ LoopFree
    /\ c \in exists
    /\ exists' = exists \ {c}
    /\ revision' = [revision EXCEPT ![c] = 0]
    /\ summary' = [summary EXCEPT ![c] = <<>>]
    /\ UNCHANGED <<messages, lives, pc, locals, recording, policy, faults>>

(* The messages go with the row (ON DELETE CASCADE). *)
Delete(c) ==
    /\ LoopFree
    /\ c \in exists
    /\ exists' = exists \ {c}
    /\ revision' = [revision EXCEPT ![c] = 0]
    /\ messages' = [messages EXCEPT ![c] = <<>>]
    /\ summary' = [summary EXCEPT ![c] = <<>>]
    /\ UNCHANGED <<lives, pc, locals, recording, policy, faults>>

(* The gateway stops and is started again. *)
Crash ==
    /\ faults < MaxFaults
    /\ faults' = faults + 1
    /\ pc' = [h \in Chat |-> IF pc[h] \in {"awaiting", "answer", "summary"}
                             THEN "lost" ELSE pc[h]]
    /\ recording' = Nobody
    /\ UNCHANGED <<policy, rows, locals>>

Next ==
    \/ \E h \in Chat :
          \/ Receive(h) \/ Refuse(h) \/ CompletionFails(h) \/ ConversationGone(h)
          \/ AppendUser(h) \/ AppendAnswer(h) \/ SkipAnswer(h)
          \/ Summarize(h) \/ PolicyRefused(h) \/ StatementFails(h)
    \/ \E c \in Conversation : Delete(c)
    \/ Crash

Spec == Init /\ [][Next]_vars

-----------------------------------------------------------------------------
(* Properties.                                                             *)

(* An assistant's message directly follows the user's message of the same  *)
(* request, however requests, deletions and failures are interleaved.      *)
AnswersFollowQuestions ==
    \A c \in Conversation : \A i \in 1..Len(messages[c]) :
        messages[c][i][1] = "assistant" =>
            i > 1 /\ messages[c][i - 1] = <<"user", messages[c][i][2]>>

Elements(s) == {s[i] : i \in DOMAIN s}
Cites(h, role, c) == <<role, h>> \in Elements(summary[c])
Says(h, role, c) == <<role, h>> \in Elements(messages[c])

Recorded(h) == /\ Says(h, "user", target[h])
               /\ text[h] => Says(h, "assistant", target[h])
RecordsNothing(h) ==
    \A c \in Conversation : ~Says(h, "user", c) /\ ~Says(h, "assistant", c)

(* The conversation that h read, or recorded in, is not deleted yet. *)
Lasts(h) == life[h] = lives[target[h]] /\ target[h] \in exists

TurnKept(h) ==
    /\ pc[h] = "ok" /\ Lasts(h) => Recorded(h)
    /\ pc[h] \in {"none", "awaiting"} => RecordsNothing(h)
    /\ pc[h] = "failed" /\ faults = 0 =>
          \/ RecordsNothing(h)
          \/ ~PolicyValid /\ (Lasts(h) => Recorded(h))

(* A request that was answered has its turn in the conversation, until the *)
(* conversation is deleted.  One that was not has left nothing in it, as   *)
(* long as the policy is a valid one, no statement failed and the gateway  *)
(* did not crash: the checks of the revision never refuse the second half  *)
(* of a turn.  With a policy that is not, the turn of a request that       *)
(* failed is stored whole or not at all (README, section 5).               *)
RecordedIffAnswered == \A h \in Chat : TurnKept(h)

IsBeginning(s, t) == Len(s) <= Len(t) /\ \A i \in 1..Len(s) : s[i] = t[i]

(* What a completion was given as context is still the beginning of the    *)
(* conversation when its turn is recorded, unless that was deleted while   *)
(* the completion was awaited: compaction and other requests take nothing  *)
(* back.                                                                   *)
ContextStays ==
    \A h \in Chat :
        pc[h] = "awaiting" /\ target[h] \in exists /\ life[h] = lives[target[h]]
        => IsBeginning(seen[h], messages[target[h]])

(* Nothing of a deleted conversation is in a later one of the same id: all *)
(* its messages, and what its summary cites, were recorded in its own life *)
(* (DELETE /v1/memory/conversations and its cascade in the store).         *)
DeletedForGood ==
    \A c \in exists, h \in Chat, role \in {"user", "assistant"} :
        Says(h, role, c) \/ Cites(h, role, c) => target[h] = c /\ life[h] = lives[c]

(* A revision names one content of a conversation: it changes with every   *)
(* change of the messages or the summary, and never goes back, until the   *)
(* conversation is deleted.                                                *)
KeepsRevisions ==
    \A c \in exists \cap exists' :
        \/ revision'[c] > revision[c]
        \/ UNCHANGED <<revision[c], messages[c], summary[c]>>
RevisionMoves == [][KeepsRevisions]_vars

(* The inductive invariant: the request that records is the only one past  *)
(* its completion, what it knows of its conversation still stands, and a   *)
(* message belongs to a request that recorded it in this life.             *)
OneRecords ==
    \A h \in Chat : pc[h] \in {"answer", "summary"} <=> recording = h
RecorderIsCurrent ==
    \A h \in Chat : recording = h =>
        /\ target[h] \in exists
        /\ current[h] = revision[target[h]]
        /\ life[h] = lives[target[h]]
TurnUnderWay ==
    \A h \in Chat :
        /\ pc[h] = "answer" =>
              LET m == messages[target[h]] IN Len(m) > 0 /\ m[Len(m)] = <<"user", h>>
        /\ pc[h] = "summary" =>
              /\ Says(h, "user", target[h])
              /\ text[h] => Says(h, "assistant", target[h])
Owned ==
    \A c \in Conversation, h \in Chat, role \in {"user", "assistant"} :
        Says(h, role, c) \/ Cites(h, role, c) =>
            /\ c \in exists /\ target[h] = c /\ life[h] = lives[c]
            /\ pc[h] \notin {"none", "awaiting"}
LivesPass == \A h \in Chat : life[h] <= lives[target[h]]

IInv == /\ TypeOK /\ OneRecords /\ RecorderIsCurrent /\ TurnUnderWay /\ Owned /\ LivesPass
        /\ AnswersFollowQuestions /\ RecordedIffAnswered /\ ContextStays

(* conversation_compaction.py calls the summary extractive: what there is  *)
(* of it cites the conversation.  Repeated compaction violates this        *)
(* (README, section 5).                                                    *)
SummaryExtracts ==
    \A c \in Conversation :
        summary[c] # <<>> => Elements(summary[c]) \cap Message # {}
=============================================================================
