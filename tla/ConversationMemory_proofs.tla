----------------------- MODULE ConversationMemory_proofs -----------------------
(***************************************************************************)
(* Proofs about ConversationMemory: turns are recorded whole and on top of *)
(* their context, and nothing survives a deletion, for every number of     *)
(* requests, conversations and failures and every compaction policy.       *)
(***************************************************************************)
EXTENDS ConversationMemory, SequenceTheorems, TLAPS

Text == Message \cup Heading

(* What appending an element does to a sequence. *)
LEMMA Appended ==
  ASSUME NEW S, NEW s \in Seq(S), NEW e \in S
  PROVE  /\ Append(s, e) \in Seq(S)
         /\ Len(Append(s, e)) = Len(s) + 1
         /\ \A i \in 1..Len(s) : Append(s, e)[i] = s[i]
         /\ Append(s, e)[Len(s) + 1] = e
         /\ Elements(Append(s, e)) = Elements(s) \cup {e}
  BY DEF Elements

(* What concatenation does to the elements of sequences. *)
LEMMA Concatenated ==
  ASSUME NEW S, NEW s \in Seq(S), NEW t \in Seq(S)
  PROVE  /\ s \o t \in Seq(S)
         /\ Elements(s \o t) \subseteq Elements(s) \cup Elements(t)
<1>1. /\ s \o t \in Seq(S)
      /\ DOMAIN (s \o t) = 1..Len(s) + Len(t)
      /\ \A i \in 1..Len(s) + Len(t) :
            (s \o t)[i] = IF i <= Len(s) THEN s[i] ELSE t[i - Len(s)]
  BY ConcatProperties, LenProperties
<1>2. /\ Len(s) \in Nat /\ DOMAIN s = 1..Len(s)
      /\ Len(t) \in Nat /\ DOMAIN t = 1..Len(t)
  BY LenProperties
<1>3. ASSUME NEW i \in 1..Len(s) + Len(t)
      PROVE  (s \o t)[i] \in Elements(s) \cup Elements(t)
  <2>1. CASE i <= Len(s)
    <3>1. i \in DOMAIN s /\ (s \o t)[i] = s[i]
      BY <1>1, <1>2, <2>1
    <3> QED
      BY <3>1 DEF Elements
  <2>2. CASE ~(i <= Len(s))
    <3>1. i - Len(s) \in DOMAIN t /\ (s \o t)[i] = t[i - Len(s)]
      BY <1>1, <1>2, <2>2
    <3> QED
      BY <3>1 DEF Elements
  <2> QED
    BY <2>1, <2>2
<1> QED
  BY <1>1, <1>3 DEF Elements

(* What taking the beginning of a sequence does to its elements. *)
LEMMA Beginning ==
  ASSUME NEW S, NEW s \in Seq(S), NEW n \in Int, n <= Len(s)
  PROVE  /\ SubSeq(s, 1, n) \in Seq(S)
         /\ n \in Nat => Len(SubSeq(s, 1, n)) = n
         /\ n < 0 => Len(SubSeq(s, 1, n)) = 0
         /\ Elements(SubSeq(s, 1, n)) \subseteq Elements(s)
<1> DEFINE t == SubSeq(s, 1, n)
<1>1. Len(s) \in Nat /\ DOMAIN s = 1..Len(s)
  BY LenProperties
<1>2. \A i \in 1..n : s[i] \in S
  BY <1>1, ElementOfSeq
<1>3. /\ t \in Seq(S)
      /\ Len(t) = IF 1 <= n THEN n - 1 + 1 ELSE 0
      /\ \A i \in 1..n - 1 + 1 : t[i] = s[1 + i - 1]
  <2> HIDE DEF t
  <2> QED
    BY <1>2, SubSeqProperties DEF t
<1>4. DOMAIN t = 1..Len(t)
  BY <1>3, LenProperties
<1> HIDE DEF t
<1>5. \A i \in DOMAIN t : i \in DOMAIN s /\ t[i] = s[i]
  BY <1>1, <1>3, <1>4
<1>6. Elements(t) \subseteq Elements(s)
  BY <1>5 DEF Elements
<1>7. (n \in Nat => Len(t) = n) /\ (n < 0 => Len(t) = 0)
  BY <1>3
<1> QED
  BY <1>3, <1>6, <1>7 DEF t

(* A sequence of one element. *)
LEMMA Single ==
  ASSUME NEW S, NEW e \in S
  PROVE  <<e>> \in Seq(S) /\ Elements(<<e>>) = {e}
  BY DEF Elements

(* A heading is not a message. *)
LEMMA HeadingIsNoMessage ==
  ASSUME NEW x \in Heading, NEW role, NEW h
  PROVE  x # <<role, h>>
  BY DEF Heading

(* The headings are texts. *)
LEMMA HeadingsAreText == Heading \subseteq Text
  BY DEF Text

(* A policy is three integers. *)
LEMMA PolicyType ==
  ASSUME policy \in Policies
  PROVE  policy.messages \in Int /\ policy.recent \in Int /\ policy.chars \in Int
  BY PolicyAssumption

(* The mark of truncation consists of headings. *)
LEMMA MarkText ==
  /\ Mark \in Seq(Text) /\ Len(Mark) = MarkLength
  /\ Elements(Mark) \subseteq Heading
<1>1. <<"cut">> \in Heading /\ <<"cut">> \in Text
  BY DEF Heading, Text
<1>2. MarkLength \in Nat
  BY PolicyAssumption
<1>3. Mark \in [1..MarkLength -> Text] /\ \A i \in 1..MarkLength : Mark[i] = <<"cut">>
  BY <1>1 DEF Mark
<1>4. Mark \in Seq(Text)
  BY <1>2, <1>3, SeqDef
<1>5. Len(Mark) = MarkLength /\ DOMAIN Mark = 1..MarkLength
  BY <1>2, <1>3, <1>4, LenProperties
<1>6. Elements(Mark) \subseteq Heading
  BY <1>1, <1>3, <1>5 DEF Elements
<1> QED
  BY <1>4, <1>5, <1>6

(* Truncation keeps to the limit or, if that is shorter than its mark, to  *)
(* the mark alone, and adds nothing else.                                  *)
LEMMA TruncatedText ==
  ASSUME policy \in Policies, NEW s \in Seq(Text)
  PROVE  /\ Truncated(s) \in Seq(Text)
         /\ Len(Truncated(s)) <= SummaryLimit
         /\ Elements(Truncated(s)) \subseteq Elements(s) \cup Heading
<1> DEFINE n == policy.chars - MarkLength
           t == SubSeq(s, 1, n)
<1>0. policy.chars \in Int /\ MarkLength \in Nat /\ Len(s) \in Nat
  BY PolicyType, PolicyAssumption, LenProperties
<1>1. CASE Len(s) <= policy.chars
  <2>1. Len(s) <= SummaryLimit
    BY <1>0, <1>1 DEF SummaryLimit
  <2> QED
    BY <1>1, <2>1 DEF Truncated
<1>2. CASE ~(Len(s) <= policy.chars)
  <2>1. n \in Int /\ n <= Len(s)
    BY <1>0, <1>2
  <2>2. Truncated(s) = t \o Mark
    BY <1>2 DEF Truncated
  <2> HIDE DEF n
  <2>3. /\ t \in Seq(Text) /\ Elements(t) \subseteq Elements(s)
        /\ (n \in Nat => Len(t) = n) /\ (n < 0 => Len(t) = 0)
    BY <2>1, Beginning
  <2> HIDE DEF t
  <2>4. /\ t \o Mark \in Seq(Text)
        /\ Elements(t \o Mark) \subseteq Elements(t) \cup Elements(Mark)
    BY <2>3, MarkText, Concatenated
  <2>5. Len(t \o Mark) = Len(t) + MarkLength
    BY <2>3, MarkText, ConcatProperties
  <2>6. Len(t) + MarkLength <= SummaryLimit
    <3>1. CASE n \in Nat
      BY <1>0, <2>3, <3>1 DEF SummaryLimit, n
    <3>2. CASE n < 0
      BY <1>0, <2>3, <3>2 DEF SummaryLimit, n
    <3> QED
      BY <2>1, <3>1, <3>2
  <2>7. Elements(t \o Mark) \subseteq Elements(s) \cup Heading
    BY <2>3, <2>4, MarkText
  <2> QED
    BY <2>2, <2>4, <2>5, <2>6, <2>7
<1> QED
  BY <1>1, <1>2

(* A summary consists of headings, of the previous summary and of the      *)
(* messages it summarizes.                                                 *)
LEMMA SummaryText ==
  ASSUME policy \in Policies, NEW p \in Seq(Text), NEW m \in Seq(Message)
  PROVE  /\ Summary(p, m) \in Seq(Text)
         /\ Len(Summary(p, m)) <= SummaryLimit
         /\ Elements(Summary(p, m)) \subseteq Elements(p) \cup Elements(m) \cup Heading
<1> DEFINE prev == <<"previous">>
           turns == <<"turns">>
           a == IF p = <<>> THEN <<>> ELSE <<prev>> \o p
           s == a \o <<turns>> \o m
<1>1. prev \in Heading /\ turns \in Heading
  BY DEF Heading
<1>2. Summary(p, m) = Truncated(s)
  BY DEF Summary
<1> HIDE DEF prev, turns
<1>3. m \in Seq(Text)
  BY SeqMonotonic DEF Text
<1>4. <<prev>> \in Seq(Text) /\ <<turns>> \in Seq(Text)
      /\ Elements(<<prev>>) = {prev} /\ Elements(<<turns>>) = {turns}
  BY <1>1, Single, HeadingsAreText
<1>5. a \in Seq(Text) /\ Elements(a) \subseteq Elements(p) \cup Heading
  <2>1. CASE p = <<>>
    BY <2>1
  <2>2. CASE p # <<>>
    <3>1. a = <<prev>> \o p
      BY <2>2
    <3> HIDE DEF a
    <3> QED
      BY <1>1, <1>4, <3>1, Concatenated
  <2> QED
    BY <2>1, <2>2
<1> HIDE DEF a
<1>6. /\ a \o <<turns>> \in Seq(Text)
      /\ Elements(a \o <<turns>>) \subseteq Elements(a) \cup Elements(<<turns>>)
  BY <1>4, <1>5, Concatenated
<1>7. s \in Seq(Text) /\ Elements(s) \subseteq Elements(a \o <<turns>>) \cup Elements(m)
  BY <1>3, <1>6, Concatenated
<1> HIDE DEF s
<1>8. Elements(s) \subseteq Elements(p) \cup Elements(m) \cup Heading
  BY <1>1, <1>4, <1>5, <1>6, <1>7, Zenon
<1> QED
  BY <1>2, <1>7, <1>8, TruncatedText

(* Compaction keeps to the limit and cites the previous summary and the    *)
(* conversation only.                                                      *)
LEMMA CompactedText ==
  ASSUME policy \in Policies, PolicyValid,
         NEW p \in Seq(Text), Len(p) <= SummaryLimit, NEW m \in Seq(Message)
  PROVE  /\ Compacted(p, m) \in Seq(Text)
         /\ Len(Compacted(p, m)) <= SummaryLimit
         /\ \A role, h : <<role, h>> \in Elements(Compacted(p, m)) =>
               <<role, h>> \in Elements(p) \cup Elements(m)
<1>1. CASE Len(m) <= policy.messages
  BY <1>1 DEF Compacted
<1>2. CASE ~(Len(m) <= policy.messages)
  <2> DEFINE n == Len(m) - policy.recent
             old == SubSeq(m, 1, n)
  <2>1. n \in Int /\ n <= Len(m)
    BY PolicyType, LenProperties DEF PolicyValid
  <2>2. Compacted(p, m) = Summary(p, old)
    BY <1>2 DEF Compacted
  <2> HIDE DEF n
  <2>3. old \in Seq(Message) /\ Elements(old) \subseteq Elements(m)
    BY <2>1, Beginning
  <2> HIDE DEF old
  <2>4. /\ Summary(p, old) \in Seq(Text)
        /\ Len(Summary(p, old)) <= SummaryLimit
        /\ Elements(Summary(p, old)) \subseteq Elements(p) \cup Elements(old) \cup Heading
    BY <2>3, SummaryText
  <2> QED
    BY <2>2, <2>3, <2>4, HeadingIsNoMessage, Zenon
<1> QED
  BY <1>1, <1>2

-----------------------------------------------------------------------------
(* Types.                                                                  *)

(* The types that creating a conversation keeps. *)
LEMMA CreateType ==
  ASSUME TypeOK, NEW c \in Conversation, GetOrCreate(c)
  PROVE  /\ exists' \subseteq Conversation
         /\ lives' \in [Conversation -> 0..MaxLives]
         /\ UNCHANGED <<revision, messages, summary>>
<1>1. CASE c \in exists
  BY <1>1 DEF TypeOK, GetOrCreate, rows
<1>2. CASE c \notin exists
  <2>1. lives[c] \in 0..MaxLives /\ lives[c] < MaxLives
    BY <1>2 DEF TypeOK, GetOrCreate
  <2>2. lives[c] + 1 \in 0..MaxLives
    BY <2>1, BoundsAssumption
  <2>3. /\ exists' = exists \cup {c}
        /\ lives' = [lives EXCEPT ![c] = lives[c] + 1]
        /\ UNCHANGED <<revision, messages, summary>>
    BY <1>2 DEF GetOrCreate
  <2> QED
    BY <2>2, <2>3 DEF TypeOK
<1> QED
  BY <1>1, <1>2

(* Appending a message keeps the types. *)
LEMMA AppendType ==
  ASSUME TypeOK, NEW h \in Chat, NEW role \in {"user", "assistant"}, NEW expected,
         NEW next \in PC, AppendMessage(h, role, expected, next),
         UNCHANGED <<policy, faults>>
  PROVE  TypeOK'
<1> SummaryLimit' = SummaryLimit
  BY DEF SummaryLimit
<1> DEFINE c == target[h]
<1>1. /\ c \in Conversation /\ messages[c] \in Seq(Message) /\ <<role, h>> \in Message
      /\ revision[c] \in Nat /\ lives[c] \in 0..MaxLives
  BY DEF TypeOK, Message
<1>2. CASE RevisionOk(c, expected)
  <2>1. Append(messages[c], <<role, h>>) \in Seq(Message)
    BY <1>1, Appended
  <2>2. /\ messages' = [messages EXCEPT ![c] = Append(messages[c], <<role, h>>)]
        /\ revision' = [revision EXCEPT ![c] = revision[c] + 1]
        /\ current' = [current EXCEPT ![h] = revision[c] + 1]
        /\ life' = [life EXCEPT ![h] = lives[c]]
        /\ recording' = h
        /\ pc' = [pc EXCEPT ![h] = next]
        /\ UNCHANGED <<exists, summary, lives, target, seen, text>>
    BY <1>2 DEF AppendMessage, Goto
  <2> HIDE DEF c
  <2>3. messages' \in [Conversation -> Seq(Message)]
    BY <2>1, <2>2 DEF TypeOK
  <2>4. revision[c] + 1 \in Nat
    BY <1>1
  <2>5. revision' \in [Conversation -> Nat] /\ current' \in [Chat -> Nat]
    BY <2>2, <2>4 DEF TypeOK
  <2> QED
    BY <1>1, <2>2, <2>3, <2>5 DEF TypeOK
<1>3. CASE ~RevisionOk(c, expected)
  BY <1>3 DEF AppendMessage, Fail, Goto, TypeOK, PC, rows, locals
<1> QED
  BY <1>2, <1>3

(* The new summary is typed. *)
LEMMA NewSummary ==
  ASSUME TypeOK, PolicyValid, NEW c \in Conversation
  PROVE  /\ Compacted(summary[c], messages[c]) \in Seq(Text)
         /\ Len(Compacted(summary[c], messages[c])) <= SummaryLimit
         /\ \A role, h : <<role, h>> \in Elements(Compacted(summary[c], messages[c])) =>
               <<role, h>> \in Elements(summary[c]) \cup Elements(messages[c])
<1>1. /\ summary[c] \in Seq(Text) /\ Len(summary[c]) <= SummaryLimit /\ policy \in Policies
      /\ messages[c] \in Seq(Message)
  BY DEF TypeOK, Text
<1> QED
  BY <1>1, CompactedText

(* The empty summary is within every limit. *)
LEMMA EmptyFits == ASSUME policy \in Policies PROVE Len(<<>>) <= SummaryLimit
<1>1. Len(<<>>) = 0
  BY EmptySeq
<1> QED
  BY <1>1, PolicyType, PolicyAssumption DEF SummaryLimit

(* A gateway keeps its policy. *)
LEMMA PolicyKept ==
  ASSUME [Next]_vars
  PROVE  policy' = policy /\ SummaryLimit' = SummaryLimit
<1>1. policy' = policy
  BY DEF Next, vars, Receive, Refuse, CompletionFails, ConversationGone, AppendUser,
         AppendAnswer, SkipAnswer, Summarize, PolicyRefused, StatementFails, Delete, Crash
<1> QED
  BY <1>1 DEF SummaryLimit

(* Every step keeps the types. *)
LEMMA TypeStep == TypeOK /\ [Next]_vars => TypeOK'
<1> SUFFICES ASSUME TypeOK, [Next]_vars PROVE TypeOK'
  OBVIOUS
<1> policy' = policy /\ SummaryLimit' = SummaryLimit
  BY PolicyKept
<1> USE BoundsAssumption
<1>1. ASSUME NEW h \in Chat, Receive(h) PROVE TypeOK'
  <2>1. target[h] \in Conversation
    BY DEF TypeOK
  <2>2. /\ exists' \subseteq Conversation
        /\ lives' \in [Conversation -> 0..MaxLives]
        /\ UNCHANGED <<revision, messages, summary>>
    BY <1>1, <2>1, CreateType DEF Receive
  <2> QED
    BY <1>1, <2>1, <2>2 DEF Receive, Goto, TypeOK, PC
<1>2. ASSUME NEW h \in Chat, Refuse(h) PROVE TypeOK'
  <2>1. /\ exists' \subseteq Conversation
        /\ lives' \in [Conversation -> 0..MaxLives]
        /\ UNCHANGED <<revision, messages, summary>>
    BY <1>2, CreateType DEF Refuse, TypeOK
  <2> QED
    BY <1>2, <2>1 DEF Refuse, Goto, TypeOK, PC, locals
<1>3. ASSUME NEW h \in Chat, CompletionFails(h) PROVE TypeOK'
  BY <1>3 DEF CompletionFails, Goto, TypeOK, PC, locals, rows
<1>4. ASSUME NEW h \in Chat, ConversationGone(h) PROVE TypeOK'
  BY <1>4 DEF ConversationGone, Goto, TypeOK, PC, locals, rows
<1>5. ASSUME NEW h \in Chat, AppendUser(h) PROVE TypeOK'
  <2>1. "answer" \in PC
    BY DEF PC
  <2> QED
    BY <1>5, <2>1, AppendType DEF AppendUser
<1>6. ASSUME NEW h \in Chat, AppendAnswer(h) PROVE TypeOK'
  <2>1. "summary" \in PC
    BY DEF PC
  <2> QED
    BY <1>6, <2>1, AppendType DEF AppendAnswer
<1>7. ASSUME NEW h \in Chat, SkipAnswer(h) PROVE TypeOK'
  BY <1>7 DEF SkipAnswer, Goto, TypeOK, PC, locals, rows
<1>8. ASSUME NEW h \in Chat, Summarize(h) PROVE TypeOK'
  <2> DEFINE c == target[h]
             new == Compacted(summary[c], messages[c])
  <2>1. c \in Conversation /\ revision[c] \in Nat
    BY DEF TypeOK
  <2>2. new \in Seq(Message \cup Heading) /\ Len(new) <= SummaryLimit
    BY <1>8, <2>1, NewSummary DEF Text, Summarize
  <2>3. CASE new = summary[c] \/ RevisionOk(c, current[h])
    <3>1. /\ summary' = [summary EXCEPT ![c] = new]
          /\ revision' = [revision EXCEPT ![c] =
                             IF new = summary[c] THEN revision[c] ELSE revision[c] + 1]
          /\ pc' = [pc EXCEPT ![h] = "ok"]
          /\ recording' = Nobody
          /\ UNCHANGED <<exists, messages, lives, locals, faults>>
      BY <1>8, <2>3 DEF Summarize, Goto
    <3> HIDE DEF new
    <3>2. /\ summary' \in [Conversation -> Seq(Message \cup Heading)]
          /\ \A d \in Conversation : Len(summary'[d]) <= SummaryLimit
      <4>1. /\ summary \in [Conversation -> Seq(Message \cup Heading)]
            /\ \A d \in Conversation : Len(summary[d]) <= SummaryLimit
        BY DEF TypeOK
      <4>2. summary' = [summary EXCEPT ![c] = new]
        BY <3>1
      <4> HIDE DEF c
      <4> QED
        BY <2>2, <4>1, <4>2
    <3>3. revision' \in [Conversation -> Nat]
      <4>1. revision \in [Conversation -> Nat]
        BY DEF TypeOK
      <4>2. (IF new = summary[c] THEN revision[c] ELSE revision[c] + 1) \in Nat
        BY <2>1
      <4> HIDE DEF c
      <4> QED
        BY <3>1, <4>1, <4>2
    <3> QED
      BY <3>1, <3>2, <3>3 DEF TypeOK, PC, locals
  <2>4. CASE ~(new = summary[c] \/ RevisionOk(c, current[h]))
    <3>1. Fail(h) /\ UNCHANGED faults
      BY <1>8, <2>4 DEF Summarize
    <3> QED
      BY <3>1 DEF Fail, Goto, TypeOK, PC, rows, locals
  <2> QED
    BY <2>3, <2>4
<1>13. ASSUME NEW h \in Chat, PolicyRefused(h) PROVE TypeOK'
  BY <1>13 DEF PolicyRefused, Fail, Goto, TypeOK, PC, locals, rows
<1>9. ASSUME NEW h \in Chat, StatementFails(h) PROVE TypeOK'
  <2>1. faults < MaxFaults /\ faults' = faults + 1 /\ Fail(h)
    BY <1>9 DEF StatementFails
  <2>2. faults' \in 0..MaxFaults
    BY <2>1 DEF TypeOK
  <2> QED
    BY <2>1, <2>2 DEF Fail, Goto, TypeOK, PC, locals, rows
<1>10. ASSUME NEW c \in Conversation, Delete(c) PROVE TypeOK'
  <2>1. <<>> \in Seq(Message) /\ <<>> \in Seq(Message \cup Heading) /\ Len(<<>>) <= SummaryLimit
    BY EmptySeq, EmptyFits DEF TypeOK
  <2> QED
    BY <1>10, <2>1 DEF Delete, TypeOK, locals
<1>11. CASE Crash
  BY <1>11 DEF Crash, TypeOK, PC, locals, rows
<1>12. CASE UNCHANGED vars
  BY <1>12 DEF TypeOK, vars, rows, locals
<1> QED
  BY <1>1, <1>2, <1>3, <1>4, <1>5, <1>6, <1>7, <1>8, <1>9, <1>10, <1>11, <1>12, <1>13
  DEF Next

(* The initial states are typed. *)
LEMMA TypeInit == Init => TypeOK
<1> SUFFICES ASSUME Init PROVE TypeOK
  OBVIOUS
<1>1. <<>> \in Seq(Message) /\ <<>> \in Seq(Message \cup Heading) /\ Len(<<>>) <= SummaryLimit
  BY EmptySeq, EmptyFits DEF Init
<1> QED
  BY <1>1, BoundsAssumption DEF Init, TypeOK, PC

(* Every reachable state is typed; in particular no summary is longer than *)
(* max_summary_chars and the mark of truncation both.                      *)
THEOREM TypeCorrect == Spec => []TypeOK
  BY TypeInit, TypeStep, PTL DEF Spec

-----------------------------------------------------------------------------
(* The inductive invariant.  One lemma for each way a step touches the     *)
(* rows: not at all, by a creation, a message, a summary or a deletion.    *)

(* Nothing is in the empty sequence. *)
LEMMA NothingInEmpty == Elements(<<>>) = {}
  BY DEF Elements

(* Initially nothing is stored. *)
LEMMA InvInit == Init => IInv
<1> SUFFICES ASSUME Init PROVE IInv
  OBVIOUS
<1>1. TypeOK
  BY TypeInit
<1>2. \A c \in Conversation, h \in Chat, role \in {"user", "assistant"} :
         ~Says(h, role, c) /\ ~Cites(h, role, c)
  BY NothingInEmpty DEF Init, Says, Cites
<1>3. OneRecords /\ RecorderIsCurrent /\ TurnUnderWay /\ LivesPass /\ ContextStays
  BY BoundsAssumption
  DEF Init, TypeOK, OneRecords, RecorderIsCurrent, TurnUnderWay, LivesPass, ContextStays
<1>4. Owned /\ RecordedIffAnswered
  BY <1>2 DEF Init, Owned, RecordedIffAnswered, TurnKept, RecordsNothing
<1>5. AnswersFollowQuestions
  BY EmptySeq DEF Init, AnswersFollowQuestions
<1> QED
  BY <1>1, <1>3, <1>4, <1>5 DEF IInv

(* A request that does not move keeps its turn as it was, when nothing of  *)
(* it is taken away but with its conversation, and nothing is added.       *)
LEMMA KeptFrame ==
  ASSUME NEW g \in Chat, TurnKept(g), pc'[g] = pc[g], faults' = 0 => faults = 0,
         UNCHANGED <<policy, text[g], target[g]>>,
         Lasts(g)' => Lasts(g),
         \A d \in Conversation, r \in {"user", "assistant"} :
            Says(g, r, d)' => Says(g, r, d),
         Lasts(g)' => \A r \in {"user", "assistant"} :
            Says(g, r, target[g]) => Says(g, r, target[g])'
  PROVE  TurnKept(g)'
<1>1. PolicyValid' <=> PolicyValid
  BY DEF PolicyValid
<1>2. RecordsNothing(g) => RecordsNothing(g)'
  BY DEF RecordsNothing
<1>3. Lasts(g)' /\ Recorded(g) => Recorded(g)'
  BY DEF Recorded
<1> QED
  BY <1>1, <1>2, <1>3 DEF TurnKept

(* A request leaves "awaiting" or the recording with an error: only the    *)
(* faults it had, or an invalid policy, excuse what it leaves behind.      *)
LEMMA EndStep ==
  ASSUME IInv, TypeOK', UNCHANGED <<policy, rows, locals>>,
         recording' = Nobody,
         \A h \in Chat :
            \/ pc'[h] = pc[h] /\ pc[h] \notin {"answer", "summary"}
            \/ pc'[h] \in {"failed", "lost"} /\ pc[h] \in {"awaiting", "answer", "summary"},
         faults' = faults \/ faults' > 0,
         faults' = faults => \A h \in Chat : pc'[h] = "failed" =>
            pc[h] \in {"awaiting", "failed"} \/ (pc[h] = "summary" /\ ~PolicyValid)
  PROVE  IInv'
<1> USE DEF rows, locals
<1>1. OneRecords' /\ RecorderIsCurrent'
  BY BoundsAssumption DEF IInv, OneRecords, RecorderIsCurrent
<1>2. TurnUnderWay'
  BY DEF IInv, TurnUnderWay
<1>3. Owned'
  <2> SUFFICES ASSUME NEW c \in Conversation, NEW h \in Chat,
                      NEW role \in {"user", "assistant"},
                      Says(h, role, c)' \/ Cites(h, role, c)'
               PROVE  /\ c \in exists' /\ target'[h] = c /\ life'[h] = lives'[c]
                      /\ pc'[h] \notin {"none", "awaiting"}
    BY DEF Owned
  <2>1. Says(h, role, c) \/ Cites(h, role, c)
    BY DEF Says, Cites
  <2>2. /\ c \in exists /\ target[h] = c /\ life[h] = lives[c]
        /\ pc[h] \notin {"none", "awaiting"}
    BY <2>1 DEF IInv, Owned
  <2> QED
    BY <2>2
<1>4. LivesPass' /\ AnswersFollowQuestions'
  BY DEF IInv, LivesPass, AnswersFollowQuestions
<1>5. ContextStays'
  BY DEF IInv, ContextStays, IsBeginning
<1>6. RecordedIffAnswered'
  <2> SUFFICES ASSUME NEW h \in Chat PROVE TurnKept(h)'
    BY DEF RecordedIffAnswered
  <2>0. /\ \A d \in Conversation, r \in {"user", "assistant"} :
               Says(h, r, d)' <=> Says(h, r, d)
        /\ Lasts(h)' <=> Lasts(h)
        /\ Recorded(h)' <=> Recorded(h)
        /\ RecordsNothing(h)' <=> RecordsNothing(h)
        /\ PolicyValid' <=> PolicyValid
    BY DEF Says, Lasts, Recorded, RecordsNothing, PolicyValid
  <2>1. TurnKept(h) /\ target[h] \in Conversation /\ faults \in Nat
    BY DEF IInv, RecordedIffAnswered, TypeOK
  <2>2. CASE pc'[h] = pc[h] /\ (faults' = 0 => faults = 0)
    BY <2>0, <2>1, <2>2, KeptFrame
  <2>3. CASE pc'[h] # "failed" /\ pc'[h] # pc[h]
    BY <2>3 DEF TurnKept
  <2>4. CASE faults' > 0 /\ pc'[h] = "failed"
    BY <2>1, <2>4 DEF TurnKept
  <2>5. CASE faults' = faults /\ pc'[h] = "failed" /\ pc'[h] # pc[h]
    <3>1. CASE pc[h] = "awaiting"
      BY <2>0, <2>1, <2>5, <3>1 DEF TurnKept
    <3>2. CASE pc[h] = "summary" /\ ~PolicyValid
      <4>1. Recorded(h)
        BY <3>2 DEF IInv, TurnUnderWay, Recorded
      <4> QED
        BY <2>0, <2>5, <3>2, <4>1 DEF TurnKept
    <3> QED
      BY <2>5, <3>1, <3>2
  <2> QED
    BY <2>2, <2>3, <2>4, <2>5
<1> QED
  BY <1>1, <1>2, <1>3, <1>4, <1>5, <1>6 DEF IInv

(* A request is received: its conversation may be a new one, which nothing *)
(* that was recorded, read or is being awaited can belong to.              *)
LEMMA CreateStep ==
  ASSUME IInv, TypeOK', NEW h \in Chat, NEW next \in {"awaiting", "failed"},
         LoopFree, pc[h] = "none", GetOrCreate(target[h]), Goto(h, next),
         UNCHANGED <<policy, target, text, recording, faults>>,
         \A g \in Chat : g # h => life'[g] = life[g] /\ seen'[g] = seen[g],
         \/ life'[h] = lives'[target[h]] /\ seen'[h] = messages[target[h]]
         \/ next = "failed" /\ life'[h] = life[h]
  PROVE  IInv'
<1> DEFINE c == target[h]
<1>1. /\ c \in Conversation
      /\ UNCHANGED <<revision, messages, summary>>
      /\ \A d \in Conversation : d # c => (d \in exists' <=> d \in exists) /\ lives'[d] = lives[d]
      /\ \/ c \in exists /\ c \in exists' /\ lives'[c] = lives[c]
         \/ c \notin exists /\ lives'[c] = lives[c] + 1
  <2>1. c \in Conversation /\ GetOrCreate(c) /\ lives \in [Conversation -> Int]
    BY DEF IInv, TypeOK
  <2> HIDE DEF c
  <2>2. CASE c \in exists
    BY <2>1, <2>2 DEF GetOrCreate, rows
  <2>3. CASE c \notin exists
    BY <2>1, <2>3 DEF GetOrCreate
  <2> QED
    BY <2>2, <2>3
<1>2. /\ pc'[h] = next
      /\ \A g \in Chat : g # h => pc'[g] = pc[g]
      /\ \A g \in Chat : pc[g] \notin {"answer", "summary"}
  BY BoundsAssumption DEF IInv, TypeOK, Goto, OneRecords, LoopFree
<1>3. \A g \in Chat : target[g] \in Conversation /\ life[g] \in Int /\ life[g] <= lives[target[g]]
  BY DEF IInv, TypeOK, LivesPass
<1>4. lives \in [Conversation -> Int]
  BY DEF IInv, TypeOK
<1> HIDE DEF c
<1>5. \A d \in Conversation : d \in exists => lives'[d] = lives[d] /\ d \in exists'
  BY <1>1
<1>6. \A g \in Chat : target[g] \in exists' /\ life[g] = lives'[target[g]] =>
         target[g] \in exists /\ life[g] = lives[target[g]]
  BY <1>1, <1>3, <1>4
<1>7. OneRecords' /\ RecorderIsCurrent' /\ TurnUnderWay'
  BY <1>2, BoundsAssumption
  DEF IInv, LoopFree, OneRecords, RecorderIsCurrent, TurnUnderWay
<1>8. Owned'
  <2> SUFFICES ASSUME NEW d \in Conversation, NEW g \in Chat,
                      NEW role \in {"user", "assistant"},
                      Says(g, role, d)' \/ Cites(g, role, d)'
               PROVE  /\ d \in exists' /\ target[g] = d /\ life'[g] = lives'[d]
                      /\ pc'[g] \notin {"none", "awaiting"}
    BY DEF Owned
  <2>0. Says(g, role, d) \/ Cites(g, role, d)
    BY <1>1 DEF Says, Cites
  <2>1. /\ d \in exists /\ target[g] = d /\ life[g] = lives[d]
        /\ pc[g] \notin {"none", "awaiting"}
    BY <2>0 DEF IInv, Owned
  <2>2. g # h
    BY <2>1
  <2> QED
    BY <1>2, <1>5, <2>1, <2>2
<1>9. LivesPass'
  <2>1. ASSUME NEW g \in Chat PROVE life'[g] <= lives'[target[g]]
    <3>1. lives[target[g]] <= lives'[target[g]] /\ lives'[target[g]] \in Int
      BY <1>1, <1>3, <1>4
    <3>2. CASE life'[g] = life[g]
      BY <1>3, <1>4, <3>1, <3>2
    <3>3. CASE life'[g] = lives'[target[g]]
      BY <3>1, <3>3
    <3> QED
      BY <3>2, <3>3
  <2> QED
    BY <2>1 DEF LivesPass
<1>10. AnswersFollowQuestions'
  BY <1>1 DEF IInv, AnswersFollowQuestions
<1>11. RecordedIffAnswered'
  <2> SUFFICES ASSUME NEW g \in Chat PROVE TurnKept(g)'
    BY DEF RecordedIffAnswered
  <2>0. /\ TurnKept(g)
        /\ \A d \in Conversation, r \in {"user", "assistant"} :
               Says(g, r, d)' <=> Says(g, r, d)
    BY <1>1 DEF IInv, RecordedIffAnswered, Says
  <2>1. CASE g = h
    BY <1>2, <2>0, <2>1 DEF TurnKept, RecordsNothing
  <2>2. CASE g # h
    <3>1. Lasts(g)' => Lasts(g)
      BY <1>6, <2>2 DEF Lasts
    <3>2. target[g] \in Conversation
      BY <1>3
    <3> QED
      BY <1>2, <2>0, <2>2, <3>1, <3>2, KeptFrame
  <2> QED
    BY <2>1, <2>2
<1>12. ContextStays'
  <2> SUFFICES ASSUME NEW g \in Chat, pc'[g] = "awaiting", target[g] \in exists',
                      life'[g] = lives'[target[g]]
               PROVE  IsBeginning(seen'[g], messages[target[g]])
    BY <1>1 DEF ContextStays
  <2>1. CASE g = h
    <3>1. seen'[g] = messages[target[g]]
      BY <1>2, <2>1
    <3>2. messages[target[g]] \in Seq(Message)
      BY <1>3 DEF IInv, TypeOK
    <3> QED
      BY <3>1, <3>2 DEF IsBeginning
  <2>2. CASE g # h
    BY <1>2, <1>6, <2>2 DEF IInv, ContextStays
  <2> QED
    BY <2>1, <2>2
<1> QED
  BY <1>7, <1>8, <1>9, <1>10, <1>11, <1>12 DEF IInv

(* An element at a position is an element. *)
LEMMA ElementAt ==
  ASSUME NEW S, NEW s \in Seq(S), NEW i \in 1..Len(s)
  PROVE  s[i] \in Elements(s)
  BY DEF Elements

(* The completion had no text: the turn is the user's message alone. *)
LEMMA SkipStep ==
  ASSUME IInv, TypeOK', NEW h \in Chat, SkipAnswer(h)
  PROVE  IInv'
<1>1. /\ pc[h] = "answer" /\ ~text[h] /\ pc' = [pc EXCEPT ![h] = "summary"]
      /\ UNCHANGED <<rows, locals, recording, policy, faults>>
  BY DEF SkipAnswer, Goto
<1>2. Says(h, "user", target[h])
  <2> DEFINE m == messages[target[h]]
  <2>1. m \in Seq(Message) /\ Len(m) > 0 /\ m[Len(m)] = <<"user", h>>
    BY <1>1 DEF IInv, TypeOK, TurnUnderWay
  <2> HIDE DEF m
  <2>2. Len(m) \in 1..Len(m)
    BY <2>1, LenProperties
  <2>3. <<"user", h>> \in Elements(m)
    BY <2>1, <2>2, ElementAt
  <2> QED
    BY <2>3 DEF Says, m
<1>3. /\ pc'[h] = "summary" /\ \A g \in Chat : g # h => pc'[g] = pc[g]
      /\ recording = h
  BY <1>1 DEF IInv, TypeOK, OneRecords
<1> USE DEF rows, locals
<1>4. OneRecords' /\ RecorderIsCurrent' /\ LivesPass' /\ AnswersFollowQuestions'
  BY <1>1, <1>3 DEF IInv, OneRecords, RecorderIsCurrent, LivesPass, AnswersFollowQuestions
<1>5. TurnUnderWay'
  BY <1>1, <1>2, <1>3 DEF IInv, TurnUnderWay, Says
<1>6. Owned'
  <2> SUFFICES ASSUME NEW d \in Conversation, NEW g \in Chat,
                      NEW role \in {"user", "assistant"},
                      Says(g, role, d)' \/ Cites(g, role, d)'
               PROVE  /\ d \in exists' /\ target'[g] = d /\ life'[g] = lives'[d]
                      /\ pc'[g] \notin {"none", "awaiting"}
    BY DEF Owned
  <2>1. Says(g, role, d) \/ Cites(g, role, d)
    BY <1>1 DEF Says, Cites
  <2>2. /\ d \in exists /\ target[g] = d /\ life[g] = lives[d]
        /\ pc[g] \notin {"none", "awaiting"}
    BY <2>1 DEF IInv, Owned
  <2> QED
    BY <1>1, <1>3, <2>2
<1>7. RecordedIffAnswered'
  <2> SUFFICES ASSUME NEW g \in Chat PROVE TurnKept(g)'
    BY DEF RecordedIffAnswered
  <2>1. CASE g = h
    BY <1>3, <2>1 DEF TurnKept
  <2>2. CASE g # h
    <3>1. /\ TurnKept(g) /\ pc'[g] = pc[g] /\ target[g] \in Conversation
          /\ Lasts(g)' <=> Lasts(g)
          /\ \A d \in Conversation, r \in {"user", "assistant"} :
               Says(g, r, d)' <=> Says(g, r, d)
      BY <1>1, <1>3, <2>2 DEF IInv, RecordedIffAnswered, Says, Lasts, TypeOK
    <3> QED
      BY <1>1, <3>1, KeptFrame
  <2> QED
    BY <2>1, <2>2
<1>8. ContextStays'
  BY <1>1, <1>3 DEF IInv, ContextStays
<1> QED
  BY <1>4, <1>5, <1>6, <1>7, <1>8 DEF IInv

(* A message is appended by the request that records, the question first   *)
(* and the answer right after it.                                          *)
LEMMA AppendStep ==
  ASSUME IInv, TypeOK', NEW h \in Chat, NEW role, NEW expected, NEW next,
         AppendMessage(h, role, expected, next),
         RevisionOk(target[h], expected), target[h] \in exists,
         UNCHANGED <<policy, faults>>,
         \/ role = "user" /\ next = "answer" /\ pc[h] = "awaiting" /\ recording = Nobody
         \/ role = "assistant" /\ next = "summary" /\ pc[h] = "answer"
  PROVE  IInv'
<1> DEFINE c == target[h]
           m == messages[c]
           e == <<role, h>>
<1>1. /\ messages' = [messages EXCEPT ![c] = Append(m, e)]
      /\ revision' = [revision EXCEPT ![c] = revision[c] + 1]
      /\ current' = [current EXCEPT ![h] = revision[c] + 1]
      /\ life' = [life EXCEPT ![h] = lives[c]]
      /\ recording' = h
      /\ pc' = [pc EXCEPT ![h] = next]
      /\ UNCHANGED <<exists, summary, lives, target, seen, text>>
  BY DEF AppendMessage, Goto
<1>2. c \in Conversation /\ m \in Seq(Message) /\ e \in Message
  BY DEF IInv, TypeOK, Message
<1>3. /\ Len(m) \in Nat
      /\ Len(Append(m, e)) = Len(m) + 1
      /\ \A i \in 1..Len(m) : Append(m, e)[i] = m[i]
      /\ Append(m, e)[Len(m) + 1] = e
      /\ Elements(Append(m, e)) = Elements(m) \cup {e}
  BY <1>2, Appended, LenProperties
<1>4. /\ messages'[c] = Append(m, e)
      /\ \A d \in Conversation : d # c => messages'[d] = messages[d]
  BY <1>1, <1>2 DEF IInv, TypeOK
<1>5. /\ pc'[h] = next /\ life'[h] = lives[c]
      /\ \A g \in Chat : g # h => pc'[g] = pc[g] /\ life'[g] = life[g]
      /\ current'[h] = revision'[c]
  BY <1>1, <1>2 DEF IInv, TypeOK
<1>6. \A g \in Chat : g # h => pc[g] \notin {"answer", "summary"}
  BY BoundsAssumption DEF IInv, OneRecords
<1>7. \A g \in Chat, r \in {"user", "assistant"}, d \in Conversation :
         <<r, g>> \in Elements(messages'[d]) <=>
            Says(g, r, d) \/ (d = c /\ g = h /\ r = role)
  <2> SUFFICES ASSUME NEW g \in Chat, NEW r \in {"user", "assistant"}, NEW d \in Conversation
               PROVE  <<r, g>> \in Elements(messages'[d]) <=>
                         Says(g, r, d) \/ (d = c /\ g = h /\ r = role)
    OBVIOUS
  <2>1. CASE d = c
    <3>1. Elements(messages'[d]) = Elements(messages[d]) \cup {<<role, h>>}
      BY <1>3, <1>4, <2>1
    <3> QED
      BY <2>1, <3>1 DEF Says
  <2>2. CASE d # c
    BY <1>4, <2>2 DEF Says
  <2> QED
    BY <2>1, <2>2
<1>8. pc[h] = "answer" => Len(m) > 0 /\ m[Len(m)] = <<"user", h>>
  BY DEF IInv, TurnUnderWay
<1>9. pc[h] = "answer" => Says(h, "user", c)
  <2> HIDE DEF m
  <2>1. ASSUME pc[h] = "answer" PROVE <<"user", h>> \in Elements(m)
    <3>1. Len(m) \in 1..Len(m)
      BY <1>3, <1>8, <2>1
    <3> QED
      BY <1>2, <1>8, <2>1, <3>1, ElementAt
  <2> QED
    BY <2>1 DEF Says, m
<1> HIDE DEF c, m, e
<1>10. OneRecords'
  BY <1>1, <1>5, <1>6 DEF OneRecords
<1>11. RecorderIsCurrent'
  BY <1>1, <1>5 DEF RecorderIsCurrent, c
<1>12. TurnUnderWay'
  <2> SUFFICES ASSUME NEW g \in Chat
               PROVE
                 /\ pc'[g] = "answer" =>
                       /\ Len(messages'[target[g]]) > 0
                       /\ messages'[target[g]][Len(messages'[target[g]])] = <<"user", g>>
                 /\ pc'[g] = "summary" =>
                       /\ <<"user", g>> \in Elements(messages'[target[g]])
                       /\ text[g] => <<"assistant", g>> \in Elements(messages'[target[g]])
    BY <1>1 DEF TurnUnderWay, Says
  <2>1. CASE g # h
    BY <1>5, <1>6, <2>1
  <2>2. CASE g = h /\ next = "answer"
    <3>1. messages'[target[g]] = Append(m, e) /\ e = <<"user", g>>
      BY <1>4, <2>2 DEF c, e
    <3>2. Len(Append(m, e)) > 0 /\ Append(m, e)[Len(Append(m, e))] = e
      BY <1>3
    <3> QED
      BY <1>5, <2>2, <3>1, <3>2
  <2>3. CASE g = h /\ next = "summary"
    <3>1. /\ <<"user", g>> \in Elements(messages'[c])
          /\ <<"assistant", g>> \in Elements(messages'[c])
      BY <1>2, <1>7, <1>9, <2>3
    <3> QED
      BY <1>5, <2>3, <3>1 DEF c
  <2> QED
    BY <2>1, <2>2, <2>3
<1>13. Owned'
  <2> SUFFICES ASSUME NEW d \in Conversation, NEW g \in Chat, NEW r \in {"user", "assistant"},
                      Says(g, r, d)' \/ Cites(g, r, d)'
               PROVE  /\ d \in exists' /\ target'[g] = d /\ life'[g] = lives'[d]
                      /\ pc'[g] \notin {"none", "awaiting"}
    BY DEF Owned
  <2>1. <<r, g>> \in Elements(messages'[d]) \/ Cites(g, r, d)
    BY <1>1 DEF Says, Cites
  <2>2. /\ d \in exists /\ target[g] = d /\ life'[g] = lives[d]
        /\ pc'[g] \notin {"none", "awaiting"}
    <3>1. CASE d = c /\ g = h
      BY <1>5, <3>1 DEF c
    <3>2. CASE ~(d = c /\ g = h)
      <4>1. Says(g, r, d) \/ Cites(g, r, d)
        BY <1>7, <2>1, <3>2
      <4>2. /\ d \in exists /\ target[g] = d /\ life[g] = lives[d]
            /\ pc[g] \notin {"none", "awaiting"}
        BY <4>1 DEF IInv, Owned
      <4> QED
        BY <1>5, <3>2, <4>2 DEF c
    <3> QED
      BY <3>1, <3>2
  <2> QED
    BY <1>1, <2>2
<1>14. LivesPass'
  <2>1. lives[c] \in Int
    BY <1>2 DEF IInv, TypeOK
  <2> QED
    BY <1>1, <1>5, <2>1 DEF IInv, LivesPass, c
<1>15. AnswersFollowQuestions'
  <2> SUFFICES ASSUME NEW d \in Conversation, NEW i \in 1..Len(messages'[d]),
                      messages'[d][i][1] = "assistant"
               PROVE  i > 1 /\ messages'[d][i - 1] = <<"user", messages'[d][i][2]>>
    BY DEF AnswersFollowQuestions
  <2>1. CASE d # c
    BY <1>4, <2>1 DEF IInv, AnswersFollowQuestions
  <2>2. CASE d = c /\ i <= Len(m)
    <3>1. i \in 1..Len(m) /\ messages'[d][i] = m[i]
      BY <1>3, <1>4, <2>2
    <3>2. i > 1 /\ m[i - 1] = <<"user", m[i][2]>>
      BY <1>2, <3>1 DEF IInv, AnswersFollowQuestions, m
    <3>3. i - 1 \in 1..Len(m)
      BY <1>3, <3>1, <3>2
    <3> QED
      BY <1>3, <1>4, <2>2, <3>1, <3>2, <3>3
  <2>3. CASE d = c /\ ~(i <= Len(m))
    <3>1. i = Len(m) + 1 /\ messages'[d][i] = e
      BY <1>3, <1>4, <2>3
    <3>2. role = "assistant" /\ e[2] = h
      BY <3>1 DEF e
    <3>3. Len(m) > 0 /\ m[Len(m)] = <<"user", h>>
      BY <1>8, <3>2
    <3>4. i - 1 \in 1..Len(m) /\ i - 1 = Len(m) /\ i > 1
      BY <1>3, <3>1, <3>3
    <3> QED
      BY <1>3, <1>4, <2>3, <3>1, <3>2, <3>3, <3>4
  <2> QED
    BY <2>1, <2>2, <2>3
<1>16. RecordedIffAnswered'
  <2> SUFFICES ASSUME NEW g \in Chat PROVE TurnKept(g)'
    BY DEF RecordedIffAnswered
  <2>1. CASE g = h
    BY <1>5, <2>1 DEF TurnKept
  <2>2. CASE g # h
    <3>1. /\ TurnKept(g) /\ pc'[g] = pc[g] /\ target[g] \in Conversation
          /\ Lasts(g)' <=> Lasts(g)
      BY <1>1, <1>5, <2>2 DEF IInv, RecordedIffAnswered, Lasts, TypeOK
    <3>2. \A d \in Conversation, r \in {"user", "assistant"} :
               Says(g, r, d)' <=> Says(g, r, d)
      BY <1>7, <2>2 DEF Says
    <3> QED
      BY <1>1, <3>1, <3>2, KeptFrame
  <2> QED
    BY <2>1, <2>2
<1>17. ContextStays'
  <2> SUFFICES ASSUME NEW g \in Chat, pc'[g] = "awaiting", target[g] \in exists,
                      life'[g] = lives[target[g]]
               PROVE  IsBeginning(seen[g], messages'[target[g]])
    BY <1>1 DEF ContextStays
  <2>1. g # h
    BY <1>5
  <2>2. /\ target[g] \in Conversation
        /\ IsBeginning(seen[g], messages[target[g]]) /\ seen[g] \in Seq(Message)
    BY <1>5, <2>1 DEF IInv, ContextStays, TypeOK
  <2>3. CASE target[g] # c
    BY <1>4, <2>2, <2>3
  <2>4. CASE target[g] = c
    <3>1. Len(seen[g]) <= Len(m) /\ \A i \in 1..Len(seen[g]) : seen[g][i] = m[i]
      BY <2>2, <2>4 DEF IsBeginning, m
    <3>2. Len(seen[g]) \in Nat
      BY <2>2, LenProperties
    <3>3. \A i \in 1..Len(seen[g]) : seen[g][i] = Append(m, e)[i]
      BY <1>3, <3>1, <3>2
    <3>4. Len(seen[g]) <= Len(Append(m, e))
      BY <1>3, <3>1, <3>2
    <3>5. messages'[target[g]] = Append(m, e)
      BY <1>4, <2>4
    <3> QED
      BY <3>3, <3>4, <3>5 DEF IsBeginning
  <2> QED
    BY <2>3, <2>4
<1> QED
  BY <1>10, <1>11, <1>12, <1>13, <1>14, <1>15, <1>16, <1>17 DEF IInv

(* A turn is over and its conversation compacted. *)
LEMMA SummarizeStep ==
  ASSUME IInv, TypeOK', NEW h \in Chat, Summarize(h)
  PROVE  IInv'
<1> DEFINE c == target[h]
           new == Compacted(summary[c], messages[c])
<1>1. /\ pc[h] = "summary" /\ recording = h /\ RevisionOk(c, current[h])
      /\ c \in Conversation
  BY DEF IInv, TypeOK, Summarize, OneRecords, RecorderIsCurrent, RevisionOk
<1>2. /\ summary' = [summary EXCEPT ![c] = new]
      /\ pc' = [pc EXCEPT ![h] = "ok"]
      /\ recording' = Nobody
      /\ UNCHANGED <<exists, messages, lives, locals, policy, faults>>
  BY <1>1 DEF Summarize, Goto
<1>3. \A role, g : <<role, g>> \in Elements(new) =>
         <<role, g>> \in Elements(summary[c]) \cup Elements(messages[c])
  BY <1>1, NewSummary DEF IInv, Summarize
<1> HIDE DEF new
<1>4. /\ summary'[c] = new
      /\ \A d \in Conversation : d # c => summary'[d] = summary[d]
      /\ pc'[h] = "ok"
      /\ \A g \in Chat : g # h => pc'[g] = pc[g] /\ pc[g] \notin {"answer", "summary"}
  BY <1>1, <1>2 DEF IInv, TypeOK, OneRecords
<1>5. Says(h, "user", c) /\ (text[h] => Says(h, "assistant", c))
  BY <1>1 DEF IInv, TurnUnderWay
<1> HIDE DEF c
<1>6. OneRecords' /\ RecorderIsCurrent' /\ TurnUnderWay'
  BY <1>2, <1>4, BoundsAssumption DEF OneRecords, RecorderIsCurrent, TurnUnderWay
<1>7. Owned'
  <2> SUFFICES ASSUME NEW d \in Conversation, NEW g \in Chat, NEW role \in {"user", "assistant"},
                      Says(g, role, d) \/ <<role, g>> \in Elements(summary'[d])
               PROVE  /\ d \in exists /\ target[g] = d /\ life[g] = lives[d]
                      /\ pc'[g] \notin {"none", "awaiting"}
    BY <1>2 DEF Owned, Says, Cites, locals
  <2>1. Says(g, role, d) \/ Cites(g, role, d)
    BY <1>3, <1>4 DEF Says, Cites
  <2>2. /\ d \in exists /\ target[g] = d /\ life[g] = lives[d]
        /\ pc[g] \notin {"none", "awaiting"}
    BY <2>1 DEF IInv, Owned
  <2> QED
    BY <1>4, <2>2
<1>8. LivesPass' /\ AnswersFollowQuestions'
  BY <1>2 DEF IInv, LivesPass, AnswersFollowQuestions, locals
<1>9. RecordedIffAnswered'
  <2> SUFFICES ASSUME NEW g \in Chat PROVE TurnKept(g)'
    BY DEF RecordedIffAnswered
  <2>0. /\ \A d \in Conversation, r \in {"user", "assistant"} :
               Says(g, r, d)' <=> Says(g, r, d)
        /\ Lasts(g)' <=> Lasts(g)
        /\ Recorded(g)' <=> Recorded(g)
    BY <1>2 DEF Says, Lasts, Recorded, locals
  <2>1. CASE g = h
    BY <1>4, <1>5, <2>0, <2>1 DEF TurnKept, Recorded, c
  <2>2. CASE g # h
    <3>1. TurnKept(g) /\ pc'[g] = pc[g] /\ target[g] \in Conversation
      BY <1>4, <2>2 DEF IInv, RecordedIffAnswered, TypeOK
    <3> QED
      BY <1>2, <2>0, <3>1, KeptFrame DEF locals
  <2> QED
    BY <2>1, <2>2
<1>10. ContextStays'
  BY <1>2, <1>4 DEF IInv, ContextStays, locals
<1> QED
  BY <1>6, <1>7, <1>8, <1>9, <1>10 DEF IInv

(* A conversation is deleted, and all that belongs to it. *)
LEMMA DeleteStep ==
  ASSUME IInv, TypeOK', NEW c \in Conversation, Delete(c)
  PROVE  IInv'
<1>1. /\ recording = Nobody /\ exists' = exists \ {c}
      /\ messages'[c] = <<>> /\ summary'[c] = <<>>
      /\ \A d \in Conversation : d # c => messages'[d] = messages[d] /\ summary'[d] = summary[d]
      /\ UNCHANGED <<lives, pc, locals, recording, policy, faults>>
  BY DEF IInv, TypeOK, Delete, LoopFree
<1>2. \A g \in Chat, role \in {"user", "assistant"}, d \in Conversation :
         /\ <<role, g>> \in Elements(messages'[d]) <=> d # c /\ Says(g, role, d)
         /\ <<role, g>> \in Elements(summary'[d]) <=> d # c /\ Cites(g, role, d)
  BY <1>1, NothingInEmpty DEF Says, Cites
<1>3. OneRecords' /\ RecorderIsCurrent' /\ TurnUnderWay'
  BY <1>1, BoundsAssumption DEF IInv, OneRecords, RecorderIsCurrent, TurnUnderWay
<1>4. Owned'
  <2> SUFFICES ASSUME NEW d \in Conversation, NEW g \in Chat, NEW role \in {"user", "assistant"},
                      Says(g, role, d)' \/ Cites(g, role, d)'
               PROVE  /\ d \in exists' /\ target'[g] = d /\ life'[g] = lives'[d]
                      /\ pc'[g] \notin {"none", "awaiting"}
    BY DEF Owned
  <2>1. \/ <<role, g>> \in Elements(messages'[d])
        \/ <<role, g>> \in Elements(summary'[d])
    BY DEF Says, Cites
  <2>2. d # c /\ (Says(g, role, d) \/ Cites(g, role, d))
    BY <1>2, <2>1
  <2>3. /\ d \in exists /\ target[g] = d /\ life[g] = lives[d]
        /\ pc[g] \notin {"none", "awaiting"}
    BY <2>2 DEF IInv, Owned
  <2> QED
    BY <1>1, <2>2, <2>3 DEF locals
<1>5. LivesPass'
  BY <1>1 DEF IInv, LivesPass, locals
<1>6. AnswersFollowQuestions'
  <2> SUFFICES ASSUME NEW d \in Conversation, NEW i \in 1..Len(messages'[d]),
                      messages'[d][i][1] = "assistant"
               PROVE  i > 1 /\ messages'[d][i - 1] = <<"user", messages'[d][i][2]>>
    BY DEF AnswersFollowQuestions
  <2>1. d # c
    BY <1>1, EmptySeq
  <2> QED
    BY <1>1, <2>1 DEF IInv, AnswersFollowQuestions
<1>7. RecordedIffAnswered'
  <2> SUFFICES ASSUME NEW g \in Chat PROVE TurnKept(g)'
    BY DEF RecordedIffAnswered
  <2>1. TurnKept(g) /\ target[g] \in Conversation
    BY DEF IInv, RecordedIffAnswered, TypeOK
  <2>2. Lasts(g)' => Lasts(g) /\ target[g] # c
    BY <1>1 DEF Lasts, locals
  <2>3. \A d \in Conversation, r \in {"user", "assistant"} :
           Says(g, r, d)' <=> d # c /\ Says(g, r, d)
    BY <1>2 DEF Says
  <2> QED
    BY <1>1, <2>1, <2>2, <2>3, KeptFrame DEF locals
<1>8. ContextStays'
  <2> SUFFICES ASSUME NEW g \in Chat, pc[g] = "awaiting", target[g] \in exists',
                      life[g] = lives[target[g]]
               PROVE  IsBeginning(seen[g], messages'[target[g]])
    BY <1>1 DEF ContextStays, locals
  <2>1. target[g] \in Conversation /\ target[g] # c /\ target[g] \in exists
    BY <1>1 DEF IInv, TypeOK
  <2> QED
    BY <1>1, <2>1 DEF IInv, ContextStays
<1> QED
  BY <1>3, <1>4, <1>5, <1>6, <1>7, <1>8 DEF IInv

(* Every step keeps the invariant. *)
LEMMA InvStep == IInv /\ [Next]_vars => IInv'
<1> SUFFICES ASSUME IInv, [Next]_vars PROVE IInv'
  OBVIOUS
<1> TypeOK'
  BY TypeStep DEF IInv
<1>1. ASSUME NEW h \in Chat, Receive(h) PROVE IInv'
  <2>1. /\ LoopFree /\ pc[h] = "none" /\ GetOrCreate(target[h]) /\ Goto(h, "awaiting")
        /\ UNCHANGED <<policy, target, text, recording, faults>>
    BY <1>1 DEF Receive
  <2>2. /\ life'[h] = lives'[target[h]] /\ seen'[h] = messages[target[h]]
        /\ \A g \in Chat : g # h => life'[g] = life[g] /\ seen'[g] = seen[g]
    BY <1>1 DEF Receive, IInv, TypeOK
  <2> QED
    BY <2>1, <2>2, CreateStep
<1>2. ASSUME NEW h \in Chat, Refuse(h) PROVE IInv'
  <2>1. /\ LoopFree /\ pc[h] = "none" /\ GetOrCreate(target[h]) /\ Goto(h, "failed")
        /\ UNCHANGED <<policy, target, text, recording, faults>>
        /\ life' = life /\ seen' = seen
    BY <1>2 DEF Refuse, locals
  <2> QED
    BY <2>1, CreateStep
<1>3. ASSUME NEW h \in Chat,
             LoopFree, pc[h] = "awaiting", Goto(h, "failed"),
             UNCHANGED <<rows, locals, recording, policy, faults>>
      PROVE  IInv'
  <2>1. /\ pc'[h] = "failed" /\ \A g \in Chat : g # h => pc'[g] = pc[g]
        /\ recording' = Nobody /\ \A g \in Chat : pc[g] \notin {"answer", "summary"}
    BY <1>3, BoundsAssumption DEF IInv, TypeOK, Goto, LoopFree, OneRecords
  <2> QED
    BY <1>3, <2>1, EndStep
<1>4. ASSUME NEW h \in Chat, CompletionFails(h) \/ ConversationGone(h) PROVE IInv'
  BY <1>3, <1>4 DEF CompletionFails, ConversationGone
<1>5. ASSUME NEW h \in Chat, AppendUser(h) PROVE IInv'
  BY <1>5, AppendStep DEF AppendUser, LoopFree, RevisionOk
<1>6. ASSUME NEW h \in Chat, AppendAnswer(h) PROVE IInv'
  <2>1. target[h] \in exists /\ RevisionOk(target[h], current[h]) /\ pc[h] = "answer"
    BY <1>6 DEF AppendAnswer, IInv, OneRecords, RecorderIsCurrent, RevisionOk
  <2> QED
    BY <1>6, <2>1, AppendStep DEF AppendAnswer
<1>7. ASSUME NEW h \in Chat, SkipAnswer(h) PROVE IInv'
  BY <1>7, SkipStep
<1>8. ASSUME NEW h \in Chat, Summarize(h) PROVE IInv'
  BY <1>8, SummarizeStep
<1>13. ASSUME NEW h \in Chat, PolicyRefused(h) PROVE IInv'
  <2>1. /\ pc[h] = "summary" /\ ~PolicyValid /\ faults' = faults
        /\ Goto(h, "failed") /\ recording' = Nobody
        /\ UNCHANGED <<policy, rows, locals>>
    BY <1>13 DEF PolicyRefused, Fail
  <2>2. /\ pc'[h] = "failed" /\ \A g \in Chat : g # h => pc'[g] = pc[g]
        /\ \A g \in Chat : g # h => pc[g] \notin {"answer", "summary"}
    BY <2>1, BoundsAssumption DEF IInv, TypeOK, Goto, OneRecords
  <2> QED
    BY <2>1, <2>2, EndStep
<1>9. ASSUME NEW h \in Chat, StatementFails(h) PROVE IInv'
  <2>1. /\ pc[h] \in {"awaiting", "answer", "summary"}
        /\ pc[h] = "awaiting" => LoopFree
        /\ faults' = faults + 1 /\ Goto(h, "failed") /\ recording' = Nobody
        /\ UNCHANGED <<policy, rows, locals>>
    BY <1>9 DEF StatementFails, Fail
  <2>2. /\ pc'[h] = "failed" /\ \A g \in Chat : g # h => pc'[g] = pc[g]
        /\ \A g \in Chat : g # h => pc[g] \notin {"answer", "summary"}
    BY <2>1, BoundsAssumption DEF IInv, TypeOK, Goto, LoopFree, OneRecords
  <2>3. faults' > 0 /\ faults' # faults
    BY <2>1 DEF IInv, TypeOK
  <2> QED
    BY <2>1, <2>2, <2>3, EndStep
<1>10. ASSUME NEW c \in Conversation, Delete(c) PROVE IInv'
  BY <1>10, DeleteStep
<1>11. CASE Crash
  <2>1. /\ faults' = faults + 1 /\ recording' = Nobody /\ UNCHANGED <<policy, rows, locals>>
        /\ \A g \in Chat : pc'[g] = IF pc[g] \in {"awaiting", "answer", "summary"}
                                     THEN "lost" ELSE pc[g]
    BY <1>11 DEF Crash
  <2>2. faults' > 0 /\ faults' # faults
    BY <2>1 DEF IInv, TypeOK
  <2> QED
    BY <2>1, <2>2, EndStep
<1>12. CASE UNCHANGED vars
  <2> USE <1>12 DEF vars, rows, locals
  <2>1. OneRecords' /\ RecorderIsCurrent' /\ LivesPass' /\ AnswersFollowQuestions'
    BY DEF IInv, OneRecords, RecorderIsCurrent, LivesPass, AnswersFollowQuestions
  <2>2. \A h \in Chat, role \in {"user", "assistant"}, c \in Conversation :
           /\ Says(h, role, c)' <=> Says(h, role, c)
           /\ Cites(h, role, c)' <=> Cites(h, role, c)
    BY DEF Says, Cites
  <2>3. TurnUnderWay'
    BY DEF IInv, TurnUnderWay, Says
  <2>4. Owned'
    BY <2>2 DEF IInv, Owned
  <2>5. RecordedIffAnswered'
    <3> SUFFICES ASSUME NEW h \in Chat PROVE TurnKept(h)'
      BY DEF RecordedIffAnswered
    <3>1. TurnKept(h) /\ target[h] \in Conversation /\ (Lasts(h)' <=> Lasts(h))
      BY DEF IInv, RecordedIffAnswered, TypeOK, Lasts
    <3> QED
      BY <2>2, <3>1, KeptFrame
  <2>6. ContextStays'
    BY DEF IInv, ContextStays
  <2> QED
    BY <2>1, <2>3, <2>4, <2>5, <2>6 DEF IInv
<1> QED
  BY <1>1, <1>2, <1>4, <1>5, <1>6, <1>7, <1>8, <1>9, <1>10, <1>11, <1>12, <1>13
  DEF Next

(* The invariant holds in every reachable state. *)
THEOREM MemoryInvariant == Spec => []IInv
  BY InvInit, InvStep, PTL DEF Spec

(* In every conversation an assistant's message directly follows the       *)
(* question of the same request.                                           *)
THEOREM TurnsAreWhole == Spec => []AnswersFollowQuestions
<1>1. IInv => AnswersFollowQuestions
  BY DEF IInv
<1> QED
  BY <1>1, MemoryInvariant, PTL

(* A request's turn is recorded exactly when the request is answered,      *)
(* unless the conversation is deleted or a fault comes between.            *)
THEOREM RecordedIffAnsweredHolds == Spec => []RecordedIffAnswered
<1>1. IInv => RecordedIffAnswered
  BY DEF IInv
<1> QED
  BY <1>1, MemoryInvariant, PTL

(* The context of a completion is still the beginning of its conversation  *)
(* when its turn is recorded.                                              *)
THEOREM ContextStaysHolds == Spec => []ContextStays
<1>1. IInv => ContextStays
  BY DEF IInv
<1> QED
  BY <1>1, MemoryInvariant, PTL

(* Nothing of a deleted conversation is in a later one of the same id.     *)
THEOREM DeletedForGoodHolds == Spec => []DeletedForGood
<1>1. IInv => DeletedForGood
  BY DEF IInv, TypeOK, Owned, DeletedForGood
<1> QED
  BY <1>1, MemoryInvariant, PTL

(* The content of a conversation changes with its revision only.           *)
LEMMA RevisionStep == TypeOK /\ [Next]_vars => KeepsRevisions
<1> SUFFICES ASSUME TypeOK, [Next]_vars, NEW c \in exists \cap exists'
             PROVE  \/ revision'[c] > revision[c]
                    \/ UNCHANGED <<revision[c], messages[c], summary[c]>>
  BY DEF KeepsRevisions
<1>1. c \in Conversation /\ revision[c] \in Nat
  BY DEF TypeOK
<1>2. CASE \E h \in Chat : Receive(h) \/ Refuse(h)
  BY <1>2 DEF Receive, Refuse, GetOrCreate, rows
<1>3. CASE \E h \in Chat : CompletionFails(h) \/ ConversationGone(h) \/ SkipAnswer(h)
  BY <1>3 DEF CompletionFails, ConversationGone, SkipAnswer, rows
<1>4. ASSUME NEW h \in Chat, NEW role, NEW expected, NEW next,
             AppendMessage(h, role, expected, next)
      PROVE  \/ revision'[c] > revision[c]
             \/ UNCHANGED <<revision[c], messages[c], summary[c]>>
  <2>1. CASE RevisionOk(target[h], expected)
    <3>1. /\ messages' = [messages EXCEPT ![target[h]] = Append(@, <<role, h>>)]
          /\ revision' = [revision EXCEPT ![target[h]] = @ + 1]
          /\ UNCHANGED summary
      BY <1>4, <2>1 DEF AppendMessage
    <3>2. CASE c = target[h]
      BY <1>1, <3>1, <3>2 DEF TypeOK
    <3>3. CASE c # target[h]
      BY <1>1, <3>1, <3>3 DEF TypeOK
    <3> QED
      BY <3>2, <3>3
  <2>2. CASE ~RevisionOk(target[h], expected)
    BY <1>4, <2>2 DEF AppendMessage, Fail, rows
  <2> QED
    BY <2>1, <2>2
<1>5. ASSUME NEW h \in Chat, Summarize(h)
      PROVE  \/ revision'[c] > revision[c]
             \/ UNCHANGED <<revision[c], messages[c], summary[c]>>
  <2> DEFINE d == target[h]
             new == Compacted(summary[d], messages[d])
  <2>1. CASE new = summary[d] \/ RevisionOk(d, current[h])
    <3>1. /\ summary' = [summary EXCEPT ![d] = new]
          /\ revision' = [revision EXCEPT ![d] = IF new = summary[d] THEN @ ELSE @ + 1]
          /\ UNCHANGED messages
      BY <1>5, <2>1 DEF Summarize
    <3> HIDE DEF new
    <3>2. CASE c = d
      BY <1>1, <3>1, <3>2 DEF TypeOK
    <3>3. CASE c # d
      BY <1>1, <3>1, <3>3 DEF TypeOK
    <3> QED
      BY <3>2, <3>3
  <2>2. CASE ~(new = summary[d] \/ RevisionOk(d, current[h]))
    BY <1>5, <2>2 DEF Summarize, Fail, rows
  <2> QED
    BY <2>1, <2>2
<1>6. CASE \E h \in Chat : StatementFails(h) \/ PolicyRefused(h)
  BY <1>6 DEF StatementFails, PolicyRefused, Fail, rows
<1>7. CASE \E d \in Conversation : Delete(d)
  BY <1>1, <1>7 DEF Delete, TypeOK
<1>8. CASE Crash \/ UNCHANGED vars
  BY <1>8 DEF Crash, vars, rows
<1>9. CASE \E h \in Chat : AppendUser(h) \/ AppendAnswer(h)
  BY <1>4, <1>9 DEF AppendUser, AppendAnswer
<1> QED
  BY <1>2, <1>3, <1>5, <1>6, <1>7, <1>8, <1>9 DEF Next

(* A revision names one content of a conversation. *)
THEOREM RevisionMovesHolds == Spec => RevisionMoves
  BY TypeInit, TypeStep, RevisionStep, PTL DEF Spec, RevisionMoves
=============================================================================
