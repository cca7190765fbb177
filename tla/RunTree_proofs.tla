--------------------------- MODULE RunTree_proofs ---------------------------
(***************************************************************************)
(* Proofs about RunTree, for every value of its constants.                 *)
(***************************************************************************)
EXTENDS RunTree, SequenceTheorems, TLAPS

-----------------------------------------------------------------------------
(* Paths.                                                                  *)

(* A path is a sequence of slots no longer than MaxDepth. *)
LEMMA PathIsSeq ==
    \A t : t \in Path <=> t \in Seq(Slots) /\ Len(t) <= MaxDepth
<1>1. ASSUME NEW t, t \in Path
      PROVE  t \in Seq(Slots) /\ Len(t) <= MaxDepth
  <2>1. PICK n \in 0..MaxDepth : t \in [1..n -> 1..MaxBatch]
    BY <1>1 DEF Path
  <2>2. n \in Nat /\ n <= MaxDepth
    BY <2>1, ConstantsAssumption
  <2>3. t \in Seq(Slots)
    BY <2>1, <2>2, SeqDef DEF Slots
  <2>4. Len(t) = n
    BY <2>1, <2>2, <2>3, LenProperties
  <2> QED BY <2>2, <2>3, <2>4
<1>2. ASSUME NEW t, t \in Seq(Slots), Len(t) <= MaxDepth
      PROVE  t \in Path
  <2>1. Len(t) \in Nat /\ t \in [1..Len(t) -> Slots]
    BY <1>2, LenProperties
  <2>2. Len(t) \in 0..MaxDepth
    BY <2>1, <1>2, ConstantsAssumption
  <2> QED BY <2>1, <2>2 DEF Path, Slots
<1> QED BY <1>1, <1>2

(* The root is a path, and an ancestor of every other path. *)
LEMMA RootIsPath ==
    /\ Root \in Path /\ Len(Root) = 0
    /\ \A t \in Path : t # Root => Above(Root, t)
<1>1. Root \in Seq(Slots) /\ Len(Root) = 0
  BY EmptySeq DEF Root
<1>2. Root \in Path
  <2>1. Len(Root) <= MaxDepth
    BY <1>1, ConstantsAssumption
  <2> QED BY <1>1, <2>1, PathIsSeq
<1>3. ASSUME NEW t \in Path, t # Root
      PROVE  Above(Root, t)
  <2>1. Len(t) \in Nat \ {0}
    BY <1>3, PathIsSeq, EmptySeq DEF Root
  <2> QED BY <1>1, <2>1 DEF Above
<1> QED BY <1>1, <1>2, <1>3

(* A child's path extends its parent's by one slot, and lies below it. *)
LEMMA ChildProperties ==
    ASSUME NEW t \in Path, NEW i \in Slots
    PROVE  /\ Child(t, i) \in Seq(Slots)
           /\ Len(Child(t, i)) = Len(t) + 1
           /\ \A k \in 1..Len(t) : Child(t, i)[k] = t[k]
           /\ Child(t, i)[Len(t) + 1] = i
           /\ Child(t, i) # t
           /\ Above(t, Child(t, i))
<1>1. t \in Seq(Slots)
  BY PathIsSeq
<1>2. /\ Child(t, i) \in Seq(Slots)
      /\ Len(Child(t, i)) = Len(t) + 1
      /\ \A k \in 1..Len(t) : Child(t, i)[k] = t[k]
      /\ Child(t, i)[Len(t) + 1] = i
  BY <1>1, AppendProperties DEF Child
<1>3. Len(t) \in Nat
  BY <1>1, LenProperties
<1> QED BY <1>2, <1>3 DEF Above

(* The proper ancestors of a child are its parent and the parent's. *)
LEMMA AboveChild ==
    ASSUME NEW a \in Path, NEW t \in Path, NEW i \in Slots, Above(a, Child(t, i))
    PROVE  a = t \/ Above(a, t)
<1>1. /\ a \in Seq(Slots) /\ Len(a) \in Nat
      /\ t \in Seq(Slots) /\ Len(t) \in Nat
  BY PathIsSeq, LenProperties
<1>2. /\ Len(a) <= Len(t)
      /\ \A k \in 1..Len(a) : a[k] = t[k]
  BY <1>1, ChildProperties DEF Above
<1>3. CASE Len(a) = Len(t)
  BY <1>1, <1>2, <1>3, SeqEqual
<1>4. CASE Len(a) < Len(t)
  BY <1>2, <1>4 DEF Above
<1> QED BY <1>1, <1>2, <1>3, <1>4

(* Below a, a task is a child of a or lies below one. *)
LEMMA BelowThroughChild ==
    ASSUME NEW a \in Path, NEW t \in Path, Above(a, t)
    PROVE  \E i \in Slots : /\ Child(a, i) \in Path
                            /\ t = Child(a, i) \/ Above(Child(a, i), t)
<1>1. /\ a \in Seq(Slots) /\ Len(a) \in Nat
      /\ t \in Seq(Slots) /\ Len(t) \in Nat /\ Len(t) <= MaxDepth
      /\ Len(a) < Len(t)
      /\ \A k \in 1..Len(a) : a[k] = t[k]
  BY PathIsSeq, LenProperties DEF Above
<1> DEFINE i == t[Len(a) + 1]
<1>2. i \in Slots
  <2>1. Len(a) + 1 \in 1..Len(t)
    BY <1>1
  <2> QED BY <1>1, <2>1, ElementOfSeq
<1>3. /\ Child(a, i) \in Seq(Slots)
      /\ Len(Child(a, i)) = Len(a) + 1
      /\ \A k \in 1..Len(a) : Child(a, i)[k] = a[k]
      /\ Child(a, i)[Len(a) + 1] = i
  BY <1>2, ChildProperties
<1>4. Child(a, i) \in Path
  BY <1>1, <1>3, PathIsSeq, ConstantsAssumption
<1>5. \A k \in 1..Len(Child(a, i)) : Child(a, i)[k] = t[k]
  BY <1>1, <1>3
<1>6. CASE Len(t) = Len(a) + 1
  BY <1>1, <1>2, <1>3, <1>4, <1>5, <1>6, SeqEqual
<1>7. CASE Len(t) > Len(a) + 1
  BY <1>1, <1>2, <1>3, <1>4, <1>5, <1>7 DEF Above
<1> QED BY <1>1, <1>6, <1>7

(* Ancestors are ordered. *)
LEMMA AboveTrans ==
    ASSUME NEW a \in Path, NEW b \in Path, NEW t \in Path, Above(a, b), Above(b, t)
    PROVE  Above(a, t)
<1>1. Len(a) \in Nat /\ Len(b) \in Nat /\ Len(t) \in Nat
  BY PathIsSeq, LenProperties
<1>2. ASSUME NEW k \in 1..Len(a) PROVE a[k] = t[k]
  <2>1. k \in 1..Len(b)
    BY <1>1 DEF Above
  <2> QED BY <2>1 DEF Above
<1> QED BY <1>1, <1>2 DEF Above

(* A path is the child of one task only. *)
LEMMA ChildInjective ==
    ASSUME NEW t \in Path, NEW u \in Path, NEW i \in Slots, NEW j \in Slots,
           Child(t, i) = Child(u, j)
    PROVE  t = u
<1>1. /\ t \in Seq(Slots) /\ Len(t) \in Nat
      /\ u \in Seq(Slots) /\ Len(u) \in Nat
  BY PathIsSeq, LenProperties
<1>2. Len(t) = Len(u)
  BY <1>1, ChildProperties
<1>3. /\ \A k \in 1..Len(t) : Child(t, i)[k] = t[k]
      /\ \A k \in 1..Len(u) : Child(u, j)[k] = u[k]
  BY ChildProperties
<1>4. \A k \in 1..Len(t) : t[k] = u[k]
  BY <1>2, <1>3
<1> QED BY <1>1, <1>2, <1>4, SeqEqual

-----------------------------------------------------------------------------
(* Type correctness.                                                       *)

(* Ending a task keeps pc and verdict typed. *)
LEMMA EndType ==
    ASSUME TypeOK, NEW t \in Path, NEW v \in Verdict, End(t, v)
    PROVE  pc' \in [Path -> PC] /\ verdict' \in [Path -> Verdict]
BY DEF TypeOK, End, PC

(* Starting queries keeps the state typed. *)
LEMMA SpawnType ==
    ASSUME TypeOK, NEW t \in Path, NEW S, NEW k \in {"rlm", "leaf"},
           NEW s \in PC, NEW b \in BOOLEAN, Spawn(t, S, k, s, b)
    PROVE  TypeOK'
<1>1. pc' \in [Path -> PC]
  BY DEF TypeOK, Spawn, PC
<1>2. kind' \in [Path -> {"rlm", "leaf"}]
  BY DEF TypeOK, Spawn
<1>3. threaded' \in [Path -> BOOLEAN]
  BY DEF TypeOK, Spawn
<1>4. iter' \in [Path -> 0..MaxIterations]
  BY ConstantsAssumption DEF TypeOK, Spawn
<1>5. from' \in [Path -> Nat]
  BY DEF TypeOK, Spawn
<1> QED BY <1>1, <1>2, <1>3, <1>4, <1>5 DEF TypeOK, Spawn

(* Every step of the tree keeps the state typed. *)
LEMMA TypeStep == TypeOK /\ [Next]_vars => TypeOK'
<1> SUFFICES ASSUME TypeOK, [Next]_vars PROVE TypeOK'
  OBVIOUS
<1> USE ConstantsAssumption
<1>1. ASSUME NEW t \in Path, ExhaustIterations(t) PROVE TypeOK'
  BY <1>1, EndType DEF ExhaustIterations, TypeOK, Verdict
<1>2. ASSUME NEW t \in Path, BeginCall(t) PROVE TypeOK'
  <2>1. calls' \in 0..MaxCalls
    BY <1>2 DEF BeginCall, ReserveRefuses, TypeOK
  <2>2. iter' \in [Path -> 0..MaxIterations]
    BY <1>2 DEF BeginCall, HasIteration, TypeOK
  <2>3. pc' \in [Path -> PC]
    BY <1>2 DEF BeginCall, TypeOK, PC
  <2> QED BY <1>2, <2>1, <2>2, <2>3 DEF BeginCall, TypeOK
<1>3. ASSUME NEW t \in Path, RefuseCall(t) PROVE TypeOK'
  BY <1>3, EndType DEF RefuseCall, TypeOK, Verdict
<1>4. ASSUME NEW t \in Path, ReceiveOverLimit(t) PROVE TypeOK'
  <2>1. tokens' \in Nat
    BY <1>4 DEF ReceiveOverLimit, TypeOK
  <2> QED BY <1>4, <2>1, EndType DEF ReceiveOverLimit, TypeOK, Verdict
<1>5. ASSUME NEW t \in Path, ReceiveResponse(t) PROVE TypeOK'
  <2>1. tokens' \in Nat
    BY <1>5 DEF ReceiveResponse, TypeOK
  <2>2. pc' \in [Path -> PC] /\ verdict' \in [Path -> Verdict]
    BY <1>5, EndType DEF ReceiveResponse, TypeOK, PC, Verdict
  <2> QED BY <1>5, <2>1, <2>2 DEF ReceiveResponse, TypeOK
<1>6. ASSUME NEW t \in Path, ProviderFails(t) PROVE TypeOK'
  BY <1>6, EndType DEF ProviderFails, TypeOK, Verdict
<1>7. ASSUME NEW t \in Path, ProviderTimesOut(t) PROVE TypeOK'
  BY <1>7, EndType DEF ProviderTimesOut, TypeOK, Verdict
<1>8. ASSUME NEW t \in Path, EnterRepl(t) PROVE TypeOK'
  BY <1>8 DEF EnterRepl, TypeOK, PC
<1>9. ASSUME NEW t \in Path, LeaveRepl(t) PROVE TypeOK'
  <2>1. pc' \in [Path -> PC] /\ verdict' \in [Path -> Verdict]
    BY <1>9, EndType DEF LeaveRepl, TypeOK, PC, Verdict
  <2> QED BY <1>9, <2>1 DEF LeaveRepl, TypeOK
<1>10. ASSUME NEW t \in Path, Query(t) PROVE TypeOK'
  <2>1. PICK i \in Free(t), k \in QueryKinds(t) : Spawn(t, {i}, k, "ready", FALSE)
    BY <1>10 DEF Query
  <2>2. k \in {"rlm", "leaf"}
    BY DEF QueryKinds
  <2> QED BY <2>1, <2>2, SpawnType DEF PC
<1>11. ASSUME NEW t \in Path, QueryBatched(t) PROVE TypeOK'
  <2>1. PICK S \in SUBSET Free(t), k \in QueryKinds(t) :
            Spawn(t, S, k, "queued", TRUE)
    BY <1>11 DEF QueryBatched
  <2>2. k \in {"rlm", "leaf"}
    BY DEF QueryKinds
  <2> QED BY <2>1, <2>2, SpawnType DEF PC
<1>12. ASSUME NEW t \in Path, ReturnCallback(t) PROVE TypeOK'
  <2>1. pc' \in [Path -> PC]
    BY <1>12 DEF ReturnCallback, Dismiss, TypeOK, PC
  <2>2. verdict' \in [Path -> Verdict]
    BY <1>12 DEF ReturnCallback, Dismiss, TypeOK, Verdict
  <2> QED BY <1>12, <2>1, <2>2 DEF ReturnCallback, TypeOK
<1>13. ASSUME NEW t \in Path, AbortRepl(t) PROVE TypeOK'
  BY <1>13, EndType DEF AbortRepl, TypeOK, Verdict
<1>14. ASSUME NEW t \in Path, CloseRepl(t) PROVE TypeOK'
  BY <1>14 DEF CloseRepl, TypeOK, PC
<1>18. ASSUME NEW t \in Path, AbortLost(t) PROVE TypeOK'
  <2>1. pc' \in [Path -> PC] /\ lost' \in [Path -> Nat]
    BY <1>18 DEF AbortLost, TypeOK, PC
  <2> QED BY <1>18, <2>1 DEF AbortLost, TypeOK
<1>19. ASSUME NEW t \in Path, LeaveVariable(t) PROVE TypeOK'
  <2>1. pc' \in [Path -> PC] /\ verdict' \in [Path -> Verdict]
    BY <1>19, EndType DEF LeaveVariable, TypeOK, PC, Verdict
  <2> QED BY <1>19, <2>1 DEF LeaveVariable, TypeOK
<1>15. ASSUME NEW t \in Inner, NEW i \in Slots, QueryStep(t, i) PROVE TypeOK'
  BY <1>15 DEF QueryStep, AcquirePermit, StartQuery, ReturnQuery, TypeOK, PC
<1>16. CASE Expire
  BY <1>16 DEF Expire, TypeOK
<1>17. CASE UNCHANGED vars
  BY <1>17 DEF vars, TypeOK
<1> QED
  BY <1>1, <1>2, <1>3, <1>4, <1>5, <1>6, <1>7, <1>8, <1>9, <1>10, <1>11,
     <1>12, <1>13, <1>14, <1>15, <1>16, <1>17, <1>18, <1>19
  DEF Next, ModelStep, ReplStep

(* The initial state, with the root alone, is typed. *)
LEMMA InitTyped == Init => TypeOK
<1> SUFFICES ASSUME Init PROVE TypeOK
  OBVIOUS
<1>1. pc \in [Path -> PC] /\ kind \in [Path -> {"rlm", "leaf"}]
  BY DEF Init, PC
<1>2. threaded \in [Path -> BOOLEAN] /\ verdict \in [Path -> Verdict]
  BY DEF Init, Verdict
<1>3. iter \in [Path -> 0..MaxIterations] /\ calls \in 0..MaxCalls
  BY ConstantsAssumption DEF Init
<1>4. lost \in [Path -> Nat] /\ from \in [Path -> Nat]
  BY DEF Init
<1> QED BY <1>1, <1>2, <1>3, <1>4 DEF Init, TypeOK

(* Type correctness; its bound on calls is the provider-call cap of        *)
(* RunBudget.reserve_call for the whole tree.                              *)
THEOREM TypeCorrect == Spec => []TypeOK
BY InitTyped, TypeStep, PTL DEF Spec

-----------------------------------------------------------------------------
(* The tree invariant.                                                     *)

BudgetSeen == \E t \in Path : verdict[t] = "budget"
Structure == VerdictsMatch /\ NothingLeftBelow

(* What a task has lost stays lost, so what it has left behind is excused  *)
(* for good; and it is excused for every ancestor, and for every           *)
(* descendant of the task that was left.                                   *)
LEMMA ForsakenGrows ==
    ASSUME TypeOK, \A b \in Path : lost[b] > 0 => lost'[b] > 0,
           NEW a, NEW t, Forsaken(a, t)
    PROVE  Forsaken(a, t)'
BY DEF Forsaken

(* Every ancestor of a, too, has what a has left behind below it. *)
LEMMA ForsakenUp ==
    ASSUME NEW a \in Path, NEW c \in Path, NEW t \in Path, Above(a, c), Forsaken(c, t)
    PROVE  Forsaken(a, t)
<1>1. PICK b \in Path : lost[b] > 0 /\ Above(b, t) /\ (c = b \/ Above(c, b))
  BY DEF Forsaken
<1>2. Above(a, b)
  BY <1>1, AboveTrans
<1> QED BY <1>1, <1>2 DEF Forsaken

(* What is below a task that was left behind is left behind with it. *)
LEMMA ForsakenDown ==
    ASSUME NEW a \in Path, NEW c \in Path, NEW t \in Path, Above(c, t), Forsaken(a, c)
    PROVE  Forsaken(a, t)
<1>1. PICK b \in Path : lost[b] > 0 /\ Above(b, c) /\ (a = b \/ Above(a, b))
  BY DEF Forsaken
<1>2. Above(b, t)
  BY <1>1, AboveTrans
<1> QED BY <1>1, <1>2 DEF Forsaken

(* A live task moves on its own: it is not blocked in a callback, or it    *)
(* leaves the callback with a budget error.                                *)
LEMMA LocalStep ==
    ASSUME TypeOK, Structure, UNCHANGED lost,
           NEW t0 \in Path, Live(t0), NEW x \in PC, NEW v \in Verdict,
           pc[t0] = "callback" => v = "budget",
           verdict[t0] = "none" \/ verdict[t0] = v,
           pc' = [pc EXCEPT ![t0] = x],
           verdict' = [verdict EXCEPT ![t0] = v],
           v = "none" <=> x \notin {"closing", "done", "returned"}
    PROVE  Structure' /\ (BudgetSeen => BudgetSeen')
<1>1. VerdictsMatch'
  BY DEF TypeOK, Structure, VerdictsMatch
<1>2. ASSUME NEW a \in Path, NEW t \in Path, Above(a, t),
             pc'[t] # "idle", ~Forsaken(a, t)
      PROVE  pc'[a] = "callback" \/ verdict'[a] = "budget"
  <2>1. a # t
    BY <1>2, PathIsSeq, LenProperties DEF Above
  <2>2. pc[t] # "idle"
    BY <1>2 DEF TypeOK, Live
  <2>3. pc[a] = "callback" \/ verdict[a] = "budget"
    BY <1>2, <2>2 DEF Structure, NothingLeftBelow
  <2> QED BY <2>1, <2>3 DEF TypeOK
<1>3. NothingLeftBelow'
  BY <1>2, ForsakenGrows DEF NothingLeftBelow
<1>4. BudgetSeen => BudgetSeen'
  BY DEF BudgetSeen, TypeOK
<1> QED BY <1>1, <1>3, <1>4 DEF Structure

(* The same when the step ends the task. *)
LEMMA EndStep ==
    ASSUME TypeOK, Structure, UNCHANGED lost, NEW t \in Path,
           NEW v \in Verdict \ {"none"}, End(t, v),
           pc[t] \notin {"idle", "closing", "done", "returned"},
           pc[t] = "callback" => v = "budget"
    PROVE  /\ Structure' /\ (BudgetSeen => BudgetSeen')
           /\ v = "budget" => BudgetSeen'
<1>1. verdict[t] = "none" /\ Live(t)
  BY DEF Structure, VerdictsMatch, Live
<1>2. PICK x \in {"closing", "done"} : pc' = [pc EXCEPT ![t] = x]
  BY DEF End
<1>3. verdict' = [verdict EXCEPT ![t] = v]
  BY DEF End
<1>4. Structure' /\ (BudgetSeen => BudgetSeen')
  BY <1>1, <1>2, <1>3, LocalStep DEF PC
<1>5. v = "budget" => BudgetSeen'
  BY <1>3 DEF TypeOK, BudgetSeen
<1> QED BY <1>4, <1>5

(* The same when the step leaves the verdicts alone. *)
LEMMA MoveStep ==
    ASSUME TypeOK, Structure, UNCHANGED lost, NEW t \in Path, NEW x \in PC,
           pc[t] \notin {"idle", "returned", "callback"},
           pc' = [pc EXCEPT ![t] = x], UNCHANGED verdict,
           pc[t] \in {"closing", "done"} <=> x \in {"closing", "done", "returned"}
    PROVE  Structure' /\ (BudgetSeen => BudgetSeen')
<1>1. verdict' = [verdict EXCEPT ![t] = verdict[t]]
  BY DEF TypeOK
<1>2. verdict[t] \in Verdict /\ Live(t)
  BY DEF TypeOK, Live
<1>3. verdict[t] = "none" <=> x \notin {"closing", "done", "returned"}
  BY DEF Structure, VerdictsMatch
<1> QED BY <1>1, <1>2, <1>3, LocalStep

(* A REPL step starts queries in slots that are all free. *)
LEMMA SpawnStep ==
    ASSUME TypeOK, Structure, NEW t \in Path, NEW S \in SUBSET Free(t), NEW k,
           NEW s \in {"queued", "ready"}, NEW b,
           pc[t] = "exec", Spawn(t, S, k, s, b)
    PROVE  Structure' /\ (BudgetSeen => BudgetSeen')
<1> DEFINE new == {Child(t, i) : i \in S}
<1>1. \A i \in S : i \in Slots
  BY DEF Free
<1>2. /\ pc' = [u \in Path |-> IF u = t THEN "callback"
                               ELSE IF u \in new THEN s ELSE pc[u]]
      /\ verdict' = verdict /\ lost' = lost
  BY DEF Spawn
<1>3. verdict[t] = "none"
  BY DEF Structure, VerdictsMatch
<1>5. \A u \in new : u # t /\ Above(t, u)
  BY <1>1, ChildProperties
<1>6. \A u \in new \cap Path : pc[u] = "idle"
  BY DEF Free
<1> HIDE DEF new
<1>7. VerdictsMatch'
  BY <1>2, <1>3, <1>6 DEF Structure, VerdictsMatch
<1>8. ASSUME NEW a \in Path, NEW u \in Path, Above(a, u), pc'[u] # "idle",
             ~Forsaken(a, u)
      PROVE  pc'[a] = "callback" \/ verdict'[a] = "budget"
  <2>0. a \in new => pc[a] = "idle" /\ verdict[a] = "none"
    BY <1>6 DEF Structure, VerdictsMatch
  <2>1. CASE u \in new
    <3>1. a = t \/ Above(a, t)
      BY <1>1, <1>8, <2>1, AboveChild DEF new
    <3>2. ~Forsaken(a, t)
      BY <1>5, <1>8, <2>1, ForsakenDown
    <3>3. a = t \/ pc[a] = "callback" \/ verdict[a] = "budget"
      BY <3>1, <3>2 DEF Structure, NothingLeftBelow
    <3> QED BY <1>2, <3>3, <2>0
  <2>2. CASE u \notin new
    <3>1. pc[u] # "idle"
      BY <1>2, <1>8, <2>2
    <3>2. pc[a] = "callback" \/ verdict[a] = "budget"
      BY <1>8, <3>1 DEF Structure, NothingLeftBelow
    <3> QED BY <1>2, <3>2, <2>0
  <2> QED BY <2>1, <2>2
<1>9. NothingLeftBelow'
  BY <1>2, <1>8, ForsakenGrows DEF NothingLeftBelow
<1>10. BudgetSeen => BudgetSeen'
  BY <1>2 DEF BudgetSeen
<1> QED BY <1>7, <1>9, <1>10 DEF Structure

(* The queries that a callback waited for, when it returns normally: they  *)
(* are at an end, and not with a budget error.                             *)
LEMMA AwaitedEnded ==
    ASSUME TypeOK, NEW t \in Path, ReturnCallback(t), NEW i \in Awaited(t)
    PROVE  /\ i \in Slots /\ Child(t, i) \in Path
           /\ pc[Child(t, i)] = "returned" /\ verdict[Child(t, i)] # "budget"
<1>1. i \in Slots /\ Child(t, i) \in Path /\ pc[Child(t, i)] # "idle"
  BY DEF Awaited, Batch
<1>2. ~Live(Child(t, i)) /\ ~BudgetReturned(t)
  BY DEF ReturnCallback
<1>3. pc[Child(t, i)] = "returned"
  BY <1>1, <1>2 DEF Live
<1> QED BY <1>1, <1>2, <1>3 DEF BudgetReturned

(* Any other task at a slot of t belongs to a call whose budget error t    *)
(* has lost.                                                               *)
LEMMA UnawaitedForsaken ==
    ASSUME TypeOK, CallsNumbered, NEW t \in Path, NEW i \in Slots,
           Child(t, i) \in Path, pc[Child(t, i)] # "idle", i \notin Awaited(t)
    PROVE  lost[t] > 0
<1>1. from[Child(t, i)] # lost[t]
  BY DEF Awaited, Batch
<1>2. from[Child(t, i)] <= lost[t]
  BY DEF CallsNumbered
<1>3. from[Child(t, i)] \in Nat /\ lost[t] \in Nat
  BY DEF TypeOK
<1> QED BY <1>1, <1>2, <1>3

(* When a callback returns normally, nothing is left below the task but    *)
(* what it, or a task below it, has left behind.                           *)
LEMMA CallbackStep ==
    ASSUME TypeOK, Structure, CallsNumbered, NEW t \in Path, ReturnCallback(t)
    PROVE  Structure' /\ (BudgetSeen => BudgetSeen')
<1> DEFINE seen == {Child(t, i) : i \in Awaited(t)}
<1>1. /\ pc[t] = "callback" /\ lost' = lost
      /\ pc' = [u \in Path |-> IF u = t THEN "exec"
                               ELSE IF u \in seen THEN "idle" ELSE pc[u]]
      /\ verdict' = [u \in Path |-> IF u \in seen THEN "none" ELSE verdict[u]]
  BY DEF ReturnCallback, Dismiss
<1>2. verdict[t] = "none"
  BY <1>1 DEF Structure, VerdictsMatch
<1>3. \A u \in seen : /\ u \in Path /\ u # t
                       /\ pc[u] = "returned" /\ verdict[u] # "budget"
  BY AwaitedEnded, ChildProperties
<1>5. ASSUME NEW u \in Path, Above(t, u), u \notin seen, pc[u] # "idle"
      PROVE  Forsaken(t, u)
  <2>1. PICK i \in Slots : /\ Child(t, i) \in Path
                           /\ u = Child(t, i) \/ Above(Child(t, i), u)
    BY <1>5, BelowThroughChild
  <2> DEFINE c == Child(t, i)
  <2>2. c \in Path /\ Above(t, c) /\ (u = c \/ Above(c, u))
    BY <2>1, ChildProperties
  <2>3. CASE i \notin Awaited(t) /\ pc[c] # "idle"
    <3>1. lost[t] > 0
      BY <2>1, <2>3, UnawaitedForsaken
    <3> QED BY <1>5, <3>1 DEF Forsaken
  <2>4. CASE i \in Awaited(t) \/ pc[c] = "idle"
    <3>1. u # c
      BY <1>5, <2>4
    <3>2. pc[c] # "callback" /\ verdict[c] # "budget"
      <4>1. CASE i \in Awaited(t)
        BY <4>1, AwaitedEnded
      <4>2. CASE pc[c] = "idle"
        BY <2>2, <4>2 DEF Structure, VerdictsMatch
      <4> QED BY <2>4, <4>1, <4>2
    <3>3. Forsaken(c, u)
      BY <1>5, <2>2, <3>1, <3>2 DEF Structure, NothingLeftBelow
    <3> QED BY <2>2, <3>3, ForsakenUp
  <2> QED BY <2>3, <2>4
<1> HIDE DEF seen
<1>6. VerdictsMatch'
  BY <1>1, <1>2, <1>3 DEF Structure, VerdictsMatch
<1>7. ASSUME NEW a \in Path, NEW u \in Path, Above(a, u), pc'[u] # "idle",
             ~Forsaken(a, u)
      PROVE  pc'[a] = "callback" \/ verdict'[a] = "budget"
  <2>1. u \notin seen /\ pc[u] # "idle"
    BY <1>1, <1>3, <1>7
  <2>2. a # t
    BY <1>5, <1>7, <2>1
  <2>3. pc[a] = "callback" \/ verdict[a] = "budget"
    BY <1>7, <2>1 DEF Structure, NothingLeftBelow
  <2>4. a \notin seen
    BY <1>3, <2>3
  <2> QED BY <1>1, <2>2, <2>3, <2>4
<1>8. NothingLeftBelow'
  BY <1>1, <1>7, ForsakenGrows DEF NothingLeftBelow
<1>9. BudgetSeen => BudgetSeen'
  BY <1>1, <1>3 DEF BudgetSeen
<1> QED BY <1>6, <1>8, <1>9 DEF Structure

(* When a budget error is lost, what it leaves below is excused, and the   *)
(* task that ended with it stays where it is.                              *)
LEMMA LostStep ==
    ASSUME TypeOK, Structure, NEW t \in Path, AbortLost(t)
    PROVE  Structure' /\ BudgetSeen /\ BudgetSeen'
<1>1. /\ pc[t] = "callback" /\ verdict' = verdict
      /\ pc' = [pc EXCEPT ![t] = "ready"]
      /\ lost' = [lost EXCEPT ![t] = @ + 1]
      /\ BudgetReturned(t)
  BY DEF AbortLost
<1>2. lost'[t] > 0 /\ \A u \in Path : lost[u] > 0 => lost'[u] > 0
  BY <1>1 DEF TypeOK
<1>3. VerdictsMatch'
  BY <1>1 DEF TypeOK, Structure, VerdictsMatch
<1>4. ASSUME NEW a \in Path, NEW u \in Path, Above(a, u), pc'[u] # "idle"
      PROVE  pc'[a] = "callback" \/ verdict'[a] = "budget" \/ Forsaken(a, u)'
  <2>1. CASE a = t
    <3>1. Forsaken(a, u)'
      BY <1>2, <1>4, <2>1 DEF Forsaken
    <3> QED BY <3>1
  <2>2. CASE a # t
    <3>1. pc[u] # "idle"
      BY <1>1, <1>4 DEF TypeOK
    <3>2. pc[a] = "callback" \/ verdict[a] = "budget" \/ Forsaken(a, u)
      BY <1>4, <3>1 DEF Structure, NothingLeftBelow
    <3> QED BY <1>1, <1>2, <2>2, <3>2, ForsakenGrows DEF TypeOK
  <2> QED BY <2>1, <2>2
<1>5. NothingLeftBelow'
  BY <1>4 DEF NothingLeftBelow
<1>6. BudgetSeen
  BY <1>1 DEF BudgetReturned, BudgetSeen, Awaited, Batch
<1> QED BY <1>1, <1>3, <1>5, <1>6 DEF Structure, BudgetSeen

(* What every step does to the tree: the structure is kept, a budget error *)
(* never disappears, and the token counter passes its limit only together  *)
(* with a budget error.                                                    *)
LEMMA TreeStep ==
    ASSUME IInv, [Next]_vars
    PROVE  /\ Structure' /\ (BudgetSeen => BudgetSeen')
           /\ tokens' = tokens \/ tokens' <= MaxTokens \/ BudgetSeen'
<1> DEFINE Goal == /\ Structure' /\ (BudgetSeen => BudgetSeen')
                   /\ tokens' = tokens \/ tokens' <= MaxTokens \/ BudgetSeen'
<1> USE ConstantsAssumption
<1>0. TypeOK /\ Structure /\ CallsNumbered
  BY DEF IInv, Structure
<1>1. ASSUME NEW t \in Path, ExhaustIterations(t) PROVE Goal
  BY <1>0, <1>1, EndStep DEF ExhaustIterations, Verdict
<1>2. ASSUME NEW t \in Path, BeginCall(t) PROVE Goal
  BY <1>0, <1>2, MoveStep DEF BeginCall, PC
<1>3. ASSUME NEW t \in Path, RefuseCall(t) PROVE Goal
  BY <1>0, <1>3, EndStep DEF RefuseCall, Verdict
<1>4. ASSUME NEW t \in Path, ReceiveOverLimit(t) PROVE Goal
  BY <1>0, <1>4, EndStep DEF ReceiveOverLimit, Verdict
<1>5. ASSUME NEW t \in Path, ReceiveResponse(t) PROVE Goal
  <2>1. tokens' <= MaxTokens
    BY <1>0, <1>5 DEF ReceiveResponse, OverLimit, TypeOK
  <2>2. ASSUME NEW v \in {"ok", "error"}, End(t, v)
        PROVE  Structure' /\ (BudgetSeen => BudgetSeen')
    BY <1>0, <1>5, <2>2, EndStep DEF ReceiveResponse, Verdict
  <2>3. ASSUME NEW x \in {"ready", "waiting"},
               pc' = [pc EXCEPT ![t] = x], UNCHANGED verdict
        PROVE  Structure' /\ (BudgetSeen => BudgetSeen')
    BY <1>0, <1>5, <2>3, MoveStep DEF ReceiveResponse, PC
  <2> QED BY <1>5, <2>1, <2>2, <2>3 DEF ReceiveResponse
<1>6. ASSUME NEW t \in Path, ProviderFails(t) PROVE Goal
  BY <1>0, <1>6, EndStep DEF ProviderFails, Verdict
<1>7. ASSUME NEW t \in Path, ProviderTimesOut(t) PROVE Goal
  BY <1>0, <1>7, EndStep DEF ProviderTimesOut, Verdict
<1>8. ASSUME NEW t \in Path, EnterRepl(t) PROVE Goal
  BY <1>0, <1>8, MoveStep DEF EnterRepl, PC
<1>9. ASSUME NEW t \in Path, LeaveRepl(t) PROVE Goal
  <2>1. CASE End(t, "ok")
    BY <1>0, <1>9, <2>1, EndStep DEF LeaveRepl, Verdict
  <2>2. CASE pc' = [pc EXCEPT ![t] = "ready"] /\ UNCHANGED verdict
    BY <1>0, <1>9, <2>2, MoveStep DEF LeaveRepl, PC
  <2> QED BY <1>9, <2>1, <2>2 DEF LeaveRepl
<1>10. ASSUME NEW t \in Path, Query(t) PROVE Goal
  <2>1. PICK i \in Free(t), k \in QueryKinds(t) : Spawn(t, {i}, k, "ready", FALSE)
    BY <1>10 DEF Query
  <2>2. {i} \in SUBSET Free(t) /\ pc[t] = "exec"
    BY <1>10 DEF Query
  <2>3. Structure' /\ (BudgetSeen => BudgetSeen')
    BY <1>0, <2>1, <2>2, SpawnStep
  <2>4. tokens' = tokens
    BY <2>1 DEF Spawn
  <2> QED BY <2>3, <2>4
<1>11. ASSUME NEW t \in Path, QueryBatched(t) PROVE Goal
  <2>1. PICK S \in SUBSET Free(t), k \in QueryKinds(t) :
            Spawn(t, S, k, "queued", TRUE)
    BY <1>11 DEF QueryBatched
  <2>2. Structure' /\ (BudgetSeen => BudgetSeen')
    BY <1>0, <1>11, <2>1, SpawnStep DEF QueryBatched
  <2>3. tokens' = tokens
    BY <2>1 DEF Spawn
  <2> QED BY <2>2, <2>3
<1>12. ASSUME NEW t \in Path, ReturnCallback(t) PROVE Goal
  BY <1>0, <1>12, CallbackStep DEF ReturnCallback
<1>13. ASSUME NEW t \in Path, AbortRepl(t) PROVE Goal
  BY <1>0, <1>13, EndStep DEF AbortRepl, Verdict
<1>14. ASSUME NEW t \in Path, CloseRepl(t) PROVE Goal
  BY <1>0, <1>14, MoveStep DEF CloseRepl, PC
<1>17. ASSUME NEW t \in Path, AbortLost(t) PROVE Goal
  BY <1>0, <1>17, LostStep DEF AbortLost
<1>18. ASSUME NEW t \in Path, LeaveVariable(t) PROVE Goal
  <2>1. ASSUME NEW v \in {"ok", "error"}, End(t, v)
        PROVE  Structure' /\ (BudgetSeen => BudgetSeen')
    BY <1>0, <1>18, <2>1, EndStep DEF LeaveVariable, Verdict
  <2>2. CASE pc' = [pc EXCEPT ![t] = "ready"] /\ UNCHANGED verdict
    BY <1>0, <1>18, <2>2, MoveStep DEF LeaveVariable, PC
  <2> QED BY <1>18, <2>1, <2>2 DEF LeaveVariable
<1>15. ASSUME NEW t \in Inner, NEW i \in Slots, QueryStep(t, i) PROVE Goal
  <2>1. Child(t, i) \in Path
    BY ChildProperties, PathIsSeq, LenProperties DEF Inner
  <2>2. CASE AcquirePermit(t, i)
    BY <1>0, <2>1, <2>2, MoveStep DEF AcquirePermit, PC
  <2>3. CASE StartQuery(t, i)
    BY <1>0, <2>1, <2>3, MoveStep DEF StartQuery, PC
  <2>4. CASE ReturnQuery(t, i)
    BY <1>0, <2>1, <2>4, MoveStep DEF ReturnQuery, PC
  <2> QED BY <1>15, <2>2, <2>3, <2>4 DEF QueryStep
<1>16. CASE Expire \/ UNCHANGED vars
  BY <1>0, <1>16
  DEF Expire, vars, Structure, VerdictsMatch, NothingLeftBelow, BudgetSeen, Forsaken
<1> QED
  BY <1>1, <1>2, <1>3, <1>4, <1>5, <1>6, <1>7, <1>8, <1>9, <1>10, <1>11,
     <1>12, <1>13, <1>14, <1>15, <1>16, <1>17, <1>18
  DEF Next, ModelStep, ReplStep

(* The root stays an rlm task: queries are started at other paths.  And    *)
(* they are started with the number of their starter's present call.       *)
LEMMA RootKindStep ==
    ASSUME IInv, [Next]_vars
    PROVE  RootIsRlm' /\ CallsNumbered'
<1>1. TypeOK /\ kind[Root] = "rlm" /\ CallsNumbered
  BY DEF IInv, RootIsRlm
<1>2. ASSUME NEW t \in Path, NEW S \in SUBSET Free(t), NEW k, NEW s, NEW b,
             Spawn(t, S, k, s, b)
      PROVE  RootIsRlm' /\ CallsNumbered'
  <2>1. \A i \in S : i \in Slots /\ Child(t, i) # Root
    <3> SUFFICES ASSUME NEW i \in S PROVE i \in Slots /\ Child(t, i) # Root
      OBVIOUS
    <3>1. i \in Slots
      BY DEF Free
    <3>2. Len(t) \in Nat /\ Len(Child(t, i)) = Len(t) + 1
      BY <3>1, ChildProperties, PathIsSeq, LenProperties
    <3> QED BY <3>1, <3>2, RootIsPath
  <2>2. RootIsRlm'
    BY <1>1, <1>2, <2>1, RootIsPath DEF Spawn, RootIsRlm
  <2>3. ASSUME NEW u \in Path, NEW j \in Slots, Child(u, j) \in Path
        PROVE  from'[Child(u, j)] <= lost'[u]
    <3>1. /\ lost' = lost /\ lost[u] \in Nat
          /\ from[Child(u, j)] <= lost[u]
      BY <1>1, <1>2, <2>3 DEF Spawn, TypeOK, CallsNumbered
    <3>2. CASE \E i \in S : Child(u, j) = Child(t, i)
      <4>1. u = t
        BY <2>1, <3>2, ChildInjective
      <4>2. from'[Child(u, j)] = lost[t]
        BY <1>2, <2>3, <3>2 DEF Spawn
      <4> QED BY <3>1, <4>1, <4>2
    <3>3. CASE ~\E i \in S : Child(u, j) = Child(t, i)
      <4>1. from'[Child(u, j)] = from[Child(u, j)]
        BY <1>2, <2>3, <3>3 DEF Spawn
      <4> QED BY <3>1, <4>1
    <3> QED BY <3>2, <3>3
  <2> QED BY <2>2, <2>3 DEF CallsNumbered
<1>3. CASE UNCHANGED <<kind, from, lost>>
  BY <1>1, <1>3 DEF RootIsRlm, CallsNumbered
<1>4. ASSUME NEW t \in Path, Query(t) PROVE RootIsRlm' /\ CallsNumbered'
  <2>1. PICK i \in Free(t), k \in QueryKinds(t) : Spawn(t, {i}, k, "ready", FALSE)
    BY <1>4 DEF Query
  <2> QED BY <1>2, <2>1
<1>5. ASSUME NEW t \in Path, QueryBatched(t) PROVE RootIsRlm' /\ CallsNumbered'
  BY <1>2, <1>5 DEF QueryBatched
<1>6. ASSUME NEW t \in Path, AbortLost(t) PROVE RootIsRlm' /\ CallsNumbered'
  <2>1. /\ kind' = kind /\ from' = from
        /\ \A u \in Path : lost[u] \in Nat /\ lost'[u] >= lost[u] /\ lost'[u] \in Nat
    BY <1>1, <1>6 DEF AbortLost, TypeOK
  <2>2. \A u \in Path : from[u] \in Nat
    BY <1>1 DEF TypeOK
  <2> QED BY <1>1, <2>1, <2>2 DEF RootIsRlm, CallsNumbered
<1> QED
  BY <1>3, <1>4, <1>5, <1>6
  DEF Next, ModelStep, ReplStep, QueryStep, vars, ExhaustIterations, BeginCall,
      RefuseCall, ReceiveOverLimit, ReceiveResponse, ProviderFails,
      ProviderTimesOut, EnterRepl, LeaveRepl, LeaveVariable, ReturnCallback,
      AbortRepl, CloseRepl, AcquirePermit, StartQuery, ReturnQuery, Expire

(* The inductive invariant of the tree. *)
THEOREM TreeInvariant == Spec => []IInv
<1>1. ASSUME Init PROVE IInv
  <2>1. TypeOK
    BY <1>1, InitTyped
  <2>2. VerdictsMatch
    BY <1>1 DEF Init, VerdictsMatch
  <2>3. NothingLeftBelow
    <3> SUFFICES ASSUME NEW a \in Path, NEW t \in Path, Above(a, t),
                        pc[t] # "idle"
                 PROVE  FALSE
      BY DEF NothingLeftBelow
    <3>1. t = Root
      BY <1>1 DEF Init
    <3>2. Len(a) \in Nat
      BY PathIsSeq, LenProperties
    <3> QED BY <3>1, <3>2, RootIsPath DEF Above
  <2>4. OverLimitSeen
    BY <1>1, ConstantsAssumption DEF Init, OverLimitSeen
  <2>5. RootIsRlm
    BY <1>1, RootIsPath DEF Init, RootIsRlm
  <2>6. CallsNumbered
    BY <1>1 DEF Init, CallsNumbered
  <2> QED BY <2>1, <2>2, <2>3, <2>4, <2>5, <2>6 DEF IInv
<1>2. ASSUME IInv, [Next]_vars PROVE IInv'
  <2>1. TypeOK'
    BY <1>2, TypeStep DEF IInv
  <2>2. Structure' /\ (BudgetSeen => BudgetSeen')
    BY <1>2, TreeStep
  <2>3. tokens' = tokens \/ tokens' <= MaxTokens \/ BudgetSeen'
    BY <1>2, TreeStep
  <2>4. tokens' > MaxTokens => BudgetSeen'
    BY <1>2, <2>1, <2>2, <2>3, ConstantsAssumption
    DEF IInv, OverLimitSeen, BudgetSeen, TypeOK
  <2>5. OverLimitSeen'
    BY <2>4 DEF OverLimitSeen, BudgetSeen
  <2>6. RootIsRlm' /\ CallsNumbered'
    BY <1>2, RootKindStep
  <2> QED BY <2>1, <2>2, <2>5, <2>6 DEF IInv, Structure
<1> QED BY <1>1, <1>2, PTL DEF Spec

(* Nothing runs below a task that has moved on. *)
THEOREM NothingLeftBelowHolds == Spec => []NothingLeftBelow
<1>1. IInv => NothingLeftBelow
  BY DEF IInv
<1> QED BY <1>1, TreeInvariant, PTL

(* The invariant implies that a run that answers is within its limits or   *)
(* has lost an error, and has left nothing running but below that loss.    *)
LEMMA SuccessFromIInv == IInv => SuccessWithinLimits
<1> SUFFICES ASSUME IInv, pc[Root] = "done", verdict[Root] = "ok"
             PROVE  /\ Tripped => SomeLost
                    /\ \A t \in Path : t # Root => pc[t] = "idle" \/ Forsaken(Root, t)
  BY DEF SuccessWithinLimits
<1>1. \A t \in Path : t # Root => pc[t] = "idle" \/ Forsaken(Root, t)
  BY RootIsPath DEF IInv, NothingLeftBelow
<1>2. ASSUME ~SomeLost PROVE ~Tripped
  <2>1. \A t \in Path : t # Root => pc[t] = "idle"
    BY <1>1, <1>2 DEF SomeLost, Forsaken
  <2>2. \A t \in Path : verdict[t] # "budget"
    BY <2>1 DEF IInv, VerdictsMatch
  <2>3. ~(tokens > MaxTokens)
    BY <2>2 DEF IInv, OverLimitSeen
  <2> QED BY <2>2, <2>3 DEF Tripped
<1> QED BY <1>1, <1>2

(* A run that returns an answer met no limit, and left nothing running,   *)
(* unless a worker died just as its step was to be aborted.                *)
THEOREM SuccessIsWithinLimits == Spec => []SuccessWithinLimits
BY TreeInvariant, SuccessFromIInv, PTL

-----------------------------------------------------------------------------
(* The tree implements the contract of a run.                              *)

(* Tripped is the same as a budget error somewhere in the tree, and once
   true it stays true. *)
LEMMA TrippedStep ==
    ASSUME IInv, [Next]_vars
    PROVE  /\ Tripped => Tripped'
           /\ Tripped <=> BudgetSeen
           /\ Tripped' <=> BudgetSeen'
<1>1. Structure' /\ (BudgetSeen => BudgetSeen')
  BY TreeStep
<1>2. Tripped <=> BudgetSeen
  BY DEF IInv, OverLimitSeen, Tripped, BudgetSeen
<1>3. tokens' > MaxTokens => BudgetSeen'
  <2>1. TypeOK'
    BY TypeStep DEF IInv
  <2>2. tokens' = tokens \/ tokens' <= MaxTokens \/ BudgetSeen'
    BY TreeStep
  <2> QED BY <1>1, <2>1, <2>2, ConstantsAssumption
          DEF IInv, OverLimitSeen, BudgetSeen, TypeOK
<1> QED BY <1>1, <1>2, <1>3 DEF Tripped, BudgetSeen

(* A step that leaves the root's end alone leaves the status alone. *)
LEMMA StatusKept ==
    ASSUME \/ pc[Root] # "done" /\ pc'[Root] # "done"
           \/ pc'[Root] = pc[Root] /\ verdict'[Root] = verdict[Root]
    PROVE  RunStatus' = RunStatus
BY DEF RunStatus

(* Whether anything was lost changes only with the count of losses. *)
LEMMA LostKept == ASSUME UNCHANGED lost PROVE SomeLost' = SomeLost
BY DEF SomeLost

(* A task that runs: the run has not succeeded, or the task was left       *)
(* behind; and the task's own step does not end the run.                   *)
LEMMA RunningTask ==
    ASSUME IInv, NEW t \in Path, pc[t] \notin {"idle", "done"}
    PROVE  /\ RunStatus # "ok" \/ SomeLost
           /\ \A x \in PC \ {"done"} :
                 pc' = [pc EXCEPT ![t] = x] /\ verdict' = verdict
                 => RunStatus' = RunStatus
           /\ \A v : pc[t] # "returned" /\ End(t, v) => RunStatus' = RunStatus
<1>1. TypeOK /\ kind[Root] = "rlm"
  BY DEF IInv, RootIsRlm
<1>2. RunStatus # "ok" \/ SomeLost
  <2> SUFFICES ASSUME pc[Root] = "done", verdict[Root] = "ok" PROVE SomeLost
    BY DEF RunStatus
  <2>1. Forsaken(Root, t)
    BY SuccessFromIInv DEF SuccessWithinLimits
  <2> QED BY <2>1 DEF Forsaken, SomeLost
<1>3. ASSUME NEW x \in PC \ {"done"}, pc' = [pc EXCEPT ![t] = x],
             verdict' = verdict
      PROVE  RunStatus' = RunStatus
  BY <1>1, <1>3, RootIsPath, StatusKept DEF TypeOK
<1>4. ASSUME NEW v, End(t, v) PROVE RunStatus' = RunStatus
  BY <1>1, <1>4, RootIsPath, StatusKept DEF TypeOK, End
<1> QED BY <1>2, <1>3, <1>4

(* How the set of open provider calls follows the move of one task. *)
LEMMA OpenCallsMove ==
    ASSUME TypeOK, NEW t \in Path, NEW x \in PC, pc' = [pc EXCEPT ![t] = x]
    PROVE  OpenCalls' = IF x = "calling" THEN OpenCalls \cup {t}
                                         ELSE OpenCalls \ {t}
BY DEF TypeOK, OpenCalls

(* A step that leaves calls, open calls, status and limits alone is a
   stutter of the contract. *)
LEMMA ContractStutter ==
    ASSUME IInv, [Next]_vars, calls' = calls, OpenCalls' = OpenCalls,
           RunStatus' = RunStatus, BudgetSeen' => BudgetSeen, lost' = lost
    PROVE  UNCHANGED Contract!vars
<1>1. Tripped' <=> Tripped
  BY TrippedStep
<1>2. Tripped' = Tripped
  BY <1>1 DEF Tripped
<1> QED BY <1>2, LostKept DEF Contract!vars

(* A step that ends an open call. *)
LEMMA ContractFinish ==
    ASSUME IInv, [Next]_vars, NEW t \in Path, pc[t] = "calling",
           NEW x \in PC \ {"calling"},
           calls' = calls, lost' = lost,
           pc' = [pc EXCEPT ![t] = x], RunStatus' = RunStatus
    PROVE  Contract!Next
<1>1. OpenCalls' = OpenCalls \ {t} /\ t \in OpenCalls
  BY OpenCallsMove DEF IInv, OpenCalls
<1>2. Tripped => Tripped'
  BY TrippedStep
<1>3. Tripped' \in {Tripped, TRUE}
  BY <1>2 DEF Tripped
<1> QED BY <1>1, <1>3, LostKept DEF Contract!Next, Contract!FinishCall

(* A call that ends together with its task is a FinishCall. *)
LEMMA EndedCall ==
    ASSUME IInv, [Next]_vars, NEW t \in Path, pc[t] = "calling",
           calls' = calls, lost' = lost, NEW v, End(t, v)
    PROVE  Contract!Next
<1>1. PICK x \in {"closing", "done"} : pc' = [pc EXCEPT ![t] = x]
  BY DEF End
<1>2. RunStatus' = RunStatus
  BY RunningTask
<1> QED BY <1>1, <1>2, ContractFinish DEF PC

(* A task moves without touching calls, limits or the root's end. *)
LEMMA QuietMove ==
    ASSUME IInv, [Next]_vars, NEW t \in Path, NEW x \in PC \ {"calling", "done"},
           pc[t] \notin {"idle", "calling", "done"}, calls' = calls,
           lost' = lost, pc' = [pc EXCEPT ![t] = x], verdict' = verdict
    PROVE  UNCHANGED Contract!vars
<1>1. OpenCalls' = OpenCalls
  BY OpenCallsMove DEF IInv, OpenCalls
<1>2. RunStatus' = RunStatus
  BY RunningTask
<1> QED BY <1>1, <1>2, ContractStutter DEF BudgetSeen

(* A task ends, without a budget error, outside a call. *)
LEMMA QuietEnd ==
    ASSUME IInv, [Next]_vars, NEW t \in Path, NEW v \in {"ok", "error"},
           pc[t] \notin {"idle", "calling", "done", "returned"},
           calls' = calls, lost' = lost, End(t, v)
    PROVE  UNCHANGED Contract!vars
<1>1. PICK x \in {"closing", "done"} : pc' = [pc EXCEPT ![t] = x]
  BY DEF End
<1>2. OpenCalls' = OpenCalls
  BY <1>1, OpenCallsMove DEF IInv, OpenCalls, PC
<1>3. RunStatus' = RunStatus
  BY RunningTask
<1>4. BudgetSeen' => BudgetSeen
  BY DEF End, BudgetSeen, IInv, TypeOK
<1> QED BY <1>2, <1>3, <1>4, ContractStutter

(* A task ends with a budget error outside a call. *)
LEMMA TrippingEnd ==
    ASSUME IInv, [Next]_vars, NEW t \in Path, End(t, "budget"),
           pc[t] \notin {"idle", "calling", "done", "returned"}, calls' = calls,
           lost' = lost
    PROVE  Contract!Next
<1>1. PICK x \in {"closing", "done"} : pc' = [pc EXCEPT ![t] = x]
  BY DEF End
<1>2. OpenCalls' = OpenCalls
  BY <1>1, OpenCallsMove DEF IInv, OpenCalls, PC
<1>3. RunStatus' = RunStatus /\ (RunStatus # "ok" \/ SomeLost)
  BY RunningTask
<1>4. Tripped'
  BY TrippedStep DEF End, BudgetSeen, IInv, TypeOK
<1>5. Tripped' = TRUE
  BY <1>4 DEF Tripped
<1> QED BY <1>2, <1>3, <1>5, LostKept DEF Contract!Next, Contract!Trip

(* Starting queries is a stutter of the contract: the new tasks have no
   call open yet. *)
LEMMA SpawnIsQuiet ==
    ASSUME IInv, [Next]_vars, NEW t \in Path, NEW S \in SUBSET Free(t), NEW k,
           NEW s \in {"queued", "ready"}, NEW b,
           pc[t] = "exec", Spawn(t, S, k, s, b)
    PROVE  UNCHANGED Contract!vars
<1>0. TypeOK /\ Structure
  BY DEF IInv, Structure
<1>1. ASSUME NEW i \in S
      PROVE  /\ Child(t, i) # Root /\ Child(t, i) # t
             /\ Child(t, i) \in Path => pc[Child(t, i)] = "idle"
  <2>1. i \in Slots
    BY DEF Free
  <2>2. Len(t) \in Nat /\ Len(Child(t, i)) = Len(t) + 1
    BY <2>1, ChildProperties, PathIsSeq, LenProperties
  <2>4. Child(t, i) \in Path => pc[Child(t, i)] = "idle"
    BY DEF Free
  <2> QED BY <2>1, <2>2, <2>4, ChildProperties, RootIsPath
<1>2. OpenCalls' = OpenCalls
  BY <1>0, <1>1 DEF Spawn, OpenCalls
<1>3. pc[Root] # "done" => pc'[Root] # "done"
  BY <1>1, RootIsPath DEF Spawn
<1>4. pc[Root] = "done" => pc'[Root] = "done"
  BY <1>1, RootIsPath DEF Spawn
<1>5. RunStatus' = RunStatus
  BY <1>3, <1>4 DEF Spawn, RunStatus
<1>6. calls' = calls /\ lost' = lost /\ (BudgetSeen' => BudgetSeen)
  BY DEF Spawn, BudgetSeen
<1> QED BY <1>2, <1>5, <1>6, ContractStutter

(* Answering a callback is a stutter of the contract: what it removes has
   come to its end. *)
LEMMA CallbackIsQuiet ==
    ASSUME IInv, [Next]_vars, NEW t \in Path, ReturnCallback(t)
    PROVE  UNCHANGED Contract!vars
<1> DEFINE seen == {Child(t, i) : i \in Awaited(t)}
<1>1. /\ pc[t] = "callback" /\ calls' = calls /\ lost' = lost
      /\ pc' = [u \in Path |-> IF u = t THEN "exec"
                               ELSE IF u \in seen THEN "idle" ELSE pc[u]]
      /\ verdict' = [u \in Path |-> IF u \in seen THEN "none" ELSE verdict[u]]
  BY DEF ReturnCallback, Dismiss
<1>2. \A u \in seen : pc[u] # "calling" /\ u # Root
  <2> SUFFICES ASSUME NEW i \in Awaited(t)
               PROVE  pc[Child(t, i)] # "calling" /\ Child(t, i) # Root
    OBVIOUS
  <2>0. i \in Slots /\ pc[Child(t, i)] = "returned"
    BY AwaitedEnded DEF IInv
  <2>1. Len(t) \in Nat /\ Len(Child(t, i)) = Len(t) + 1
    BY <2>0, ChildProperties, PathIsSeq, LenProperties
  <2> QED BY <2>0, <2>1, RootIsPath
<1> HIDE DEF seen
<1>3. OpenCalls' = OpenCalls
  BY <1>1, <1>2 DEF OpenCalls
<1>4. RunStatus' = RunStatus
  <2>1. /\ pc[Root] = "done" <=> pc'[Root] = "done"
        /\ verdict'[Root] = verdict[Root]
    BY <1>1, <1>2, RootIsPath
  <2> QED BY <2>1 DEF RunStatus
<1>5. BudgetSeen' => BudgetSeen
  BY <1>1 DEF BudgetSeen
<1> QED BY <1>1, <1>3, <1>4, <1>5, ContractStutter

(* Closing the root's REPL ends the run; any other close is not visible. *)
LEMMA CloseIsAnEnd ==
    ASSUME IInv, [Next]_vars, NEW t \in Path, CloseRepl(t)
    PROVE  [Contract!Next]_(Contract!vars)
<1>1. /\ pc[t] = "closing" /\ verdict' = verdict /\ calls' = calls /\ lost' = lost
      /\ pc' = [pc EXCEPT ![t] = "done"]
  BY DEF CloseRepl
<1>2. OpenCalls' = OpenCalls
  BY <1>1, OpenCallsMove DEF IInv, OpenCalls, PC
<1>3. BudgetSeen' => BudgetSeen
  BY <1>1 DEF BudgetSeen
<1>4. CASE t # Root
  <2>1. RunStatus' = RunStatus
    BY <1>1, <1>4, RootIsPath, StatusKept DEF IInv, TypeOK
  <2> QED BY <1>1, <1>2, <1>3, <2>1, ContractStutter
<1>5. CASE t = Root
  <2>1. Tripped' = Tripped
    <3>1. Tripped' <=> Tripped
      BY <1>3, TrippedStep
    <3> QED BY <3>1 DEF Tripped
  <2>2. RunStatus = "running"
    BY <1>1, <1>5 DEF RunStatus
  <2>3. RunStatus' = IF verdict[Root] = "ok" THEN "ok" ELSE "failed"
    BY <1>1, <1>5, RootIsPath DEF RunStatus, IInv, TypeOK
  <2>4. CASE verdict[Root] = "ok"
    <3>1. ASSUME ~SomeLost PROVE OpenCalls = {} /\ ~Tripped
      <4>1. \A u \in Path : ~Forsaken(Root, u)
        BY <3>1 DEF Forsaken, SomeLost
      <4>2. \A u \in Path : u # Root => pc[u] = "idle"
        BY <1>1, <1>5, <2>4, <4>1, RootIsPath DEF IInv, NothingLeftBelow
      <4>3. OpenCalls = {}
        BY <1>1, <1>5, <4>2 DEF OpenCalls
      <4>4. \A u \in Path : verdict[u] # "budget"
        BY <4>2, <2>4 DEF IInv, VerdictsMatch
      <4>5. ~Tripped
        BY <4>4, TrippedStep DEF BudgetSeen
      <4> QED BY <4>3, <4>5
    <3> QED BY <1>1, <1>2, <2>1, <2>2, <2>3, <2>4, <3>1, LostKept
            DEF Contract!Next, Contract!Succeed
  <2>5. CASE verdict[Root] # "ok"
    BY <1>1, <1>2, <2>1, <2>2, <2>3, <2>5, LostKept DEF Contract!Next, Contract!Fail
  <2> QED BY <2>4, <2>5
<1> QED BY <1>4, <1>5

(* BeginCall is the contract's StartCall: below the cap, in a run that has
   not succeeded. *)
LEMMA BeginIsAStart ==
    ASSUME IInv, [Next]_vars, NEW t \in Path, BeginCall(t)
    PROVE  Contract!Next
<1>1. /\ pc[t] = "ready" /\ verdict' = verdict /\ calls' = calls + 1
      /\ pc' = [pc EXCEPT ![t] = "calling"]
      /\ tokens' = tokens /\ lost' = lost
  BY DEF BeginCall
<1>2. OpenCalls' = OpenCalls \cup {t} /\ t \notin OpenCalls
  BY <1>1, OpenCallsMove DEF IInv, OpenCalls, PC
<1>3. RunStatus' = RunStatus /\ (RunStatus # "ok" \/ SomeLost)
  BY <1>1, RunningTask DEF PC
<1>4. Tripped' = Tripped
  BY <1>1 DEF Tripped
<1>5. calls < MaxCalls
  BY ConstantsAssumption DEF BeginCall, ReserveRefuses, IInv, TypeOK
<1> QED BY <1>1, <1>2, <1>3, <1>4, <1>5, LostKept
        DEF Contract!Next, Contract!StartCall

(* AbortLost is the contract's Lose: the error of a limit that was hit is  *)
(* lost, by a task of a run that has not succeeded.                        *)
LEMMA LostIsALoss ==
    ASSUME IInv, [Next]_vars, NEW t \in Path, AbortLost(t)
    PROVE  Contract!Next
<1>1. /\ pc[t] = "callback" /\ verdict' = verdict /\ calls' = calls
      /\ pc' = [pc EXCEPT ![t] = "ready"] /\ tokens' = tokens
  BY DEF AbortLost
<1>2. OpenCalls' = OpenCalls
  BY <1>1, OpenCallsMove, ZenonT(30) DEF IInv, OpenCalls, PC
<1>3. RunStatus' = RunStatus /\ (RunStatus # "ok" \/ SomeLost)
  BY <1>1, RunningTask DEF PC
<1>4. Tripped /\ Tripped' = Tripped
  <2>1. BudgetSeen
    BY LostStep DEF IInv, Structure
  <2> QED BY <1>1, <2>1, TrippedStep DEF Tripped
<1>5. SomeLost' = TRUE
  BY DEF SomeLost, AbortLost, IInv, TypeOK
<1> QED BY <1>1, <1>2, <1>3, <1>4, <1>5 DEF Contract!Next, Contract!Lose

(* Every step of the tree is a step or a stutter of the contract. *)
LEMMA ContractStep ==
    ASSUME IInv, [Next]_vars
    PROVE  [Contract!Next]_(Contract!vars)
<1> DEFINE Goal == [Contract!Next]_(Contract!vars)
<1>1. ASSUME NEW t \in Path, ModelStep(t) PROVE Goal
  <2>1. CASE ExhaustIterations(t)
    BY <2>1, QuietEnd DEF ExhaustIterations
  <2>2. CASE BeginCall(t)
    BY <2>2, BeginIsAStart
  <2>3. CASE RefuseCall(t)
    BY <2>3, TrippingEnd DEF RefuseCall
  <2>4. CASE ReceiveOverLimit(t)
    BY <2>4, EndedCall DEF ReceiveOverLimit
  <2>5. CASE ReceiveResponse(t)
    <3>1. ASSUME NEW v, End(t, v) PROVE Goal
      BY <2>5, <3>1, EndedCall DEF ReceiveResponse
    <3>2. ASSUME NEW x \in {"ready", "waiting"}, pc' = [pc EXCEPT ![t] = x],
                 UNCHANGED verdict
          PROVE  Goal
      <4>1. RunStatus' = RunStatus
        BY <2>5, <3>2, RunningTask DEF ReceiveResponse, PC
      <4> QED BY <2>5, <3>2, <4>1, ContractFinish DEF ReceiveResponse, PC
    <3> QED BY <2>5, <3>1, <3>2 DEF ReceiveResponse
  <2>6. CASE ProviderFails(t)
    BY <2>6, EndedCall DEF ProviderFails
  <2>7. CASE ProviderTimesOut(t)
    BY <2>7, EndedCall DEF ProviderTimesOut
  <2> QED BY <1>1, <2>1, <2>2, <2>3, <2>4, <2>5, <2>6, <2>7 DEF ModelStep
<1>2. ASSUME NEW t \in Path, ReplStep(t) PROVE Goal
  <2>1. CASE EnterRepl(t)
    BY <2>1, QuietMove DEF EnterRepl, PC
  <2>2. CASE LeaveRepl(t)
    <3>1. CASE End(t, "ok")
      BY <2>2, <3>1, QuietEnd DEF LeaveRepl
    <3>2. CASE pc' = [pc EXCEPT ![t] = "ready"] /\ UNCHANGED verdict
      BY <2>2, <3>2, QuietMove DEF LeaveRepl, PC
    <3> QED BY <2>2, <3>1, <3>2 DEF LeaveRepl
  <2>3. CASE Query(t)
    <3>1. PICK i \in Free(t), k \in QueryKinds(t) :
              Spawn(t, {i}, k, "ready", FALSE)
      BY <2>3 DEF Query
    <3>2. {i} \in SUBSET Free(t) /\ pc[t] = "exec"
      BY <2>3 DEF Query
    <3> QED BY <3>1, <3>2, SpawnIsQuiet
  <2>4. CASE QueryBatched(t)
    BY <2>4, SpawnIsQuiet DEF QueryBatched
  <2>5. CASE ReturnCallback(t)
    BY <2>5, CallbackIsQuiet
  <2>6. CASE AbortRepl(t)
    BY <2>6, TrippingEnd DEF AbortRepl
  <2>7. CASE CloseRepl(t)
    BY <2>7, CloseIsAnEnd
  <2>8. CASE AbortLost(t)
    BY <2>8, LostIsALoss
  <2>9. CASE LeaveVariable(t)
    <3>1. ASSUME NEW v \in {"ok", "error"}, End(t, v) PROVE Goal
      BY <2>9, <3>1, QuietEnd DEF LeaveVariable
    <3>2. CASE pc' = [pc EXCEPT ![t] = "ready"] /\ UNCHANGED verdict
      BY <2>9, <3>2, QuietMove DEF LeaveVariable, PC
    <3> QED BY <2>9, <3>1, <3>2 DEF LeaveVariable
  <2> QED BY <1>2, <2>1, <2>2, <2>3, <2>4, <2>5, <2>6, <2>7, <2>8, <2>9 DEF ReplStep
<1>3. ASSUME NEW t \in Inner, NEW i \in Slots, QueryStep(t, i) PROVE Goal
  <2>1. Child(t, i) \in Path /\ Child(t, i) # Root
    <3>1. t \in Path /\ Len(t) \in Nat /\ Len(t) < MaxDepth
      BY PathIsSeq, LenProperties DEF Inner
    <3>2. Child(t, i) \in Seq(Slots) /\ Len(Child(t, i)) = Len(t) + 1
      BY <3>1, ChildProperties
    <3>3. Child(t, i) \in Path
      BY <3>1, <3>2, PathIsSeq, ConstantsAssumption
    <3> QED BY <3>1, <3>2, <3>3, RootIsPath
  <2>2. CASE AcquirePermit(t, i)
    BY <2>1, <2>2, QuietMove DEF AcquirePermit, PC
  <2>3. CASE StartQuery(t, i)
    BY <2>1, <2>3, QuietMove DEF StartQuery, PC
  <2>4. CASE ReturnQuery(t, i)
    <3>1. OpenCalls' = OpenCalls
      BY <2>1, <2>4, OpenCallsMove DEF ReturnQuery, IInv, OpenCalls, PC
    <3>2. RunStatus' = RunStatus
      BY <2>1, <2>4, RootIsPath, StatusKept DEF ReturnQuery, IInv, TypeOK
    <3> QED BY <2>4, <3>1, <3>2, ContractStutter DEF ReturnQuery, BudgetSeen
  <2> QED BY <1>3, <2>2, <2>3, <2>4 DEF QueryStep
<1>4. CASE Expire \/ UNCHANGED vars
  BY <1>4, ContractStutter DEF Expire, vars, OpenCalls, RunStatus, BudgetSeen
<1> QED BY <1>1, <1>2, <1>3, <1>4 DEF Next

(* Every behaviour of the tree is a behaviour of the contract. *)
THEOREM TreeImplementsContract == Spec => ImplementsContract
<1>1. ASSUME Init PROVE Contract!Init
  <2>1. RunStatus = "running" /\ calls = 0 /\ OpenCalls = {}
    BY <1>1, RootIsPath DEF Init, RunStatus, OpenCalls
  <2>2. ~Tripped
    BY <1>1, ConstantsAssumption DEF Init, Tripped
  <2>3. ~SomeLost
    BY <1>1 DEF Init, SomeLost
  <2> QED BY <2>1, <2>2, <2>3 DEF Contract!Init
<1> QED BY <1>1, ContractStep, TreeInvariant, PTL
        DEF Spec, ImplementsContract, Contract!Spec
=============================================================================
