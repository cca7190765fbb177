-------------------------- MODULE ManagedStack_proofs --------------------------
(***************************************************************************)
(* Proofs about ManagedStack: whatever a program's other threads stop and  *)
(* whatever dies by itself, no child runs that its manager does not know   *)
(* of, and what a failed start or an ended run had started is stopped, but *)
(* the child whose own start raised what its manager does not catch.       *)
(***************************************************************************)
EXTENDS ManagedStack, FiniteSetTheorems, TLAPS

-----------------------------------------------------------------------------
(* Types, by name.                                                         *)

Names == {"stop", "end", "check", "spawn", "record", "poll", "fail", "watch"}
Ops == [name : Names, service : Service]
Runs == [kind : Kind \cup {"idle", "gone"}, hand : Child \cup {None},
         mine : SUBSET (Service \X Child), lost : SUBSET (Service \X Child),
         started : SUBSET Service,
         failed : BOOLEAN, stopping : BOOLEAN, locked : BOOLEAN]
RunMaps == [Handler -> Runs]

(* The type invariant, with its sets by name. *)
LEMMA TypesNamed ==
  StackTypeOK <=> /\ spawned \in [Service -> 0..MaxSpawn]
                  /\ alive \in [Service -> SUBSET Child]
                  /\ recorded \in [Service -> Child \cup {None}]
                  /\ todo \in [Handler -> Seq(Ops)]
                  /\ run \in RunMaps
  BY DEF StackTypeOK, Ops, Names, Runs, RunMaps

(* The same after a step. *)
LEMMA TypesNamedNext ==
  ASSUME spawned' \in [Service -> 0..MaxSpawn], alive' \in [Service -> SUBSET Child],
         recorded' \in [Service -> Child \cup {None}], todo' \in [Handler -> Seq(Ops)],
         run' \in RunMaps
  PROVE  StackTypeOK'
  BY DEF StackTypeOK, Ops, Names, Runs, RunMaps

-----------------------------------------------------------------------------
(* Lists of operations.                                                    *)

(* An operation has its name and its service, and is no other. *)
LEMMA OpIs ==
  ASSUME NEW name \in Names, NEW s \in Service
  PROVE  /\ Op(name, s) \in Ops /\ Op(name, s).name = name /\ Op(name, s).service = s
         /\ \A o \in Ops : o = Op(name, s) <=> Is(o, name, s)
<1>1. Op(name, s) \in Ops /\ Op(name, s).name = name /\ Op(name, s).service = s
  BY DEF Op, Ops
<1>2. ASSUME NEW o \in Ops PROVE o = Op(name, s) <=> Is(o, name, s)
  BY DEF Op, Ops, Is
<1> QED
  BY <1>1, <1>2

(* The handler is at the first operation of its list. *)
LEMMA AtIs ==
  ASSUME todo \in [Handler -> Seq(Ops)], NEW h \in Handler, NEW name \in Names,
         NEW s \in Service
  PROVE  At(h, name, s) <=> Len(todo[h]) >= 1 /\ Is(todo[h][1], name, s)
<1>1. CASE todo[h] = <<>>
  BY <1>1 DEF At
<1>2. CASE todo[h] # <<>>
  <2>1. Len(todo[h]) >= 1 /\ Head(todo[h]) = todo[h][1] /\ todo[h][1] \in Ops
    BY <1>2
  <2> QED
    BY <1>2, <2>1, OpIs DEF At
<1> QED
  BY <1>1, <1>2

(* The rest of a list. *)
LEMMA RestOf ==
  ASSUME NEW ops \in Seq(Ops), Len(ops) >= 1
  PROVE  /\ Tail(ops) \in Seq(Ops) /\ Len(Tail(ops)) = Len(ops) - 1
         /\ \A i \in 1..Len(Tail(ops)) : Tail(ops)[i] = ops[i + 1]
         /\ ops[1] \in Ops
  OBVIOUS

(* A list with its first operation replaced. *)
LEMMA FirstReplaced ==
  ASSUME NEW ops \in Seq(Ops), Len(ops) >= 1, NEW o \in Ops
  PROVE  /\ <<o>> \o Tail(ops) \in Seq(Ops) /\ Len(<<o>> \o Tail(ops)) = Len(ops)
         /\ (<<o>> \o Tail(ops))[1] = o
         /\ \A i \in 2..Len(ops) : (<<o>> \o Tail(ops))[i] = ops[i]
<1>1. <<o>> \in Seq(Ops) /\ Len(<<o>>) = 1 /\ <<o>>[1] = o
  OBVIOUS
<1> DEFINE t == Tail(ops)
<1>2. t \in Seq(Ops) /\ Len(t) = Len(ops) - 1 /\ \A i \in 1..Len(t) : t[i] = ops[i + 1]
  OBVIOUS
<1> HIDE DEF t
<1>3. <<o>> \o t \in Seq(Ops) /\ Len(<<o>> \o t) = Len(ops) /\ (<<o>> \o t)[1] = o
  BY <1>1, <1>2
<1>4. ASSUME NEW i \in 2..Len(ops) PROVE (<<o>> \o t)[i] = ops[i]
  <2>1. (<<o>> \o t)[i] = t[i - 1] /\ i - 1 \in 1..Len(t)
    BY <1>1, <1>2
  <2> QED
    BY <1>2, <2>1
<1> QED
  BY <1>3, <1>4 DEF t

(* A list that a handler begins with: a child is stopped before the next   *)
(* is spawned, which is recorded and waited for.                           *)
FreshSpawn(ops, i, s) ==
    /\ i + 2 <= Len(ops)
    /\ Is(ops[i + 1], "record", s) /\ Is(ops[i + 2], "poll", s)
    /\ \/ i >= 2 /\ Halts(ops[i - 1], s)
       \/ i >= 3 /\ Is(ops[i - 1], "check", s) /\ Halts(ops[i - 2], s)
FreshRecord(ops, i, s) ==
    /\ i + 1 <= Len(ops) /\ Is(ops[i + 1], "poll", s)
    /\ i > 1 /\ Is(ops[i - 1], "spawn", s)
FreshAt(ops, i) ==
    /\ ops[i].name # "end"
    /\ ops[i].name = "spawn" => FreshSpawn(ops, i, ops[i].service)
    /\ ops[i].name = "record" => FreshRecord(ops, i, ops[i].service)
    /\ ops[i].name = "poll" => i > 1 /\ Is(ops[i - 1], "record", ops[i].service)
Fresh(ops) == ops \in Seq(Ops) /\ \A i \in 1..Len(ops) : FreshAt(ops, i)

(* Such lists one after the other are such a list. *)
LEMMA FreshConcat ==
  ASSUME NEW a, NEW b, Fresh(a), Fresh(b)
  PROVE  Fresh(a \o b)
<1> DEFINE c == a \o b
<1>1. /\ a \in Seq(Ops) /\ b \in Seq(Ops) /\ c \in Seq(Ops) /\ Len(c) = Len(a) + Len(b)
      /\ \A i \in 1..Len(a) : c[i] = a[i]
      /\ \A i \in 1..Len(b) : c[Len(a) + i] = b[i]
      /\ Len(a) \in Nat /\ Len(b) \in Nat
  BY DEF Fresh
<1> HIDE DEF c
<1> SUFFICES ASSUME NEW i \in 1..Len(c) PROVE FreshAt(c, i)
  BY <1>1 DEF Fresh, c
<1>2. CASE i \in 1..Len(a)
  <2>1. c[i] = a[i] /\ FreshAt(a, i)
    BY <1>1, <1>2 DEF Fresh
  <2>2. /\ i > 1 => c[i - 1] = a[i - 1]
        /\ i > 2 => c[i - 2] = a[i - 2]
        /\ i + 1 <= Len(a) => c[i + 1] = a[i + 1]
        /\ i + 2 <= Len(a) => c[i + 2] = a[i + 2]
    <3>1. /\ i > 1 => i - 1 \in 1..Len(a)
          /\ i > 2 => i - 2 \in 1..Len(a)
          /\ i + 1 <= Len(a) => i + 1 \in 1..Len(a)
          /\ i + 2 <= Len(a) => i + 2 \in 1..Len(a)
      BY <1>1, <1>2
    <3> QED
      BY <1>1, <3>1
  <2>3. ASSUME NEW s, FreshSpawn(a, i, s) PROVE FreshSpawn(c, i, s)
    BY <1>1, <1>2, <2>2, <2>3 DEF FreshSpawn
  <2>4. ASSUME NEW s, FreshRecord(a, i, s) PROVE FreshRecord(c, i, s)
    BY <1>1, <1>2, <2>2, <2>4 DEF FreshRecord
  <2> QED
    BY <2>1, <2>2, <2>3, <2>4 DEF FreshAt
<1>3. CASE i \notin 1..Len(a)
  <2> DEFINE n == Len(a)
             j == i - n
  <2>1. j \in 1..Len(b) /\ i = n + j /\ n \in Nat
    BY <1>1, <1>3
  <2> HIDE DEF j, n
  <2>2. \A k \in 1..Len(b) : c[n + k] = b[k]
    BY <1>1 DEF n
  <2>3. c[i] = b[j] /\ FreshAt(b, j)
    BY <1>1, <2>1, <2>2 DEF Fresh
  <2>4. j > 1 => c[i - 1] = b[j - 1]
    <3>1. j > 1 => j - 1 \in 1..Len(b) /\ i - 1 = n + (j - 1)
      BY <1>1, <2>1
    <3> QED
      BY <2>2, <3>1
  <2>5. j > 2 => c[i - 2] = b[j - 2]
    <3>1. j > 2 => j - 2 \in 1..Len(b) /\ i - 2 = n + (j - 2)
      BY <1>1, <2>1
    <3> QED
      BY <2>2, <3>1
  <2>6. j + 1 <= Len(b) => c[i + 1] = b[j + 1]
    <3>1. j + 1 <= Len(b) => j + 1 \in 1..Len(b) /\ i + 1 = n + (j + 1)
      BY <1>1, <2>1
    <3> QED
      BY <2>2, <3>1
  <2>7. j + 2 <= Len(b) => c[i + 2] = b[j + 2]
    <3>1. j + 2 <= Len(b) => j + 2 \in 1..Len(b) /\ i + 2 = n + (j + 2)
      BY <1>1, <2>1
    <3> QED
      BY <2>2, <3>1
  <2>8. Len(c) = n + Len(b)
    BY <1>1 DEF n
  <2>9. ASSUME NEW s, FreshSpawn(b, j, s) PROVE FreshSpawn(c, i, s)
    <3>1. /\ j + 2 <= Len(b) /\ j + 1 <= Len(b) /\ i + 2 <= Len(c)
          /\ (j >= 2 => i >= 2 /\ j > 1) /\ (j >= 3 => i >= 3 /\ j > 2 /\ j > 1)
      <4>1. j + 2 <= Len(b)
        BY <2>9 DEF FreshSpawn
      <4>2. Len(b) \in Nat
        BY <1>1
      <4>3. j \in Nat /\ n \in Nat /\ i = n + j /\ Len(c) = n + Len(b)
        BY ONLY <2>1, <2>8, <4>2
      <4> QED
        BY ONLY <4>1, <4>2, <4>3
    <3>2. Is(c[i + 1], "record", s) /\ Is(c[i + 2], "poll", s)
      BY <2>6, <2>7, <2>9, <3>1 DEF FreshSpawn
    <3>3. \/ i >= 2 /\ Halts(c[i - 1], s)
          \/ i >= 3 /\ Is(c[i - 1], "check", s) /\ Halts(c[i - 2], s)
      BY <2>4, <2>5, <2>9, <3>1 DEF FreshSpawn
    <3> QED
      BY <3>1, <3>2, <3>3 DEF FreshSpawn
  <2>10. ASSUME NEW s, FreshRecord(b, j, s) PROVE FreshRecord(c, i, s)
    BY <1>1, <2>1, <2>4, <2>6, <2>8, <2>10 DEF FreshRecord
  <2>11. (j > 1 => i > 1) /\ j \in Int /\ i \in Int
    BY <1>1, <2>1
  <2> DEFINE s == b[j].service
  <2>12. c[i].service = s /\ c[i].name = b[j].name
    BY <2>3
  <2>13. /\ b[j].name # "end" /\ (b[j].name = "spawn" => FreshSpawn(b, j, s))
         /\ (b[j].name = "record" => FreshRecord(b, j, s))
         /\ (b[j].name = "poll" => j > 1 /\ Is(b[j - 1], "record", s))
    BY <2>3 DEF FreshAt
  <2> HIDE DEF s
  <2> QED
    BY <2>4, <2>9, <2>10, <2>11, <2>12, <2>13 DEF FreshAt
<1> QED
  BY <1>2, <1>3

(* Such a list is in order. *)
LEMMA FreshInOrder ==
  ASSUME NEW ops, Fresh(ops)
  PROVE  InOrder(ops)
  BY DEF Fresh, FreshAt, FreshSpawn, FreshRecord, InOrder, Stopped

-----------------------------------------------------------------------------
(* The lists of the handlers.                                              *)

(* It starts no other services than these, and does not watch. *)
Spawns(ops, S) ==
    \A i \in 1..Len(ops) :
        ops[i].name # "watch" /\ (ops[i].name = "spawn" => ops[i].service \in S)
HaltsOne(ops, s) == \E i \in 1..Len(ops) : Halts(ops[i], s)

(* A property of every operation, and one of some operation, of two lists  *)
(* one after the other.                                                    *)
LEMMA OfConcat ==
  ASSUME NEW a \in Seq(Ops), NEW b \in Seq(Ops)
  PROVE  /\ OnlyHalts(a) /\ OnlyHalts(b) => OnlyHalts(a \o b)
         /\ \A S : Spawns(a, S) /\ Spawns(b, S) => Spawns(a \o b, S)
         /\ \A s : HaltsOne(a, s) \/ HaltsOne(b, s) => HaltsOne(a \o b, s)
<1> DEFINE c == a \o b
<1>1. /\ Len(c) = Len(a) + Len(b) /\ Len(a) \in Nat /\ Len(b) \in Nat
      /\ \A i \in 1..Len(a) : c[i] = a[i]
      /\ \A i \in 1..Len(b) : c[Len(a) + i] = b[i]
  OBVIOUS
<1> HIDE DEF c
<1>2. \A i \in 1..Len(c) : \/ i \in 1..Len(a) /\ c[i] = a[i]
                           \/ i - Len(a) \in 1..Len(b) /\ c[i] = b[i - Len(a)]
  <2> SUFFICES ASSUME NEW i \in 1..Len(c), i \notin 1..Len(a)
               PROVE  i - Len(a) \in 1..Len(b) /\ c[i] = b[i - Len(a)]
    BY <1>1
  <2>1. i - Len(a) \in 1..Len(b) /\ Len(a) + (i - Len(a)) = i
    BY <1>1
  <2>2. c[Len(a) + (i - Len(a))] = b[i - Len(a)]
    BY ONLY <1>1, <2>1
  <2> QED
    BY <2>1, <2>2
<1>3. OnlyHalts(a) /\ OnlyHalts(b) => OnlyHalts(c)
  BY <1>2 DEF OnlyHalts
<1>4. ASSUME NEW S, Spawns(a, S), Spawns(b, S) PROVE Spawns(c, S)
  BY <1>2, <1>4 DEF Spawns
<1>5. ASSUME NEW s, HaltsOne(a, s) PROVE HaltsOne(c, s)
  <2>1. PICK i \in 1..Len(a) : Halts(a[i], s)
    BY <1>5 DEF HaltsOne
  <2>2. i \in 1..Len(c) /\ c[i] = a[i]
    BY <1>1
  <2> QED
    BY <2>1, <2>2 DEF HaltsOne
<1>6. ASSUME NEW s, HaltsOne(b, s) PROVE HaltsOne(c, s)
  <2>1. PICK i \in 1..Len(b) : Halts(b[i], s)
    BY <1>6 DEF HaltsOne
  <2>2. Len(a) + i \in 1..Len(c) /\ c[Len(a) + i] = b[i]
    BY <1>1
  <2> QED
    BY <2>1, <2>2 DEF HaltsOne
<1> QED
  BY <1>3, <1>4, <1>5, <1>6 DEF c

(* The stop of a service. *)
LEMMA StopList ==
  ASSUME NEW s \in Service
  PROVE  Fresh(Stop(s)) /\ OnlyHalts(Stop(s)) /\ HaltsOne(Stop(s), s) /\ Spawns(Stop(s), {})
<1>1. Op("stop", s) \in Ops /\ Is(Op("stop", s), "stop", s)
  BY OpIs DEF Names
<1>2. /\ Stop(s) \in Seq(Ops) /\ Len(Stop(s)) = 1 /\ Stop(s)[1] = Op("stop", s)
      /\ 1 \in 1..Len(Stop(s))
      /\ \A i \in 1..Len(Stop(s)) : Is(Stop(s)[i], "stop", s)
  BY <1>1 DEF Stop
<1>3. Fresh(Stop(s))
  BY <1>2 DEF Fresh, FreshAt, Is
<1>4. OnlyHalts(Stop(s)) /\ Spawns(Stop(s), {})
  BY <1>2 DEF OnlyHalts, Spawns, Is
<1>5. HaltsOne(Stop(s), s)
  BY <1>2 DEF HaltsOne, Halts, Is
<1> QED
  BY <1>3, <1>4, <1>5

(* The start of a service. *)
LEMMA StartList ==
  ASSUME NEW s \in Service
  PROVE  /\ Fresh(Start(s)) /\ Spawns(Start(s), {s})
         /\ \A i \in 1..Len(Start(s)) : Start(s)[i].name = "poll" => i = Len(Start(s))
<1> DEFINE l == Start(s)
<1>1. \A name \in Names : Op(name, s) \in Ops /\ Is(Op(name, s), name, s)
  BY OpIs
<1>2. /\ l \in Seq(Ops) /\ Len(l) = 5
      /\ \/ Is(l[1], "stop", s) /\ Is(l[2], "check", s)
         \/ Is(l[1], "check", s) /\ Is(l[2], "stop", s)
      /\ Is(l[3], "spawn", s) /\ Is(l[4], "record", s) /\ Is(l[5], "poll", s)
  BY <1>1 DEF Start, Names
<1> HIDE DEF l
<1>3. ASSUME NEW i \in 1..5
      PROVE  /\ FreshAt(l, i) /\ (l[i].name = "spawn" => l[i].service = s)
             /\ l[i].name # "watch"
             /\ (l[i].name = "poll" => i = 5)
  <2>1. i = 1 \/ i = 2 \/ i = 3 \/ i = 4 \/ i = 5
    OBVIOUS
  <2>2. CASE i \in {1, 2}
    BY <1>2, <2>2 DEF FreshAt, Is
  <2>3. CASE i = 3
    BY <1>2, <2>3 DEF FreshAt, FreshSpawn, Is, Halts
  <2>4. CASE i = 4
    BY <1>2, <2>4 DEF FreshAt, FreshRecord, Is
  <2>5. CASE i = 5
    BY <1>2, <2>5 DEF FreshAt, Is
  <2> QED
    BY <2>1, <2>2, <2>3, <2>4, <2>5
<1>4. Fresh(l)
  BY <1>2, <1>3 DEF Fresh
<1>5. Spawns(l, {s}) /\ \A i \in 1..Len(l) : l[i].name = "poll" => i = Len(l)
  BY <1>2, <1>3 DEF Spawns
<1> QED
  BY <1>4, <1>5 DEF l

(* The services. *)
LEMMA Services == Service = {"knowledge", "llama", "proxy", "webui"}
  BY DEF Service

(* What stops the stack stops all that the control screen starts. *)
LEMMA StopStackList ==
  /\ Fresh(StopStack) /\ OnlyHalts(StopStack) /\ Spawns(StopStack, {})
  /\ \A s \in Service : s # "knowledge" => HaltsOne(StopStack, s)
<1> DEFINE w == Stop("webui")
           p == Stop("proxy")
           l == Stop("llama")
<1>1. /\ Fresh(w) /\ OnlyHalts(w) /\ Spawns(w, {}) /\ HaltsOne(w, "webui")
      /\ Fresh(p) /\ OnlyHalts(p) /\ Spawns(p, {}) /\ HaltsOne(p, "proxy")
      /\ Fresh(l) /\ OnlyHalts(l) /\ Spawns(l, {}) /\ HaltsOne(l, "llama")
  BY Services, StopList
<1>2. StopStack = (w \o p) \o l
  BY DEF StopStack
<1> HIDE DEF w, p, l
<1>3. w \in Seq(Ops) /\ p \in Seq(Ops) /\ l \in Seq(Ops)
  BY <1>1 DEF Fresh
<1> DEFINE v == w \o p
<1>4. /\ Fresh(v) /\ OnlyHalts(v) /\ Spawns(v, {})
      /\ HaltsOne(v, "webui") /\ HaltsOne(v, "proxy") /\ v \in Seq(Ops)
  BY <1>1, <1>3, FreshConcat, OfConcat
<1> HIDE DEF v
<1>5. /\ Fresh(v \o l) /\ OnlyHalts(v \o l) /\ Spawns(v \o l, {})
      /\ HaltsOne(v \o l, "webui") /\ HaltsOne(v \o l, "proxy") /\ HaltsOne(v \o l, "llama")
  BY <1>1, <1>3, <1>4, FreshConcat, OfConcat
<1> QED
  BY <1>2, <1>5, Services DEF v

(* Two lists that only stop. *)
LEMMA StopsConcat ==
  ASSUME NEW a, NEW b, Fresh(a), Fresh(b), OnlyHalts(a), OnlyHalts(b)
  PROVE  /\ Fresh(a \o b) /\ OnlyHalts(a \o b)
         /\ \A s : HaltsOne(a, s) \/ HaltsOne(b, s) => HaltsOne(a \o b, s)
<1>1. a \in Seq(Ops) /\ b \in Seq(Ops)
  BY DEF Fresh
<1> QED
  BY <1>1, FreshConcat, OfConcat

(* The empty list. *)
LEMMA EmptyList == Fresh(<<>>) /\ OnlyHalts(<<>>)
  BY DEF Fresh, OnlyHalts

(* What rlm-cowork stops includes Open WebUI and all it has started. *)
LEMMA StopStartedList ==
  ASSUME NEW started \in SUBSET Service
  PROVE  /\ Fresh(StopStarted(started)) /\ OnlyHalts(StopStarted(started))
         /\ \A s \in started \cup {"webui"} : HaltsOne(StopStarted(started), s)
<1> DEFINE w == Stop("webui")
           p == IF "proxy" \in started THEN Stop("proxy") ELSE <<>>
           l == IF "llama" \in started THEN Stop("llama") ELSE <<>>
           k == IF "knowledge" \in started THEN Stop("knowledge") ELSE <<>>
<1>1. /\ Fresh(w) /\ OnlyHalts(w) /\ HaltsOne(w, "webui")
      /\ Fresh(p) /\ OnlyHalts(p) /\ ("proxy" \in started => HaltsOne(p, "proxy"))
      /\ Fresh(l) /\ OnlyHalts(l) /\ ("llama" \in started => HaltsOne(l, "llama"))
      /\ Fresh(k) /\ OnlyHalts(k) /\ ("knowledge" \in started => HaltsOne(k, "knowledge"))
  BY Services, StopList, EmptyList
<1>2. StopStarted(started) = ((w \o p) \o l) \o k
  BY DEF StopStarted
<1> HIDE DEF w, p, l, k
<1> DEFINE v == w \o p
           u == v \o l
           t == u \o k
<1>3. /\ Fresh(v) /\ OnlyHalts(v) /\ HaltsOne(v, "webui")
      /\ ("proxy" \in started => HaltsOne(v, "proxy"))
  BY <1>1, StopsConcat
<1> HIDE DEF v
<1>4. /\ Fresh(u) /\ OnlyHalts(u) /\ HaltsOne(u, "webui")
      /\ ("proxy" \in started => HaltsOne(u, "proxy"))
      /\ ("llama" \in started => HaltsOne(u, "llama"))
  BY <1>1, <1>3, StopsConcat
<1> HIDE DEF u
<1>5. /\ Fresh(t) /\ OnlyHalts(t) /\ HaltsOne(t, "webui")
      /\ ("proxy" \in started => HaltsOne(t, "proxy"))
      /\ ("llama" \in started => HaltsOne(t, "llama"))
      /\ ("knowledge" \in started => HaltsOne(t, "knowledge"))
  BY <1>1, <1>4, StopsConcat
<1>6. StopStarted(started) = t
  BY <1>2 DEF t, u, v
<1> HIDE DEF t
<1> QED
  BY <1>5, <1>6, Services

(* Several starts one after the other. *)
LEMMA StartsConcat ==
  ASSUME NEW a, NEW b, NEW S, Fresh(a), Fresh(b), Spawns(a, S), Spawns(b, S)
  PROVE  Fresh(a \o b) /\ Spawns(a \o b, S)
<1>1. a \in Seq(Ops) /\ b \in Seq(Ops)
  BY DEF Fresh
<1> QED
  BY <1>1, FreshConcat, OfConcat

(* The start of the stack. *)
LEMMA StartStackList == Fresh(StartStack) /\ Spawns(StartStack, Service \ {"knowledge"})
<1> DEFINE S == Service \ {"knowledge"}
           c == StopStack
           l == Start("llama")
           p == Start("proxy")
           w == Start("webui")
<1>1. Fresh(c) /\ Spawns(c, S)
  BY StopStackList DEF Spawns
<1>2. /\ Fresh(l) /\ Spawns(l, {"llama"})
      /\ Fresh(p) /\ Spawns(p, {"proxy"})
      /\ Fresh(w) /\ Spawns(w, {"webui"})
  BY StartList, Services
<1>3. StartStack = ((c \o l) \o p) \o w
  BY DEF StartStack
<1>4. "llama" \in S /\ "proxy" \in S /\ "webui" \in S
  BY Services
<1> HIDE DEF c, l, p, w, S
<1>5. Spawns(l, S) /\ Spawns(p, S) /\ Spawns(w, S)
  BY <1>2, <1>4 DEF Spawns
<1> DEFINE v == c \o l
           u == v \o p
<1>6. Fresh(v) /\ Spawns(v, S)
  BY <1>1, <1>2, <1>5, StartsConcat
<1> HIDE DEF v
<1>7. Fresh(u) /\ Spawns(u, S)
  BY <1>2, <1>5, <1>6, StartsConcat
<1> HIDE DEF u
<1>8. Fresh(u \o w) /\ Spawns(u \o w, S)
  BY <1>2, <1>5, <1>7, StartsConcat
<1> QED
  BY <1>3, <1>8 DEF u, v, S

(* The work of rlm-cowork. *)
LEMMA CoworkList ==
  ASSUME NEW knowledge \in BOOLEAN, NEW model \in BOOLEAN
  PROVE  Fresh(Cowork(knowledge, model))
<1> DEFINE n == Start("knowledge")
           l == Start("llama")
           p == Start("proxy")
           w == Start("webui")
           e == <<Op("watch", "webui")>>
           k == IF knowledge THEN n ELSE <<>>
           m == IF model THEN l \o p ELSE <<>>
<1>1. Fresh(n) /\ Fresh(l) /\ Fresh(p) /\ Fresh(w)
  BY StartList, Services
<1>2. Fresh(e)
  <2>1. Op("watch", "webui") \in Ops /\ Is(Op("watch", "webui"), "watch", "webui")
    BY OpIs, Services DEF Names
  <2>2. e \in Seq(Ops) /\ Len(e) = 1 /\ \A i \in 1..Len(e) : e[i].name = "watch"
    BY <2>1 DEF Is
  <2> QED
    BY <2>2 DEF Fresh, FreshAt
<1>3. Cowork(knowledge, model) = ((k \o m) \o w) \o e
  BY DEF Cowork
<1> HIDE DEF n, l, p, w, e
<1>4. Fresh(k) /\ Fresh(l \o p)
  BY <1>1, EmptyList, FreshConcat
<1>5. Fresh(m)
  BY <1>4, EmptyList
<1> HIDE DEF k, m
<1>6. Fresh(k \o m)
  BY <1>4, <1>5, FreshConcat
<1>7. Fresh((k \o m) \o w)
  BY <1>1, <1>6, FreshConcat
<1>8. Fresh(((k \o m) \o w) \o e)
  BY <1>2, <1>7, FreshConcat
<1> QED
  BY <1>3, <1>8

(* What a handler is asked to do. *)
LEMMA WorkList ==
  ASSUME NEW kind \in Kind, NEW ops \in Work(kind)
  PROVE  /\ Fresh(ops)
         /\ kind \notin Starts => OnlyHalts(ops)
         /\ kind # "cowork" => Spawns(ops, Service)
         /\ kind = "start_stack" => Spawns(ops, Service \ {"knowledge"})
         /\ kind = "start_proxy" =>
                \A i \in 1..Len(ops) : ops[i].name = "poll" => i = Len(ops)
<1>1. CASE kind = "start_stack"
  <2>1. ops = StartStack
    BY <1>1 DEF Work
  <2> QED
    BY <1>1, <2>1, StartStackList DEF Starts, Spawns
<1>2. CASE kind = "stop_stack"
  <2>1. ops = StopStack
    BY <1>2 DEF Work
  <2> QED
    BY <1>2, <2>1, StopStackList DEF Spawns
<1>3. CASE kind = "start_proxy"
  <2>1. ops = Start("proxy")
    BY <1>3 DEF Work
  <2> QED
    BY <1>3, <2>1, StartList, Services DEF Starts, Spawns
<1>4. CASE kind = "stop_proxy"
  <2>1. ops = Stop("proxy")
    BY <1>4 DEF Work
  <2> QED
    BY <1>4, <2>1, StopList, Services DEF Spawns
<1>5. CASE kind = "cowork"
  <2>1. PICK k \in BOOLEAN, m \in BOOLEAN : ops = Cowork(k, m)
    BY <1>5 DEF Work
  <2> QED
    BY <1>5, <2>1, CoworkList DEF Starts
<1> QED
  BY <1>1, <1>2, <1>3, <1>4, <1>5 DEF Kind

(* What a handler that fails goes on with. *)
LEMMA CleanUpList ==
  ASSUME NEW r \in Runs
  PROVE  /\ Fresh(CleanUp(r)) /\ OnlyHalts(CleanUp(r))
         /\ r.kind = "start_stack" =>
                \A s \in Service \ {"knowledge"} : HaltsOne(CleanUp(r), s)
         /\ r.kind = "cowork" => \A s \in r.started \cup {"webui"} : HaltsOne(CleanUp(r), s)
<1>1. r.started \in SUBSET Service
  BY DEF Runs
<1>2. CASE r.kind = "start_stack"
  <2>1. CleanUp(r) = StopStack
    BY <1>2 DEF CleanUp
  <2> QED
    BY <1>2, <2>1, StopStackList
<1>3. CASE r.kind = "cowork"
  <2>1. CleanUp(r) = StopStarted(r.started)
    BY <1>3 DEF CleanUp
  <2> QED
    BY <1>1, <1>3, <2>1, StopStartedList
<1>4. CASE r.kind \notin {"start_stack", "cowork"}
  <2>1. CleanUp(r) = <<>>
    BY <1>4 DEF CleanUp
  <2> QED
    BY <1>4, <2>1, EmptyList
<1> QED
  BY <1>2, <1>3, <1>4

-----------------------------------------------------------------------------
(* Who acts.                                                               *)

(* A handler that runs, and has something to do, is where its list begins. *)
LEMMA OnlyHaltsAt ==
  ASSUME todo \in [Handler -> Seq(Ops)], NEW h \in Handler, OnlyHalts(todo[h]),
         NEW name \in Names, NEW s \in Service, At(h, name, s)
  PROVE  name \in {"stop", "end"}
<1>1. Len(todo[h]) >= 1 /\ Is(todo[h][1], name, s) /\ Len(todo[h]) \in Nat
  BY AtIs
<1> QED
  BY <1>1 DEF OnlyHalts, Is

(* One handler of a program starts services. *)
LEMMA OnlyOneStarts ==
  ASSUME OneStarter, program \in Programs, NEW h \in Handler, NEW g \in Handler,
         RoleOK(h), RoleOK(g), run[h].kind \in Starts, run[g].kind \in Starts
  PROVE  h = g
<1>1. run[h].kind \in program[h] /\ run[g].kind \in program[g]
  BY DEF RoleOK, Starts
<1> QED
  BY <1>1 DEF OneStarter

(* The starter's handler is rlm-cowork's only in a program of its own. *)
LEMMA CoworkIsAlone ==
  ASSUME OneStarter, program \in Programs, NEW h \in Handler,
         RoleOK(h), run[h].kind = "cowork"
  PROVE  program[h] = {"cowork"}
  BY DEF OneStarter, RoleOK

(* A handler that does nothing keeps its role. *)
LEMMA KeepsRole ==
  ASSUME NEW g \in Handler, RoleOK(g), program' = program,
         todo'[g] = todo[g], run'[g] = run[g]
  PROVE  RoleOK(g)'
  BY DEF RoleOK, Ending, OnlyHalts

(* What a run owes an end to, while nothing of it is started or lost. *)
LEMMA OwedSame ==
  ASSUME NEW q, NEW r, q.kind = r.kind, q.mine = r.mine, q.lost = r.lost
  PROVE  Owed(q) = Owed(r)
  BY DEF Owed, Escaped

(* A list stays in order when children die. *)
LEMMA StaysInOrder ==
  ASSUME NEW ops \in Seq(Ops), InOrder(ops), \A s \in Service : alive'[s] \subseteq alive[s]
  PROVE  InOrder(ops)'
<1>1. \A i \in 1..Len(ops) : ops[i].service \in Service
  <2>1. \A i \in 1..Len(ops) : ops[i] \in Ops
    OBVIOUS
  <2> QED
    BY <2>1 DEF Ops
<1>2. ASSUME NEW s \in Service, NEW i \in 1..Len(ops), Stopped(ops, i, s)
      PROVE  Stopped(ops, i, s)'
  BY <1>2 DEF Stopped
<1> QED
  BY <1>1, <1>2 DEF InOrder

(* A starter that does nothing while children die. *)
LEMMA KeepsStarter ==
  ASSUME StackTypeOK, NEW g \in Handler, StarterOK(g), todo'[g] = todo[g], run'[g] = run[g],
         recorded' = recorded, \A s \in Service : alive'[s] \subseteq alive[s]
  PROVE  StarterOK(g)'
<1> SUFFICES ASSUME run[g].kind \in Starts PROVE StarterOK(g)'
  BY DEF StarterOK
<1>1. todo[g] \in Seq(Ops) /\ run[g] \in Runs
  BY TypesNamed DEF RunMaps
<1>2. InOrder(todo[g]) /\ HoldsRecorded(g) /\ Accounted(g) /\ OfItsKind(g)
  BY DEF StarterOK
<1>3. InOrder(todo[g])'
  BY <1>1, <1>2, StaysInOrder
<1>4. HoldsRecorded(g)'
  BY <1>2 DEF HoldsRecorded, At
<1>5. Accounted(g)'
  <2>1. \A p \in Owed(run[g]) : p[1] \in Service
    BY <1>1 DEF Runs, Owed
  <2> QED
    BY <1>2, <2>1 DEF Accounted, At, Ending
<1>6. OfItsKind(g)'
  BY <1>2 DEF OfItsKind
<1> QED
  BY <1>3, <1>4, <1>5, <1>6 DEF StarterOK

(* The children that run, if only one handler starts any. *)
KnownBy(h) ==
    \A s \in Service :
        alive[s] \subseteq {IF At(h, "record", s) THEN run[h].hand ELSE recorded[s]}

(* What the managers know is what they know by the starter. *)
LEMMA KnownToOne ==
  ASSUME todo \in [Handler -> Seq(Ops)], NEW h \in Handler, Known,
         \A g \in Handler : g # h => OnlyHalts(todo[g])
  PROVE  KnownBy(h)
<1>1. \A g \in Handler, s \in Service : g # h => ~At(g, "record", s)
  BY OnlyHaltsAt DEF Names
<1> QED
  BY <1>1 DEF Known, KnownBy

(* The same after a step. *)
LEMMA KnownToOneNext ==
  ASSUME todo' \in [Handler -> Seq(Ops)], NEW h \in Handler, KnownBy(h)',
         \A g \in Handler : g # h => OnlyHalts(todo'[g])
  PROVE  Known'
<1>1. ASSUME NEW g \in Handler, NEW s \in Service, g # h PROVE ~At(g, "record", s)'
  <2>1. CASE todo'[g] = <<>>
    BY <2>1 DEF At
  <2>2. CASE todo'[g] # <<>>
    <3>1. /\ Head(todo'[g]) = todo'[g][1] /\ todo'[g] \in Seq(Ops) /\ Len(todo'[g]) >= 1
          /\ 1 \in 1..Len(todo'[g])
      BY <2>2
    <3>2. todo'[g][1].name \in {"stop", "end"}
      BY <1>1, <3>1 DEF OnlyHalts
    <3> QED
      BY <3>1, <3>2 DEF At, Op
  <2> QED
    BY <2>1, <2>2
<1> QED
  BY <1>1 DEF Known, KnownBy

(* A step of the starter. *)
LEMMA StarterStep ==
  ASSUME OneStarter, StackIInv, NEW h \in Handler, run[h].kind \in Starts,
         program' = program, StackTypeOK',
         \A g \in Handler : g # h => todo'[g] = todo[g] /\ run'[g] = run[g],
         RoleOK(h)', NoneGone => KnownBy(h)' /\ StarterOK(h)'
  PROVE  StackIInv'
<1>1. /\ StackTypeOK /\ program \in Programs /\ \A g \in Handler : RoleOK(g)
      /\ todo' \in [Handler -> Seq(Ops)]
  BY DEF StackIInv, StackTypeOK, Ops, Names
<1>2. \A g \in Handler : g # h => run[g].kind \notin Starts
  BY <1>1, OnlyOneStarts
<1>3. \A g \in Handler : g # h => RoleOK(g)'
  BY <1>1, KeepsRole
<1>4. \A g \in Handler : g # h => OnlyHalts(todo'[g]) /\ StarterOK(g)'
  BY <1>1, <1>2 DEF RoleOK, StarterOK
<1>5. NoneGone' => NoneGone
  BY DEF NoneGone, Starts
<1>6. NoneGone' => Known'
  BY <1>1, <1>4, <1>5, KnownToOneNext
<1> QED
  BY <1>1, <1>3, <1>4, <1>5, <1>6 DEF StackIInv

(* A step of a handler that stops, or is asked to do something. *)
LEMMA HelperStep ==
  ASSUME StackIInv, NEW h \in Handler, run[h].kind # "gone", OnlyHalts(todo[h]),
         program' = program, StackTypeOK', recorded' = recorded,
         \A s \in Service : alive'[s] \subseteq alive[s],
         \A g \in Handler : g # h => todo'[g] = todo[g] /\ run'[g] = run[g],
         \A s \in Service : ~At(h, "record", s)',
         RoleOK(h)', NoneGone => StarterOK(h)'
  PROVE  StackIInv'
<1>1. /\ StackTypeOK /\ program \in Programs /\ \A g \in Handler : RoleOK(g)
      /\ todo \in [Handler -> Seq(Ops)]
  BY TypesNamed DEF StackIInv
<1>2. \A g \in Handler : g # h => RoleOK(g)'
  BY <1>1, KeepsRole
<1>3. NoneGone' => NoneGone
  BY DEF NoneGone
<1>4. NoneGone => \A g \in Handler : g # h => StarterOK(g)'
  BY <1>1, KeepsStarter DEF StackIInv
<1>5. \A s \in Service : ~At(h, "record", s)
  BY <1>1, OnlyHaltsAt DEF Names
<1>6. \A g \in Handler, s \in Service : g # h => At(g, "record", s)' = At(g, "record", s)
  BY DEF At
<1>7. NoneGone => Known'
  BY <1>5, <1>6 DEF StackIInv, Known
<1> QED
  BY <1>1, <1>2, <1>3, <1>4, <1>7 DEF StackIInv

-----------------------------------------------------------------------------
(* How a list goes on.                                                     *)

(* The operations of a list have services. *)
LEMMA OpTyped ==
  ASSUME NEW ops \in Seq(Ops), NEW i \in 1..Len(ops)
  PROVE  ops[i].service \in Service /\ ops[i].name \in Names
<1>1. ops[i] \in Ops
  OBVIOUS
<1> QED
  BY <1>1 DEF Ops

(* The rest of a list is in order when its first operation is done: a stop *)
(* leaves no child, and a check spawns none.                               *)
LEMMA RestInOrder ==
  ASSUME NEW ops \in Seq(Ops), Len(ops) >= 1, InOrder(ops),
         ops[1].name \in {"stop", "end"} => alive'[ops[1].service] = {},
         ops[1].name = "check" =>
             \A s \in Service : alive'[s] \subseteq alive[s]
  PROVE  InOrder(Tail(ops))'
<1> DEFINE t == Tail(ops)
<1>1. /\ t \in Seq(Ops) /\ Len(t) = Len(ops) - 1 /\ \A i \in 1..Len(t) : t[i] = ops[i + 1]
      /\ Len(ops) \in Nat
  BY RestOf
<1> HIDE DEF t
<1>2. ASSUME NEW i \in 1..Len(t), NEW s \in Service, Stopped(ops, i + 1, s)
      PROVE  Stopped(t, i, s)'
  <2>1. /\ t[i] = ops[i + 1]
        /\ i >= 2 => t[i - 1] = ops[i]
        /\ i >= 3 => t[i - 2] = ops[i - 1]
    <3>1. /\ i >= 2 => i - 1 \in 1..Len(t) /\ (i - 1) + 1 = i
          /\ i >= 3 => i - 2 \in 1..Len(t) /\ (i - 2) + 1 = i - 1
      BY <1>1
    <3>2. /\ i >= 2 => t[i - 1] = ops[(i - 1) + 1]
          /\ i >= 3 => t[i - 2] = ops[(i - 2) + 1]
      BY <1>1, <3>1
    <3> QED
      BY <1>1, <3>1, <3>2
  <2>2. \/ i + 1 = 2 /\ Is(ops[1], "check", s) /\ alive[s] = {}
        \/ Halts(ops[(i + 1) - 1], s)
        \/ i + 1 >= 3 /\ Is(ops[(i + 1) - 1], "check", s) /\ Halts(ops[(i + 1) - 2], s)
    BY <1>2, <1>1 DEF Stopped
  <2>3. (i + 1) - 1 = i /\ (i + 1) - 2 = i - 1 /\ i \in Nat /\ i >= 1
    BY <1>1
  <2>4. CASE i = 1
    BY <2>2, <2>3, <2>4 DEF Stopped, Is, Halts
  <2>5. CASE i = 2
    <3>1. \/ Halts(ops[2], s)
          \/ Is(ops[2], "check", s) /\ Halts(ops[1], s)
      BY <2>2, <2>3, <2>5
    <3>2. t[1] = ops[2]
      BY <2>1, <2>5
    <3>3. Halts(ops[1], s) => alive'[s] = {}
      BY DEF Halts
    <3>4. Halts(t[1], s) \/ (Is(t[1], "check", s) /\ alive'[s] = {})
      BY <3>1, <3>2, <3>3
    <3> QED
      BY <2>5, <3>4 DEF Stopped
  <2>6. CASE i >= 3
    <3>1. \/ Halts(t[i - 1], s)
          \/ Is(t[i - 1], "check", s) /\ Halts(t[i - 2], s)
      BY <2>1, <2>2, <2>3, <2>6
    <3> QED
      BY <2>3, <2>6, <3>1 DEF Stopped
  <2> QED
    BY <2>3, <2>4, <2>5, <2>6
<1>3. ASSUME NEW i \in 1..Len(t)
      PROVE  LET s == t[i].service IN
               /\ t[i].name # "end"
               /\ t[i].name = "spawn" =>
                    /\ i + 2 <= Len(t)
                    /\ Is(t[i + 1], "record", s) /\ Is(t[i + 2], "poll", s)
                    /\ Stopped(t, i, s)'
               /\ t[i].name = "record" =>
                    /\ i + 1 <= Len(t) /\ Is(t[i + 1], "poll", s)
                    /\ i > 1 => Is(t[i - 1], "spawn", s)
               /\ t[i].name = "poll" /\ i > 1 => Is(t[i - 1], "record", s)
  <2> DEFINE j == i + 1
             s == ops[j].service
  <2>1. t[i] = ops[j] /\ j \in 1..Len(ops) /\ s \in Service
    BY <1>1, OpTyped
  <2>2. /\ j + 1 <= Len(ops) => i + 1 <= Len(t) /\ t[i + 1] = ops[j + 1]
        /\ j + 2 <= Len(ops) => i + 2 <= Len(t) /\ t[i + 2] = ops[j + 2]
        /\ i > 1 => t[i - 1] = ops[j - 1]
        /\ j > 1 /\ j # 1
    <3>1. /\ j + 1 <= Len(ops) => i + 1 \in 1..Len(t) /\ (i + 1) + 1 = j + 1
          /\ j + 2 <= Len(ops) => i + 2 \in 1..Len(t) /\ (i + 2) + 1 = j + 2
          /\ i > 1 => i - 1 \in 1..Len(t) /\ (i - 1) + 1 = j - 1
          /\ j > 1 /\ j # 1
      BY <1>1
    <3>2. /\ i + 1 \in 1..Len(t) => t[i + 1] = ops[(i + 1) + 1]
          /\ i + 2 \in 1..Len(t) => t[i + 2] = ops[(i + 2) + 1]
          /\ i - 1 \in 1..Len(t) => t[i - 1] = ops[(i - 1) + 1]
      BY <1>1
    <3> QED
      BY <3>1, <3>2, <1>1
  <2>3. Stopped(ops, j, s) => Stopped(t, i, s)'
    BY <1>2, <2>1
  <2>4. /\ ops[j].name = "end" => j = 1
        /\ ops[j].name = "spawn" =>
             /\ j + 2 <= Len(ops)
             /\ Is(ops[j + 1], "record", s) /\ Is(ops[j + 2], "poll", s)
             /\ Stopped(ops, j, s)
        /\ ops[j].name = "record" =>
             /\ j + 1 <= Len(ops) /\ Is(ops[j + 1], "poll", s)
             /\ j > 1 => Is(ops[j - 1], "spawn", s)
        /\ ops[j].name = "poll" /\ j > 1 => Is(ops[j - 1], "record", s)
    BY <2>1 DEF InOrder
  <2>5. j + 2 <= Len(ops) => j + 1 <= Len(ops)
    BY <1>1
  <2>6. t[i].service = s /\ t[i].name = ops[j].name
    BY <2>1
  <2> HIDE DEF j, s
  <2> QED
    BY <2>2, <2>3, <2>4, <2>5, <2>6
<1>4. InOrder(t)'
  BY <1>3 DEF InOrder
<1> QED
  BY <1>4 DEF t

(* What comes first in the rest of a list. *)
LEMMA RestBegins ==
  ASSUME NEW ops \in Seq(Ops), Len(ops) >= 1, InOrder(ops), Len(Tail(ops)) >= 1
  PROVE  LET o == Tail(ops)[1] IN
         /\ o = ops[2] /\ o.name # "end" /\ o.service \in Service
         /\ o.name = "poll" => Is(ops[1], "record", o.service)
         /\ o.name = "record" => Is(ops[1], "spawn", o.service)
<1>1. Tail(ops)[1] = ops[2] /\ 2 \in 1..Len(ops)
  BY RestOf
<1>2. ops[2].service \in Service
  BY <1>1, OpTyped
<1>3. /\ ops[2].name # "end"
      /\ ops[2].name = "poll" => Is(ops[2 - 1], "record", ops[2].service)
      /\ ops[2].name = "record" => Is(ops[2 - 1], "spawn", ops[2].service)
  BY <1>1 DEF InOrder
<1> QED
  BY <1>1, <1>2, <1>3

(* A stop that has found its child goes on to end it. *)
LEMMA EndInOrder ==
  ASSUME NEW ops \in Seq(Ops), Len(ops) >= 1, InOrder(ops), NEW s \in Service,
         Is(ops[1], "stop", s), UNCHANGED alive
  PROVE  InOrder(<<Op("end", s)>> \o Tail(ops))'
<1> DEFINE t == <<Op("end", s)>> \o Tail(ops)
           o == Op("end", s)
<1>1. o \in Ops /\ o.name = "end" /\ o.service = s
  BY OpIs DEF Names
<1>2. /\ t \in Seq(Ops) /\ Len(t) = Len(ops) /\ t[1] = o
      /\ \A i \in 2..Len(ops) : t[i] = ops[i]
      /\ Len(ops) \in Nat
  BY <1>1, FirstReplaced
<1> HIDE DEF t, o
<1>3. ASSUME NEW i \in 2..Len(t)
      PROVE  /\ t[i] = ops[i]
             /\ \A q : Halts(ops[i - 1], q) => Halts(t[i - 1], q)
             /\ \A q, n : n # "stop" /\ Is(ops[i - 1], n, q) => Is(t[i - 1], n, q)
  <2>1. CASE i = 2
    BY <1>1, <1>2, <2>1 DEF Is, Halts
  <2>2. CASE i > 2
    BY <1>2, <2>2
  <2> QED
    BY <2>1, <2>2
<1>4. ASSUME NEW i \in 2..Len(t), NEW q \in Service, Stopped(ops, i, q)
      PROVE  Stopped(t, i, q)'
  <2>1. i >= 3 => i - 1 \in 2..Len(t) /\ (i - 1) - 1 = i - 2
    BY <1>2
  <2>2. i >= 3 => (Halts(ops[i - 2], q) => Halts(t[i - 2], q))
    BY <1>3, <2>1
  <2>3. i = 2 => (Is(ops[1], "check", q) => Is(t[1], "check", q))
    BY <1>3, <1>2
  <2> QED
    BY <1>3, <1>4, <2>2, <2>3, <1>2 DEF Stopped
<1>5. ASSUME NEW i \in 1..Len(t)
      PROVE  LET q == t[i].service IN
               /\ t[i].name = "end" => i = 1
               /\ t[i].name = "spawn" =>
                    /\ i + 2 <= Len(t)
                    /\ Is(t[i + 1], "record", q) /\ Is(t[i + 2], "poll", q)
                    /\ Stopped(t, i, q)'
               /\ t[i].name = "record" =>
                    /\ i + 1 <= Len(t) /\ Is(t[i + 1], "poll", q)
                    /\ i > 1 => Is(t[i - 1], "spawn", q)
               /\ t[i].name = "poll" /\ i > 1 => Is(t[i - 1], "record", q)
  <2>1. CASE i = 1
    BY <1>1, <1>2, <2>1
  <2>2. CASE i # 1
    <3> DEFINE q == ops[i].service
    <3>1. i \in 2..Len(t) /\ i \in 1..Len(ops) /\ t[i] = ops[i] /\ q \in Service
      BY <1>2, <2>2, OpTyped
    <3>2. /\ ops[i].name = "end" => i = 1
          /\ ops[i].name = "spawn" =>
               /\ i + 2 <= Len(ops)
               /\ Is(ops[i + 1], "record", q) /\ Is(ops[i + 2], "poll", q)
               /\ Stopped(ops, i, q)
          /\ ops[i].name = "record" =>
               /\ i + 1 <= Len(ops) /\ Is(ops[i + 1], "poll", q)
               /\ i > 1 => Is(ops[i - 1], "spawn", q)
          /\ ops[i].name = "poll" /\ i > 1 => Is(ops[i - 1], "record", q)
      BY <3>1 DEF InOrder
    <3>3. /\ i + 1 <= Len(ops) => t[i + 1] = ops[i + 1]
          /\ i + 2 <= Len(ops) => t[i + 2] = ops[i + 2]
      BY <1>2, <3>1
    <3>4. Stopped(ops, i, q) => Stopped(t, i, q)'
      BY <1>4, <3>1
    <3>5. /\ Is(ops[i - 1], "spawn", q) => Is(t[i - 1], "spawn", q)
          /\ Is(ops[i - 1], "record", q) => Is(t[i - 1], "record", q)
      BY <1>3, <3>1
    <3>6. t[i].service = q /\ Len(t) = Len(ops) /\ (i + 2 <= Len(ops) => i + 1 <= Len(ops))
      BY <1>2, <3>1
    <3> HIDE DEF q
    <3> QED
      BY <3>1, <3>2, <3>3, <3>4, <3>5, <3>6
  <2> QED
    BY <2>1, <2>2
<1>6. InOrder(t)'
  BY <1>5 DEF InOrder
<1> QED
  BY <1>6 DEF t, o

-----------------------------------------------------------------------------
(* The steps of a handler.                                                 *)

(* A handler at an operation. *)
LEMMA AtFacts ==
  ASSUME StackIInv, NEW h \in Handler, NEW name \in Names, NEW s \in Service, At(h, name, s)
  PROVE  /\ StackTypeOK /\ program \in Programs /\ RoleOK(h)
         /\ todo \in [Handler -> Seq(Ops)] /\ run \in RunMaps
         /\ todo[h] \in Seq(Ops) /\ run[h] \in Runs
         /\ Len(todo[h]) \in Nat /\ Len(todo[h]) >= 1
         /\ Is(todo[h][1], name, s)
         /\ run[h].kind # "gone"
         /\ name \notin {"stop", "end"} => run[h].kind \in Starts /\ ~Ending(h)
         /\ \A n \in Names, q \in Service : At(h, n, q) => n = name /\ q = s
<1>1. /\ StackTypeOK /\ program \in Programs /\ RoleOK(h)
      /\ todo \in [Handler -> Seq(Ops)] /\ run \in RunMaps
      /\ todo[h] \in Seq(Ops) /\ run[h] \in Runs
  BY TypesNamed DEF StackIInv, RunMaps
<1>2. Len(todo[h]) \in Nat /\ Len(todo[h]) >= 1 /\ Is(todo[h][1], name, s)
  BY <1>1, AtIs
<1>3. run[h].kind # "gone"
  BY <1>2, <1>1 DEF RoleOK
<1>4. name \notin {"stop", "end"} => ~OnlyHalts(todo[h])
  BY <1>1, OnlyHaltsAt
<1>5. ASSUME NEW n \in Names, NEW q \in Service, At(h, n, q) PROVE n = name /\ q = s
  <2>1. Is(todo[h][1], n, q)
    BY <1>1, <1>5, AtIs
  <2> QED
    BY <1>2, <2>1 DEF Is
<1> QED
  BY <1>1, <1>2, <1>3, <1>4, <1>5 DEF RoleOK

(* What a starter knows, by itself. *)
LEMMA StarterKnows ==
  ASSUME OneStarter, StackIInv, NoneGone, NEW h \in Handler, run[h].kind \in Starts
  PROVE  /\ KnownBy(h) /\ InOrder(todo[h]) /\ HoldsRecorded(h) /\ Accounted(h)
         /\ OfItsKind(h)
<1>1. /\ program \in Programs /\ todo \in [Handler -> Seq(Ops)]
      /\ \A g \in Handler : RoleOK(g)
      /\ Known /\ StarterOK(h)
  BY TypesNamed DEF StackIInv
<1>2. \A g \in Handler : g # h => OnlyHalts(todo[g])
  BY <1>1, OnlyOneStarts DEF RoleOK
<1> QED
  BY <1>1, <1>2, KnownToOne DEF StarterOK

(* A list that a handler begins with does not hold a child. *)
LEMMA FreshHolds ==
  ASSUME NEW h \in Handler, Fresh(todo'[h]), NEW s \in Service
  PROVE  ~At(h, "record", s)' /\ ~At(h, "poll", s)' /\ ~At(h, "end", s)'
<1>1. CASE todo'[h] = <<>>
  BY <1>1 DEF At
<1>2. CASE todo'[h] # <<>>
  <2>1. /\ todo'[h] \in Seq(Ops) /\ Head(todo'[h]) = todo'[h][1] /\ 1 \in 1..Len(todo'[h])
    BY <1>2 DEF Fresh
  <2>2. FreshAt(todo'[h], 1)
    BY <2>1 DEF Fresh
  <2>3. todo'[h][1].name \notin {"record", "poll", "end"}
    BY <2>2 DEF FreshAt, FreshRecord
  <2> QED
    BY <2>1, <2>3 DEF At, Op
<1> QED
  BY <1>1, <1>2

(* A starter that ends its run by cleaning up. *)
LEMMA CleansUp ==
  ASSUME OneStarter, StackIInv, NEW h \in Handler, run[h].kind \in Starts,
         NoneGone, \A s \in Service : ~At(h, "record", s),
         UNCHANGED <<program, spawned, alive, recorded>>,
         Fresh(todo'[h]), OnlyHalts(todo'[h]), Ending(h)',
         run'[h].kind = run[h].kind, run'[h].mine = run[h].mine,
         \A p \in Owed(run'[h]) : p[2] \in alive[p[1]] => HaltsOne(todo'[h], p[1])
  PROVE  KnownBy(h)' /\ StarterOK(h)'
<1>1. KnownBy(h) /\ OfItsKind(h)
  BY StarterKnows
<1>2. KnownBy(h)'
  BY <1>1, FreshHolds DEF KnownBy
<1>3. InOrder(todo[h])'
  <2>1. InOrder(todo'[h])
    BY FreshInOrder
  <2> QED
    BY <2>1 DEF InOrder, Stopped
<1>4. HoldsRecorded(h)'
  BY FreshHolds DEF HoldsRecorded
<1>5. Accounted(h)'
  BY DEF Accounted, HaltsOne
<1>6. OfItsKind(h)'
  BY <1>1 DEF OfItsKind, OnlyHalts
<1> QED
  BY <1>2, <1>3, <1>4, <1>5, <1>6 DEF StarterOK

(* A starter that fails: what it has started, and what runs, is stopped.   *)
LEMMA FailsInv ==
  ASSUME OneStarter, StackIInv, NEW h \in Handler,
         NEW name \in {"check", "spawn", "poll", "fail"}, NEW s \in Service,
         At(h, name, s), Fails(h), UNCHANGED <<program, spawned, alive, recorded>>,
         name = "poll" => run[h].hand \notin alive[s]
  PROVE  StackIInv'
<1> DEFINE q == [run EXCEPT ![h].failed = TRUE]
           c == CleanUp(run[h])
<1>0. name \in Names /\ name \notin {"stop", "end"}
  BY DEF Names
<1>1. /\ StackTypeOK /\ program \in Programs /\ RoleOK(h)
      /\ todo \in [Handler -> Seq(Ops)] /\ run \in RunMaps
      /\ run[h] \in Runs /\ Len(todo[h]) \in Nat /\ Len(todo[h]) >= 1
      /\ Is(todo[h][1], name, s) /\ run[h].kind \in Starts /\ ~Ending(h)
      /\ \A n \in Names, r \in Service : At(h, n, r) => n = name /\ r = s
  BY <1>0, AtFacts
<1>2. todo' = [todo EXCEPT ![h] = c] /\ run' = [q EXCEPT ![h].hand = None]
  BY DEF Fails, Instead
<1>3. /\ q \in RunMaps /\ q[h].failed = TRUE
      /\ q[h].kind = run[h].kind /\ q[h].mine = run[h].mine /\ q[h].lost = run[h].lost
      /\ \A g \in Handler : g # h => q[g] = run[g]
  BY <1>1 DEF Runs, RunMaps
<1> HIDE DEF q
<1>4. /\ run' \in RunMaps /\ run'[h].failed = TRUE
      /\ run'[h].kind = run[h].kind /\ run'[h].mine = run[h].mine /\ run'[h].lost = run[h].lost
      /\ \A g \in Handler : g # h => run'[g] = run[g]
  BY <1>2, <1>3 DEF Runs, RunMaps
<1>5. /\ Fresh(c) /\ OnlyHalts(c) /\ c \in Seq(Ops)
      /\ run[h].kind = "start_stack" =>
             \A r \in Service \ {"knowledge"} : HaltsOne(c, r)
      /\ run[h].kind = "cowork" => \A r \in run[h].started : HaltsOne(c, r)
  BY <1>1, CleanUpList DEF Fresh
<1> HIDE DEF c
<1>6. /\ todo'[h] = c /\ todo' \in [Handler -> Seq(Ops)]
      /\ \A g \in Handler : g # h => todo'[g] = todo[g]
  BY <1>1, <1>2, <1>5
<1>7. StackTypeOK'
  BY <1>1, <1>4, <1>6, TypesNamed, TypesNamedNext
<1>8. RoleOK(h)'
  BY <1>1, <1>4, <1>5, <1>6 DEF RoleOK, Starts
<1>9. ASSUME NoneGone PROVE KnownBy(h)' /\ StarterOK(h)'
  <2>1. /\ KnownBy(h) /\ HoldsRecorded(h) /\ Accounted(h) /\ OfItsKind(h)
    BY <1>1, <1>9, StarterKnows
  <2>2. \A r \in Service : ~At(h, "record", r)
    BY <1>1 DEF Names
  <2>3. name = "poll" => alive[s] = {}
    <3>1. name = "poll" => run[h].hand = recorded[s]
      BY <2>1 DEF HoldsRecorded
    <3>2. alive[s] \subseteq {recorded[s]}
      BY <2>1, <2>2 DEF KnownBy
    <3> QED
      BY <3>1, <3>2
  <2>4. ASSUME NEW p \in Owed(run[h]), p[2] \in alive[p[1]] PROVE HaltsOne(c, p[1])
    <3>1. p[1] \in Service
      BY <1>1, <2>4 DEF Runs, Owed
    <3>2. ~Halts(todo[h][1], p[1])
      BY <1>1 DEF Halts, Is
    <3>3. ~At(h, "record", p[1]) /\ ~At(h, "poll", p[1])
      BY <1>1, <2>2, <2>3, <2>4, <3>1 DEF Names
    <3>4. todo[h] # <<>>
      BY <1>1
    <3>5. \/ run[h].kind = "start_stack"
          \/ run[h].kind = "cowork" /\ p[1] \in run[h].started
      BY <1>1, <2>1, <2>4, <3>2, <3>3, <3>4 DEF Accounted
    <3> QED
      <4>1. p \in run[h].mine
        BY <2>4 DEF Owed
      <4>2. run[h].kind = "start_stack" => p[1] # "knowledge"
        BY <2>1, <4>1 DEF OfItsKind
      <4> QED
        BY <1>5, <3>1, <3>5, <4>2
  <2>5. Ending(h)'
    BY <1>4 DEF Ending
  <2>6. Owed(run'[h]) = Owed(run[h])
    BY <1>4, OwedSame
  <2> QED
    BY <1>1, <1>4, <1>5, <1>6, <1>9, <2>2, <2>4, <2>5, <2>6, CleansUp
<1> QED
  BY <1>1, <1>4, <1>6, <1>7, <1>8, <1>9, StarterStep

(* A handler that goes on, or stops, keeps its role. *)
LEMMA RoleStays ==
  ASSUME NEW h \in Handler, RoleOK(h), run[h].kind # "gone", program' = program,
         run'[h].kind = run[h].kind, run'[h].mine = run[h].mine /\ run'[h].lost = run[h].lost,
         run'[h].failed = run[h].failed, run'[h].stopping = run[h].stopping,
         OnlyHalts(todo[h]) => OnlyHalts(todo'[h])
  PROVE  RoleOK(h)'
  BY DEF RoleOK, Ending

(* The rest of a list that only stops, only stops. *)
LEMMA RestOnlyHalts ==
  ASSUME NEW ops \in Seq(Ops), Len(ops) >= 1, OnlyHalts(ops)
  PROVE  OnlyHalts(Tail(ops))
<1>1. /\ Len(Tail(ops)) = Len(ops) - 1 /\ Len(ops) \in Nat
      /\ \A i \in 1..Len(Tail(ops)) : Tail(ops)[i] = ops[i + 1]
  BY RestOf
<1>2. \A i \in 1..Len(Tail(ops)) : i + 1 \in 1..Len(ops)
  BY <1>1
<1> QED
  BY <1>1, <1>2 DEF OnlyHalts

(* The first operation of the rest, where a handler is next. *)
LEMMA NextAt ==
  ASSUME NEW h \in Handler, todo[h] \in Seq(Ops), Len(todo[h]) >= 1, InOrder(todo[h]),
         todo'[h] = Tail(todo[h]), NEW s \in Service
  PROVE  /\ ~At(h, "end", s)'
         /\ At(h, "poll", s)' => Is(todo[h][1], "record", s)
         /\ At(h, "record", s)' => Is(todo[h][1], "spawn", s)
<1>1. CASE todo'[h] = <<>>
  BY <1>1 DEF At
<1>2. CASE todo'[h] # <<>>
  <2> DEFINE t == Tail(todo[h])
  <2>1. t \in Seq(Ops) /\ t # <<>> /\ Len(t) >= 1 /\ Head(t) = t[1] /\ todo'[h] = t
    BY <1>2, RestOf
  <2>2. /\ t[1].name # "end"
        /\ t[1].name = "poll" => Is(todo[h][1], "record", t[1].service)
        /\ t[1].name = "record" => Is(todo[h][1], "spawn", t[1].service)
    BY <2>1, RestBegins
  <2> HIDE DEF t
  <2>3. ASSUME NEW n \in Names, At(h, n, s)' PROVE t[1].name = n /\ t[1].service = s
    <3>1. t[1] = Op(n, s)
      BY <2>1, <2>3 DEF At
    <3> QED
      BY <3>1, OpIs
  <2>4. \A n \in {"end", "poll", "record"} : At(h, n, s)' => t[1].name = n /\ t[1].service = s
    BY <2>3 DEF Names
  <2>5. At(h, "end", s)' => t[1].name = "end"
    BY <2>4
  <2>6. At(h, "poll", s)' => t[1].name = "poll" /\ t[1].service = s
    BY <2>4
  <2>7. At(h, "record", s)' => t[1].name = "record" /\ t[1].service = s
    BY <2>4
  <2> QED
    BY <2>2, <2>5, <2>6, <2>7
<1> QED
  BY <1>1, <1>2

(* A starter whose operation is done, and that is neither the spawning nor *)
(* the recording of a child.                                               *)
LEMMA RestDone ==
  ASSUME OneStarter, StackIInv, NoneGone, NEW h \in Handler, run[h].kind \in Starts,
         NEW name \in Names \ {"spawn", "record"}, NEW s \in Service, At(h, name, s),
         todo'[h] = Tail(todo[h]), recorded' = recorded,
         \A r \in Service : alive'[r] \subseteq alive[r],
         name \in {"stop", "end"} => alive'[s] = {},
         run'[h].kind = run[h].kind, run'[h].mine = run[h].mine /\ run'[h].lost = run[h].lost, Accounted(h)'
  PROVE  KnownBy(h)' /\ StarterOK(h)'
<1>1. /\ KnownBy(h) /\ InOrder(todo[h]) /\ OfItsKind(h)
  BY StarterKnows
<1>2. /\ todo[h] \in Seq(Ops) /\ Len(todo[h]) \in Nat /\ Len(todo[h]) >= 1
      /\ Is(todo[h][1], name, s)
      /\ \A n \in Names, r \in Service : At(h, n, r) => n = name /\ r = s
  BY AtFacts
<1>3. \A r \in Service : ~At(h, "record", r)' /\ ~At(h, "poll", r)' /\ ~At(h, "end", r)'
  BY <1>1, <1>2, NextAt DEF Is
<1>4. \A r \in Service : alive[r] \subseteq {recorded[r]}
  BY <1>1, <1>2 DEF KnownBy, Names
<1>5. KnownBy(h)'
  BY <1>3, <1>4 DEF KnownBy
<1>6. InOrder(todo[h])'
  <2>1. todo[h][1].name = name /\ todo[h][1].service = s
    BY <1>2 DEF Is
  <2> DEFINE ops == todo[h]
  <2>2. /\ ops \in Seq(Ops) /\ Len(ops) >= 1 /\ InOrder(ops)
        /\ ops[1].name \in {"stop", "end"} => alive'[ops[1].service] = {}
        /\ ops[1].name = "check" => \A r \in Service : alive'[r] \subseteq alive[r]
    BY <1>1, <1>2, <2>1
  <2> QED
    BY <2>2, RestInOrder
<1>7. HoldsRecorded(h)'
  BY <1>3 DEF HoldsRecorded
<1>8. OfItsKind(h)'
  <2>1. /\ Len(Tail(todo[h])) = Len(todo[h]) - 1
        /\ \A i \in 1..Len(Tail(todo[h])) : Tail(todo[h])[i] = todo[h][i + 1]
    BY <1>2, RestOf
  <2>2. \A i \in 1..Len(Tail(todo[h])) :
          /\ i + 1 \in 1..Len(todo[h])
          /\ i + 1 = Len(todo[h]) => i = Len(Tail(todo[h]))
    BY <1>2, <2>1
  <2> QED
    BY <1>1, <2>1, <2>2 DEF OfItsKind
<1> QED
  BY <1>5, <1>6, <1>7, <1>8 DEF StarterOK

(* What is left of a list after an operation. *)
LEMMA DoneFacts ==
  ASSUME todo \in [Handler -> Seq(Ops)], NEW h \in Handler, Len(todo[h]) >= 1, Done(h)
  PROVE  /\ todo' \in [Handler -> Seq(Ops)] /\ todo'[h] = Tail(todo[h])
         /\ \A g \in Handler : g # h => todo'[g] = todo[g]
<1>1. Tail(todo[h]) \in Seq(Ops)
  BY RestOf
<1> QED
  BY <1>1 DEF Done

(* A run of which the hand changes. *)
LEMMA HandChanges ==
  ASSUME run \in RunMaps, NEW h \in Handler, NEW c \in Child \cup {None},
         run' = [run EXCEPT ![h].hand = c]
  PROVE  /\ run' \in RunMaps /\ run'[h].hand = c
         /\ run'[h].kind = run[h].kind /\ run'[h].mine = run[h].mine /\ run'[h].lost = run[h].lost
         /\ run'[h].started = run[h].started
         /\ run'[h].failed = run[h].failed /\ run'[h].stopping = run[h].stopping
         /\ \A g \in Handler : g # h => run'[g] = run[g]
  BY DEF Runs, RunMaps

(* A handler that only stops is not about to record a child. *)
LEMMA OnlyHaltsNext ==
  ASSUME NEW h \in Handler, todo'[h] \in Seq(Ops), OnlyHalts(todo'[h])
  PROVE  \A s \in Service : ~At(h, "record", s)'
<1>1. CASE todo'[h] = <<>>
  BY <1>1 DEF At
<1>2. CASE todo'[h] # <<>>
  <2>1. Head(todo'[h]) = todo'[h][1] /\ 1 \in 1..Len(todo'[h])
    BY <1>2
  <2>2. todo'[h][1].name \in {"stop", "end"}
    BY <2>1 DEF OnlyHalts
  <2> QED
    BY <2>1, <2>2 DEF At, Op
<1> QED
  BY <1>1, <1>2

(* A handler that only stops goes on. *)
LEMMA HelperGoesOn ==
  ASSUME StackIInv, NEW h \in Handler, run[h].kind \notin Starts \cup {"gone"},
         OnlyHalts(todo[h]), OnlyHalts(todo'[h]),
         program' = program, StackTypeOK', recorded' = recorded,
         \A s \in Service : alive'[s] \subseteq alive[s],
         \A g \in Handler : g # h => todo'[g] = todo[g] /\ run'[g] = run[g],
         run'[h].kind = run[h].kind, run'[h].mine = run[h].mine /\ run'[h].lost = run[h].lost,
         run'[h].failed = run[h].failed, run'[h].stopping = run[h].stopping
  PROVE  StackIInv'
<1>1. RoleOK(h) /\ todo'[h] \in Seq(Ops)
  BY DEF StackIInv, StackTypeOK, Ops, Names
<1>2. RoleOK(h)'
  BY <1>1, RoleStays
<1>3. StarterOK(h)'
  BY DEF StarterOK
<1>4. \A s \in Service : ~At(h, "record", s)'
  BY <1>1, OnlyHaltsNext
<1> QED
  BY <1>2, <1>3, <1>4, HelperStep

(* What is accounted for stays so when a stop or a check is done. *)
LEMMA RestAccounted ==
  ASSUME NEW h \in Handler, todo[h] \in Seq(Ops), Len(todo[h]) >= 1, run[h] \in Runs,
         NEW name \in {"stop", "end", "check"}, NEW s \in Service,
         Is(todo[h][1], name, s), Accounted(h),
         \A n \in Names, r \in Service : At(h, n, r) => n = name /\ r = s,
         todo'[h] = Tail(todo[h]), \A r \in Service : alive'[r] \subseteq alive[r],
         name \in {"stop", "end"} => alive'[s] = {},
         run'[h].kind = run[h].kind, run'[h].mine = run[h].mine /\ run'[h].lost = run[h].lost,
         run'[h].started = run[h].started,
         run'[h].failed = run[h].failed, run'[h].stopping = run[h].stopping
  PROVE  Accounted(h)'
<1> SUFFICES ASSUME NEW p \in Owed(run[h]), p[2] \in alive'[p[1]]
             PROVE  IF Ending(h)
                    THEN \E i \in 1..Len(todo'[h]) : Halts(todo'[h][i], p[1])
                    ELSE \/ run[h].kind = "start_stack"
                         \/ run[h].kind = "cowork" /\ p[1] \in run[h].started
  BY OwedSame DEF Accounted, Ending
<1>1. p[1] \in Service /\ p[2] \in alive[p[1]]
  BY DEF Runs, Owed
<1>2. ~Halts(todo[h][1], p[1])
  BY DEF Halts, Is
<1>3. CASE Ending(h)
  <2>1. PICK i \in 1..Len(todo[h]) : Halts(todo[h][i], p[1])
    BY <1>1, <1>3 DEF Accounted
  <2>2. /\ Len(Tail(todo[h])) = Len(todo[h]) - 1 /\ Len(todo[h]) \in Nat
        /\ \A j \in 1..Len(Tail(todo[h])) : Tail(todo[h])[j] = todo[h][j + 1]
    BY RestOf
  <2>3. i # 1 /\ i - 1 \in 1..Len(Tail(todo[h])) /\ (i - 1) + 1 = i
    BY <1>2, <2>1, <2>2
  <2>4. Tail(todo[h])[i - 1] = todo[h][(i - 1) + 1]
    BY <2>2, <2>3
  <2>5. todo'[h][i - 1] = todo[h][i]
    BY <2>3, <2>4
  <2>6. i - 1 \in 1..Len(todo'[h])
    BY <2>3
  <2> QED
    BY <1>3, <2>1, <2>5, <2>6
<1>4. CASE ~Ending(h)
  <2>1. ~At(h, "record", p[1]) /\ ~At(h, "poll", p[1])
    BY <1>1 DEF Names
  <2>2. todo[h] # <<>>
    OBVIOUS
  <2> QED
    BY <1>1, <1>2, <1>4, <2>1, <2>2 DEF Accounted
<1> QED
  BY <1>3, <1>4

(* A stop, its end or a check is done. *)
LEMMA GoesOn ==
  ASSUME OneStarter, StackIInv, NEW h \in Handler,
         NEW name \in {"stop", "end", "check"}, NEW s \in Service, At(h, name, s), Done(h),
         UNCHANGED <<program, spawned, recorded>>, alive' \in [Service -> SUBSET Child],
         \A r \in Service : alive'[r] \subseteq alive[r],
         run' \in RunMaps, \A g \in Handler : g # h => run'[g] = run[g],
         run'[h].kind = run[h].kind, run'[h].mine = run[h].mine /\ run'[h].lost = run[h].lost,
         run'[h].started = run[h].started,
         run'[h].failed = run[h].failed, run'[h].stopping = run[h].stopping,
         NoneGone /\ run[h].kind \in Starts /\ name \in {"stop", "end"} => alive'[s] = {}
  PROVE  StackIInv'
<1>0. name \in Names \ {"spawn", "record"}
  BY DEF Names
<1>1. /\ StackTypeOK /\ program \in Programs /\ RoleOK(h)
      /\ todo \in [Handler -> Seq(Ops)] /\ run[h] \in Runs
      /\ todo[h] \in Seq(Ops) /\ Len(todo[h]) >= 1
      /\ Is(todo[h][1], name, s) /\ run[h].kind # "gone"
      /\ \A n \in Names, r \in Service : At(h, n, r) => n = name /\ r = s
  BY <1>0, AtFacts
<1>2. /\ todo' \in [Handler -> Seq(Ops)] /\ todo'[h] = Tail(todo[h])
      /\ \A g \in Handler : g # h => todo'[g] = todo[g]
  BY <1>1, DoneFacts
<1>3. StackTypeOK'
  BY <1>1, <1>2, TypesNamed, TypesNamedNext
<1>4. OnlyHalts(todo[h]) => OnlyHalts(todo'[h])
  BY <1>1, <1>2, RestOnlyHalts
<1>5. CASE run[h].kind \in Starts
  <2>1. RoleOK(h)'
    BY <1>1, <1>4, RoleStays
  <2>2. ASSUME NoneGone PROVE KnownBy(h)' /\ StarterOK(h)'
    <3>1. Accounted(h)
      BY <1>5, <2>2, StarterKnows
    <3>2. Accounted(h)'
      BY <1>1, <1>2, <1>5, <2>2, <3>1, RestAccounted
    <3> QED
      BY <1>0, <1>2, <1>5, <2>2, <3>2, RestDone
  <2> QED
    BY <1>2, <1>3, <1>5, <2>1, <2>2, StarterStep
<1>6. CASE run[h].kind \notin Starts
  <2>1. OnlyHalts(todo[h])
    BY <1>1, <1>6 DEF RoleOK
  <2> QED
    BY <1>1, <1>2, <1>3, <1>4, <1>6, <2>1, HelperGoesOn
<1> QED
  BY <1>5, <1>6

(* A stop finds its child, or none that runs. *)
LEMMA StopReadsInv ==
  ASSUME OneStarter, StackIInv, NEW h \in Handler, NEW s \in Service, StopReads(h, s)
  PROVE  StackIInv'
<1>0. At(h, "stop", s) /\ "stop" \in Names
  BY DEF StopReads, Names
<1>1. /\ StackTypeOK /\ program \in Programs /\ RoleOK(h)
      /\ todo \in [Handler -> Seq(Ops)] /\ run \in RunMaps /\ run[h] \in Runs
      /\ todo[h] \in Seq(Ops) /\ Len(todo[h]) >= 1 /\ Len(todo[h]) \in Nat
      /\ Is(todo[h][1], "stop", s) /\ run[h].kind # "gone"
      /\ \A n \in Names, r \in Service : At(h, n, r) => n = "stop" /\ r = s
  BY <1>0, AtFacts
<1>2. /\ alive \in [Service -> SUBSET Child] /\ recorded[s] \in Child \cup {None}
  BY <1>1, TypesNamed
<1>3. ASSUME NoneGone, run[h].kind \in Starts
      PROVE  \A r \in Service : alive[r] \subseteq {recorded[r]}
  <2>1. KnownBy(h)
    BY <1>3, StarterKnows
  <2> QED
    BY <1>1, <2>1 DEF KnownBy, Names
<1>4. CASE recorded[s] \notin alive[s]
  <2>1. Done(h) /\ UNCHANGED <<program, spawned, alive, recorded, run>>
    BY <1>4 DEF StopReads
  <2>2. NoneGone /\ run[h].kind \in Starts => alive[s] = {}
    BY <1>3, <1>4
  <2> QED
    BY <1>0, <1>1, <1>2, <2>1, <2>2, GoesOn
<1>5. CASE recorded[s] \in alive[s]
  <2> DEFINE ops == <<Op("end", s)>> \o Tail(todo[h])
             c == recorded[s]
  <2>1. /\ todo' = [todo EXCEPT ![h] = ops] /\ run' = [run EXCEPT ![h].hand = c]
        /\ UNCHANGED <<program, spawned, alive, recorded>>
    BY <1>5 DEF StopReads, Instead
  <2>2. Op("end", s) \in Ops /\ Is(Op("end", s), "end", s)
    BY OpIs DEF Names
  <2>3. /\ ops \in Seq(Ops) /\ Len(ops) = Len(todo[h]) /\ ops[1] = Op("end", s)
        /\ \A i \in 2..Len(todo[h]) : ops[i] = todo[h][i]
    BY <1>1, <2>2, FirstReplaced
  <2>5. /\ run' \in RunMaps /\ run'[h].hand = c
        /\ run'[h].kind = run[h].kind /\ run'[h].mine = run[h].mine /\ run'[h].lost = run[h].lost
        /\ run'[h].started = run[h].started
        /\ run'[h].failed = run[h].failed /\ run'[h].stopping = run[h].stopping
        /\ \A g \in Handler : g # h => run'[g] = run[g]
    BY <1>1, <1>2, <2>1, HandChanges
  <2>6. InOrder(todo[h]) => InOrder(todo[h])'
    BY <1>1, <2>1, EndInOrder
  <2> HIDE DEF ops, c
  <2>7. /\ todo' \in [Handler -> Seq(Ops)] /\ todo'[h] = ops
        /\ \A g \in Handler : g # h => todo'[g] = todo[g]
    BY <1>1, <2>1, <2>3
  <2>8. StackTypeOK'
    BY <1>1, <2>1, <2>5, <2>7, TypesNamed, TypesNamedNext
  <2>9. \A i \in 1..Len(todo[h]) :
          /\ i \in 1..Len(todo'[h])
          /\ i = 1 => Is(todo'[h][i], "end", s)
          /\ i # 1 => todo'[h][i] = todo[h][i]
    BY <1>1, <2>2, <2>3, <2>7
  <2>10. OnlyHalts(todo[h]) => OnlyHalts(todo'[h])
    BY <2>3, <2>7, <2>9 DEF OnlyHalts, Is
  <2>11. CASE run[h].kind \notin Starts
    <3>1. OnlyHalts(todo[h])
      BY <1>1, <2>11 DEF RoleOK
    <3>2. /\ run[h].kind \notin Starts \cup {"gone"} /\ OnlyHalts(todo'[h])
          /\ \A r \in Service : alive'[r] \subseteq alive[r]
      BY <1>1, <2>1, <2>10, <2>11, <3>1
    <3>3. program' = program /\ recorded' = recorded
      BY <2>1
    <3> QED
      BY <2>5, <2>7, <2>8, <3>1, <3>2, <3>3, HelperGoesOn
  <2>12. CASE run[h].kind \in Starts
    <3>1. RoleOK(h)'
      BY <1>1, <2>1, <2>5, <2>10, RoleStays
    <3>2. ASSUME NoneGone PROVE KnownBy(h)' /\ StarterOK(h)'
      <4>1. InOrder(todo[h]) /\ Accounted(h) /\ OfItsKind(h)
        BY <2>12, <3>2, StarterKnows
      <4>2. \A r \in Service :
              /\ ~At(h, "record", r)' /\ ~At(h, "poll", r)'
              /\ At(h, "end", r)' => r = s
        <5>1. /\ todo'[h] # <<>> /\ Head(todo'[h]) = todo'[h][1]
              /\ Is(todo'[h][1], "end", s)
          BY <1>1, <2>2, <2>3, <2>7
        <5> QED
          BY <5>1 DEF At, Op, Is
      <4>3. KnownBy(h)'
        BY <1>3, <2>1, <2>12, <3>2, <4>2 DEF KnownBy
      <4>4. InOrder(todo[h])'
        BY <2>6, <4>1
      <4>5. HoldsRecorded(h)'
        BY <2>1, <2>5, <4>2 DEF HoldsRecorded, c
      <4>6. Accounted(h)'
        <5>1. ASSUME NEW p \in Owed(run[h]), p[2] \in alive[p[1]]
              PROVE  IF Ending(h)
                     THEN \E i \in 1..Len(todo'[h]) : Halts(todo'[h][i], p[1])
                     ELSE \/ /\ Len(todo'[h]) = 2
                             /\ Halts(todo'[h][1], p[1]) /\ Is(todo'[h][2], "fail", p[1])
                          \/ run[h].kind = "start_stack"
                          \/ run[h].kind = "cowork" /\ p[1] \in run[h].started
          <6>1. p[1] \in Service
            BY <1>1, <5>1 DEF Runs, Owed
          <6>2. CASE Ending(h)
            <7>1. PICK i \in 1..Len(todo[h]) : Halts(todo[h][i], p[1])
              BY <4>1, <5>1, <6>2 DEF Accounted
            <7>2. Halts(todo'[h][i], p[1])
              BY <1>1, <2>9, <7>1 DEF Halts, Is
            <7> QED
              BY <2>9, <6>2, <7>1, <7>2
          <6>3. CASE ~Ending(h)
            <7>1. ~At(h, "record", p[1]) /\ ~At(h, "poll", p[1]) /\ todo[h] # <<>>
              BY <1>1, <6>1 DEF Names
            <7>2. CASE /\ Len(todo[h]) = 2
                       /\ Halts(todo[h][1], p[1]) /\ Is(todo[h][2], "fail", p[1])
              <8>1. Len(todo'[h]) = 2 /\ todo'[h][2] = todo[h][2] /\ Is(todo'[h][1], "end", s)
                BY <1>1, <2>3, <2>7, <2>9, <7>2
              <8>2. Halts(todo'[h][1], p[1])
                BY <1>1, <7>2, <8>1 DEF Halts, Is
              <8> QED
                BY <6>3, <7>2, <8>1, <8>2
            <7> QED
              BY <4>1, <5>1, <6>3, <7>1, <7>2 DEF Accounted
          <6> QED
            BY <6>2, <6>3
        <5> QED
          BY <2>1, <2>5, <5>1, OwedSame, ZenonT(30) DEF Accounted, Ending
      <4>7. OfItsKind(h)'
        <5>1. \A i \in 1..Len(todo'[h]) :
                /\ i \in 1..Len(todo[h])
                /\ todo'[h][i].name = "end" \/ todo'[h][i] = todo[h][i]
                /\ Len(todo'[h]) = Len(todo[h])
          BY <2>3, <2>7, <2>9 DEF Is
        <5> QED
          BY <2>5, <4>1, <5>1 DEF OfItsKind
      <4> QED
        BY <4>3, <4>4, <4>5, <4>6, <4>7 DEF StarterOK
    <3> QED
      BY <2>1, <2>5, <2>7, <2>8, <2>12, <3>1, <3>2, StarterStep
  <2> QED
    BY <2>11, <2>12
<1> QED
  BY <1>4, <1>5

(* The child that a stop has found is ended. *)
LEMMA StopEndsInv ==
  ASSUME OneStarter, StackIInv, NEW h \in Handler, NEW s \in Service, StopEnds(h, s)
  PROVE  StackIInv'
<1>0. At(h, "end", s) /\ "end" \in Names
  BY DEF StopEnds, Names
<1>1. /\ StackTypeOK /\ run \in RunMaps
      /\ \A n \in Names, r \in Service : At(h, n, r) => n = "end" /\ r = s
  BY <1>0, AtFacts
<1>2. /\ alive \in [Service -> SUBSET Child] /\ None \in Child \cup {None}
  BY <1>1, TypesNamed
<1>3. /\ alive' = [alive EXCEPT ![s] = @ \ {run[h].hand}]
      /\ run' = [run EXCEPT ![h].hand = None] /\ Done(h)
      /\ UNCHANGED <<program, spawned, recorded>>
  BY DEF StopEnds
<1>4. /\ run' \in RunMaps
      /\ run'[h].kind = run[h].kind /\ run'[h].mine = run[h].mine /\ run'[h].lost = run[h].lost
      /\ run'[h].started = run[h].started
      /\ run'[h].failed = run[h].failed /\ run'[h].stopping = run[h].stopping
      /\ \A g \in Handler : g # h => run'[g] = run[g]
  BY <1>1, <1>2, <1>3, HandChanges
<1>5. /\ alive' \in [Service -> SUBSET Child]
      /\ \A r \in Service : alive'[r] \subseteq alive[r]
      /\ alive'[s] = alive[s] \ {run[h].hand}
  BY <1>2, <1>3
<1>6. NoneGone /\ run[h].kind \in Starts => alive'[s] = {}
  <2> SUFFICES ASSUME NoneGone, run[h].kind \in Starts PROVE alive'[s] = {}
    OBVIOUS
  <2>1. KnownBy(h) /\ HoldsRecorded(h)
    BY StarterKnows
  <2>2. run[h].hand = recorded[s]
    BY <1>0, <2>1 DEF HoldsRecorded
  <2>3. alive[s] \subseteq {recorded[s]}
    BY <1>1, <2>1 DEF KnownBy, Names
  <2> QED
    BY <1>5, <2>2, <2>3
<1> QED
  BY <1>0, <1>3, <1>4, <1>5, <1>6, GoesOn

(* The configuration of a service is checked. *)
LEMMA CheckInv ==
  ASSUME OneStarter, StackIInv, NEW h \in Handler, NEW s \in Service, Check(h, s)
  PROVE  StackIInv'
<1>0. At(h, "check", s) /\ "check" \in Names
  BY DEF Check, Names
<1>1. StackTypeOK /\ run \in RunMaps
  BY <1>0, AtFacts
<1>2. alive \in [Service -> SUBSET Child]
  BY <1>1, TypesNamed
<1>3. UNCHANGED <<program, spawned, alive, recorded>>
  BY DEF Check
<1>4. CASE Done(h) /\ UNCHANGED run
  BY <1>0, <1>1, <1>2, <1>3, <1>4, GoesOn
<1>5. CASE Fails(h)
  BY <1>0, <1>3, <1>5, FailsInv
<1> QED
  BY <1>4, <1>5 DEF Check

(* No service starts of itself. *)
LEMMA DiesInv ==
  ASSUME OneStarter, StackIInv, NEW s \in Service, NEW c \in Child, Dies(s, c)
  PROVE  StackIInv'
<1>1. StackTypeOK /\ program \in Programs
  BY DEF StackIInv
<1>2. /\ alive' = [alive EXCEPT ![s] = @ \ {c}]
      /\ UNCHANGED <<program, spawned, recorded, todo, run>>
  BY DEF Dies
<1>3. /\ alive \in [Service -> SUBSET Child] /\ alive' \in [Service -> SUBSET Child]
      /\ \A r \in Service : alive'[r] \subseteq alive[r]
  BY <1>1, <1>2, TypesNamed
<1>4. StackTypeOK'
  BY <1>1, <1>2, <1>3 DEF StackTypeOK
<1>5. \A h \in Handler : RoleOK(h)'
  BY <1>2, KeepsRole DEF StackIInv
<1>6. NoneGone => \A h \in Handler : StarterOK(h)'
  BY <1>1, <1>2, <1>3, KeepsStarter DEF StackIInv
<1>7. \A h \in Handler, r \in Service : At(h, "record", r)' = At(h, "record", r)
  BY <1>2 DEF At
<1>8. Known => Known'
  BY <1>2, <1>3, <1>7 DEF Known
<1>9. NoneGone' => NoneGone
  BY <1>2 DEF NoneGone
<1> QED
  BY <1>1, <1>2, <1>4, <1>5, <1>6, <1>8, <1>9 DEF StackIInv

(* Where a handler is next. *)
LEMMA AtNext ==
  ASSUME NEW h \in Handler, todo'[h] \in Seq(Ops), Len(todo'[h]) >= 1,
         NEW name \in Names, NEW s \in Service, Is(todo'[h][1], name, s)
  PROVE  /\ At(h, name, s)'
         /\ \A n \in Names, r \in Service : At(h, n, r)' => n = name /\ r = s
<1>1. /\ todo'[h] # <<>> /\ Head(todo'[h]) = todo'[h][1] /\ todo'[h][1] \in Ops
  OBVIOUS
<1>2. todo'[h][1] = Op(name, s)
  BY <1>1, OpIs
<1>3. ASSUME NEW n \in Names, NEW r \in Service, At(h, n, r)' PROVE n = name /\ r = s
  <2>1. todo'[h][1] = Op(n, r)
    BY <1>1, <1>3 DEF At
  <2> QED
    BY <2>1, OpIs DEF Is
<1> QED
  BY <1>1, <1>2, <1>3 DEF At

(* A starter that goes on keeps its role. *)
LEMMA StarterRole ==
  ASSUME NEW h \in Handler, RoleOK(h), run[h].kind \in Starts, ~Ending(h),
         program' = program, run'[h].kind = run[h].kind,
         run'[h].failed = run[h].failed, run'[h].stopping = run[h].stopping
  PROVE  RoleOK(h)' /\ ~Ending(h)'
  BY DEF RoleOK, Ending, Starts

(* The rest of a starter's work is of its kind. *)
LEMMA RestOfKind ==
  ASSUME NEW h \in Handler, todo[h] \in Seq(Ops), Len(todo[h]) >= 1, OfItsKind(h),
         todo'[h] = Tail(todo[h]), run'[h].kind = run[h].kind,
         run[h].kind = "start_stack" => \A p \in run'[h].mine : p[1] # "knowledge"
  PROVE  OfItsKind(h)'
<1>1. /\ Len(Tail(todo[h])) = Len(todo[h]) - 1 /\ Len(todo[h]) \in Nat
      /\ \A i \in 1..Len(Tail(todo[h])) : Tail(todo[h])[i] = todo[h][i + 1]
  BY RestOf
<1>2. \A i \in 1..Len(Tail(todo[h])) :
        /\ i + 1 \in 1..Len(todo[h])
        /\ i + 1 = Len(todo[h]) => i = Len(Tail(todo[h]))
  BY <1>1
<1> QED
  BY <1>1, <1>2 DEF OfItsKind

(* What a starter that goes on accounts for by its kind. *)
LEMMA OfTheRun ==
  ASSUME NEW h \in Handler, run[h] \in Runs, todo[h] \in Seq(Ops), Len(todo[h]) >= 1,
         NEW name \in Names \ {"stop", "end"}, NEW s \in Service, Is(todo[h][1], name, s),
         \A n \in Names, r \in Service : At(h, n, r) => n = name /\ r = s,
         ~Ending(h), Accounted(h)
  PROVE  \A p \in Owed(run[h]) : p[2] \in alive[p[1]] =>
             \/ name \in {"record", "poll"} /\ p[1] = s
             \/ run[h].kind = "start_stack"
             \/ run[h].kind = "cowork" /\ p[1] \in run[h].started
<1> SUFFICES ASSUME NEW p \in Owed(run[h]), p[2] \in alive[p[1]]
             PROVE  \/ name \in {"record", "poll"} /\ p[1] = s
                    \/ run[h].kind = "start_stack"
                    \/ run[h].kind = "cowork" /\ p[1] \in run[h].started
  OBVIOUS
<1>1. p[1] \in Service /\ "record" \in Names /\ "poll" \in Names
  BY DEF Runs, Names, Owed
<1>2. ~Halts(todo[h][1], p[1]) /\ todo[h] # <<>>
  BY DEF Halts, Is
<1>3. /\ At(h, "record", p[1]) => name = "record" /\ p[1] = s
      /\ At(h, "poll", p[1]) => name = "poll" /\ p[1] = s
  BY <1>1
<1> QED
  BY <1>2, <1>3 DEF Accounted

(* A child is spawned, when the one before it has ended, or it cannot be.  *)
LEMMA SpawnInv ==
  ASSUME OneStarter, StackIInv, NEW h \in Handler, NEW s \in Service, Spawn(h, s)
  PROVE  StackIInv'
<1>0. At(h, "spawn", s) /\ "spawn" \in Names \ {"stop", "end"}
  BY DEF Spawn, Names
<1>1. CASE Fails(h) /\ UNCHANGED <<spawned, alive>>
  <2>1. UNCHANGED <<program, spawned, alive, recorded>>
    BY <1>1 DEF Spawn
  <2> QED
    BY <1>0, <1>1, <2>1, FailsInv
<1>2. CASE ~(Fails(h) /\ UNCHANGED <<spawned, alive>>)
  <2> DEFINE c == spawned[s] + 1
             q == [run EXCEPT ![h].hand = c]
  <2>1. /\ c <= MaxSpawn /\ spawned' = [spawned EXCEPT ![s] = c]
        /\ alive' = [alive EXCEPT ![s] = @ \cup {c}]
        /\ run' = [q EXCEPT ![h].mine = @ \cup {<<s, c>>}]
        /\ Done(h) /\ UNCHANGED <<program, recorded>>
    BY <1>2 DEF Spawn
  <2>2. /\ StackTypeOK /\ program \in Programs /\ RoleOK(h)
        /\ todo \in [Handler -> Seq(Ops)] /\ run \in RunMaps /\ run[h] \in Runs
        /\ todo[h] \in Seq(Ops) /\ Len(todo[h]) >= 1 /\ Len(todo[h]) \in Nat
        /\ Is(todo[h][1], "spawn", s) /\ run[h].kind \in Starts /\ ~Ending(h)
        /\ \A n \in Names, r \in Service : At(h, n, r) => n = "spawn" /\ r = s
    BY <1>0, AtFacts
  <2>3. /\ spawned \in [Service -> 0..MaxSpawn] /\ alive \in [Service -> SUBSET Child]
        /\ recorded \in [Service -> Child \cup {None}]
    BY <2>2, TypesNamed
  <2>4. c \in Child /\ c \in 0..MaxSpawn /\ c \in Child \cup {None}
    BY <2>1, <2>3, StackAssumption DEF Child
  <2>5. /\ q \in RunMaps /\ q[h].hand = c
        /\ q[h].kind = run[h].kind /\ q[h].mine = run[h].mine /\ q[h].lost = run[h].lost
        /\ q[h].started = run[h].started
        /\ q[h].failed = run[h].failed /\ q[h].stopping = run[h].stopping
        /\ \A g \in Handler : g # h => q[g] = run[g]
    BY <2>2, <2>4 DEF Runs, RunMaps
  <2> HIDE DEF c, q
  <2>6. <<s, c>> \in Service \X Child
    BY <2>4
  <2>7. /\ run' \in RunMaps /\ run'[h].hand = c
        /\ run'[h].kind = run[h].kind /\ run'[h].mine = run[h].mine \cup {<<s, c>>}
        /\ run'[h].lost = run[h].lost
        /\ run'[h].started = run[h].started
        /\ run'[h].failed = run[h].failed /\ run'[h].stopping = run[h].stopping
        /\ \A g \in Handler : g # h => run'[g] = run[g]
    BY <2>1, <2>5, <2>6 DEF Runs, RunMaps
  <2>8. /\ spawned' \in [Service -> 0..MaxSpawn] /\ alive' \in [Service -> SUBSET Child]
        /\ alive'[s] = alive[s] \cup {c} /\ \A r \in Service : r # s => alive'[r] = alive[r]
    BY <2>1, <2>3, <2>4
  <2>9. /\ todo' \in [Handler -> Seq(Ops)] /\ todo'[h] = Tail(todo[h])
        /\ \A g \in Handler : g # h => todo'[g] = todo[g]
    BY <2>1, <2>2, DoneFacts
  <2>10. StackTypeOK'
    BY <2>1, <2>3, <2>7, <2>8, <2>9, TypesNamedNext
  <2>11. RoleOK(h)' /\ ~Ending(h)'
    BY <2>1, <2>2, <2>7, StarterRole
  <2>12. ASSUME NoneGone PROVE KnownBy(h)' /\ StarterOK(h)'
    <3>1. KnownBy(h) /\ InOrder(todo[h]) /\ Accounted(h) /\ OfItsKind(h)
      BY <2>2, <2>12, StarterKnows
    <3>2. /\ todo[h][1].name = "spawn" /\ todo[h][1].service = s /\ 1 \in 1..Len(todo[h])
      BY <2>2 DEF Is
    <3>3. 3 <= Len(todo[h]) /\ Is(todo[h][2], "record", s) /\ Stopped(todo[h], 1, s)
      BY <3>1, <3>2 DEF InOrder
    <3>4. alive[s] = {}
      BY <3>3 DEF Stopped
    <3>5. alive'[s] = {c}
      BY <2>8, <3>4
    <3>6. Len(todo'[h]) >= 1 /\ todo'[h] \in Seq(Ops) /\ Is(todo'[h][1], "record", s)
      BY <2>2, <2>9, <3>3, RestOf
    <3>7. /\ At(h, "record", s)'
          /\ \A n \in Names, r \in Service : At(h, n, r)' => n = "record" /\ r = s
      BY <3>6, AtNext DEF Names
    <3>8. \A r \in Service : r # s => alive[r] \subseteq {recorded[r]}
      BY <2>2, <3>1 DEF KnownBy, Names
    <3>9. KnownBy(h)'
      BY <2>1, <2>7, <2>8, <3>5, <3>7, <3>8 DEF KnownBy, Names
    <3>10. InOrder(todo[h])'
      BY <2>2, <2>9, <3>1, <3>2, RestInOrder
    <3>11. HoldsRecorded(h)'
      BY <3>7 DEF HoldsRecorded, Names
    <3>12. Accounted(h)'
      <4>1. ASSUME NEW p \in Owed(run'[h]), p[2] \in alive'[p[1]]
            PROVE  \/ p[1] = s
                   \/ run[h].kind = "start_stack"
                   \/ run[h].kind = "cowork" /\ p[1] \in run[h].started
        <5> SUFFICES ASSUME p[1] # s
                     PROVE  \/ run[h].kind = "start_stack"
                            \/ run[h].kind = "cowork" /\ p[1] \in run[h].started
          OBVIOUS
        <5>1. p \in Owed(run[h])
          BY <2>7, <4>1 DEF Owed, Escaped
        <5>2. p[1] \in Service
          BY <2>2, <5>1 DEF Runs, Owed
        <5>3. p[2] \in alive[p[1]]
          BY <2>8, <4>1, <5>2
        <5>4. "spawn" \in Names \ {"stop", "end"} /\ Accounted(h)
          BY <1>0, <3>1
        <5>5. \A x \in Owed(run[h]) : x[2] \in alive[x[1]] =>
                  \/ x[1] = s
                  \/ run[h].kind = "start_stack"
                  \/ run[h].kind = "cowork" /\ x[1] \in run[h].started
          BY <2>2, <5>4, OfTheRun
        <5> QED
          BY <5>1, <5>3, <5>5
      <4> QED
        BY <2>7, <2>11, <3>7, <4>1 DEF Accounted
    <3>13. OfItsKind(h)'
      <4>1. run[h].kind = "start_stack" => \A p \in run'[h].mine : p[1] # "knowledge"
        BY <2>7, <3>1, <3>2 DEF OfItsKind
      <4> QED
        BY <2>2, <2>7, <2>9, <3>1, <4>1, RestOfKind
    <3> QED
      BY <3>9, <3>10, <3>11, <3>12, <3>13 DEF StarterOK
  <2> QED
    BY <2>1, <2>2, <2>7, <2>9, <2>10, <2>11, <2>12, StarterStep
<1> QED
  BY <1>1, <1>2

(* The child in hand is recorded. *)
LEMMA RecordInv ==
  ASSUME OneStarter, StackIInv, NEW h \in Handler, NEW s \in Service, Record(h, s)
  PROVE  StackIInv'
<1>0. At(h, "record", s) /\ "record" \in Names \ {"stop", "end"}
  BY DEF Record, Names
<1>1. /\ StackTypeOK /\ program \in Programs /\ RoleOK(h)
      /\ todo \in [Handler -> Seq(Ops)] /\ run \in RunMaps /\ run[h] \in Runs
      /\ todo[h] \in Seq(Ops) /\ Len(todo[h]) >= 1 /\ Len(todo[h]) \in Nat
      /\ Is(todo[h][1], "record", s) /\ run[h].kind \in Starts /\ ~Ending(h)
      /\ \A n \in Names, r \in Service : At(h, n, r) => n = "record" /\ r = s
  BY <1>0, AtFacts
<1>2. /\ recorded' = [recorded EXCEPT ![s] = run[h].hand]
      /\ Done(h) /\ UNCHANGED <<program, spawned, alive, run>>
  BY DEF Record
<1>3. /\ recorded \in [Service -> Child \cup {None}] /\ run[h].hand \in Child \cup {None}
      /\ spawned \in [Service -> 0..MaxSpawn] /\ alive \in [Service -> SUBSET Child]
  BY <1>1, TypesNamed DEF Runs
<1>4. /\ recorded' \in [Service -> Child \cup {None}] /\ recorded'[s] = run[h].hand
      /\ \A r \in Service : r # s => recorded'[r] = recorded[r]
  BY <1>2, <1>3
<1>5. /\ todo' \in [Handler -> Seq(Ops)] /\ todo'[h] = Tail(todo[h])
      /\ \A g \in Handler : g # h => todo'[g] = todo[g]
  BY <1>1, <1>2, DoneFacts
<1>6. StackTypeOK'
  BY <1>1, <1>2, <1>3, <1>4, <1>5, TypesNamedNext
<1>7. RoleOK(h)' /\ ~Ending(h)'
  BY <1>1, <1>2, StarterRole
<1>8. ASSUME NoneGone PROVE KnownBy(h)' /\ StarterOK(h)'
  <2>1. KnownBy(h) /\ InOrder(todo[h]) /\ Accounted(h) /\ OfItsKind(h)
    BY <1>1, <1>8, StarterKnows
  <2>2. todo[h][1].name = "record" /\ todo[h][1].service = s /\ 1 \in 1..Len(todo[h])
    BY <1>1 DEF Is
  <2>3. 2 <= Len(todo[h]) /\ Is(todo[h][2], "poll", s)
    BY <2>1, <2>2 DEF InOrder
  <2>4. Len(todo'[h]) >= 1 /\ todo'[h] \in Seq(Ops) /\ Is(todo'[h][1], "poll", s)
    BY <1>1, <1>5, <2>3, RestOf
  <2>5. /\ At(h, "poll", s)'
        /\ \A n \in Names, r \in Service : At(h, n, r)' => n = "poll" /\ r = s
    BY <2>4, AtNext DEF Names
  <2>6. /\ alive[s] \subseteq {run[h].hand}
        /\ \A r \in Service : r # s => alive[r] \subseteq {recorded[r]}
    BY <1>0, <1>1, <2>1 DEF KnownBy, Names
  <2>7. KnownBy(h)'
    BY <1>2, <1>4, <2>5, <2>6 DEF KnownBy, Names
  <2>8. InOrder(todo[h])'
    BY <1>1, <1>5, <2>1, <2>2, RestInOrder
  <2>9. HoldsRecorded(h)'
    BY <1>2, <1>4, <2>5 DEF HoldsRecorded, Names
  <2>10. Accounted(h)'
    <3>1. \A p \in Owed(run[h]) : p[2] \in alive[p[1]] =>
              \/ p[1] = s
              \/ run[h].kind = "start_stack"
              \/ run[h].kind = "cowork" /\ p[1] \in run[h].started
      BY <1>0, <1>1, <2>1, OfTheRun
    <3> QED
      BY <1>2, <1>7, <2>5, <3>1 DEF Accounted
  <2>11. OfItsKind(h)'
    <3>1. run[h].kind = "start_stack" => \A p \in run'[h].mine : p[1] # "knowledge"
      BY <1>2, <2>1 DEF OfItsKind
    <3> QED
      BY <1>1, <1>2, <1>5, <2>1, <3>1, RestOfKind
  <2> QED
    BY <2>7, <2>8, <2>9, <2>10, <2>11 DEF StarterOK
<1> QED
  BY <1>1, <1>2, <1>5, <1>6, <1>7, <1>8, StarterStep

(* A service listens: its start has returned. *)
LEMMA PollConnectsInv ==
  ASSUME OneStarter, StackIInv, NEW h \in Handler, NEW s \in Service, PollConnects(h, s)
  PROVE  StackIInv'
<1> DEFINE q == [run EXCEPT ![h].started = @ \cup {s}]
<1>0. At(h, "poll", s) /\ "poll" \in Names \ {"stop", "end", "record", "spawn"}
  BY DEF PollConnects, Names
<1>1. /\ StackTypeOK /\ program \in Programs /\ RoleOK(h)
      /\ todo \in [Handler -> Seq(Ops)] /\ run \in RunMaps /\ run[h] \in Runs
      /\ todo[h] \in Seq(Ops) /\ Len(todo[h]) >= 1 /\ Len(todo[h]) \in Nat
      /\ Is(todo[h][1], "poll", s) /\ run[h].kind \in Starts /\ ~Ending(h)
      /\ \A n \in Names, r \in Service : At(h, n, r) => n = "poll" /\ r = s
  BY <1>0, AtFacts
<1>2. /\ run' = [q EXCEPT ![h].hand = None]
      /\ Done(h) /\ UNCHANGED <<program, spawned, alive, recorded>>
  BY DEF PollConnects
<1>3. /\ q \in RunMaps /\ q[h].started = run[h].started \cup {s}
      /\ q[h].kind = run[h].kind /\ q[h].mine = run[h].mine /\ q[h].lost = run[h].lost
      /\ q[h].failed = run[h].failed /\ q[h].stopping = run[h].stopping
      /\ \A g \in Handler : g # h => q[g] = run[g]
  BY <1>1 DEF Runs, RunMaps
<1> HIDE DEF q
<1>4. /\ run' \in RunMaps /\ run'[h].started = run[h].started \cup {s}
      /\ run'[h].kind = run[h].kind /\ run'[h].mine = run[h].mine /\ run'[h].lost = run[h].lost
      /\ run'[h].failed = run[h].failed /\ run'[h].stopping = run[h].stopping
      /\ \A g \in Handler : g # h => run'[g] = run[g]
  BY <1>2, <1>3 DEF Runs, RunMaps
<1>5. /\ todo' \in [Handler -> Seq(Ops)] /\ todo'[h] = Tail(todo[h])
      /\ \A g \in Handler : g # h => todo'[g] = todo[g]
  BY <1>1, <1>2, DoneFacts
<1>6. StackTypeOK'
  BY <1>1, <1>2, <1>4, <1>5, TypesNamed, TypesNamedNext
<1>7. RoleOK(h)' /\ ~Ending(h)'
  BY <1>1, <1>2, <1>4, StarterRole
<1>8. ASSUME NoneGone PROVE KnownBy(h)' /\ StarterOK(h)'
  <2>1. InOrder(todo[h]) /\ Accounted(h) /\ OfItsKind(h)
    BY <1>1, <1>8, StarterKnows
  <2>2. todo[h][1].name = "poll" /\ todo[h][1].service = s /\ 1 \in 1..Len(todo[h])
    BY <1>1 DEF Is
  <2>3. run[h].kind = "start_proxy" => todo'[h] = <<>>
    <3>1. run[h].kind = "start_proxy" => Len(todo[h]) = 1
      BY <2>1, <2>2 DEF OfItsKind
    <3> QED
      BY <1>1, <1>5, <3>1
  <2>4. Accounted(h)'
    <3>0. "poll" \in Names \ {"stop", "end"}
      BY <1>0
    <3>1. \A p \in Owed(run[h]) : p[2] \in alive[p[1]] =>
              \/ p[1] = s
              \/ run[h].kind = "start_stack"
              \/ run[h].kind = "cowork" /\ p[1] \in run[h].started
      BY <1>1, <2>1, <3>0, OfTheRun
    <3>2. Owed(run'[h]) = Owed(run[h])
      BY <1>4, OwedSame
    <3>3. run[h].kind = "start_proxy" \/ run[h].kind = "start_stack" \/ run[h].kind = "cowork"
      BY <1>1 DEF Starts
    <3> QED
      BY <1>2, <1>4, <1>7, <2>3, <3>1, <3>2, <3>3 DEF Accounted
  <2> QED
    BY <1>0, <1>1, <1>2, <1>4, <1>5, <1>8, <2>4, RestDone
<1> QED
  BY <1>1, <1>2, <1>4, <1>5, <1>6, <1>7, <1>8, StarterStep

(* The child has ended before it listened. *)
LEMMA PollFindsExitInv ==
  ASSUME OneStarter, StackIInv, NEW h \in Handler, NEW s \in Service, PollFindsExit(h, s)
  PROVE  StackIInv'
  BY FailsInv DEF PollFindsExit

(* The poll raises what the manager does not catch: what the clean-up      *)
(* reaches is stopped, and the child it does not reach is lost.            *)
LEMMA PollRaisesInv ==
  ASSUME OneStarter, StackIInv, NEW h \in Handler, NEW s \in Service, PollRaises(h, s)
  PROVE  StackIInv'
<1> DEFINE child == <<s, run[h].hand>>
           q == [run EXCEPT ![h].failed = TRUE]
           x == [q EXCEPT ![h].hand = None]
           c == CleanUp(run[h])
<1>0. At(h, "poll", s) /\ "poll" \in Names \ {"stop", "end"}
  BY DEF PollRaises, Names
<1>1. /\ StackTypeOK /\ program \in Programs /\ RoleOK(h)
      /\ todo \in [Handler -> Seq(Ops)] /\ run \in RunMaps /\ run[h] \in Runs
      /\ todo[h] \in Seq(Ops) /\ Len(todo[h]) >= 1 /\ Len(todo[h]) \in Nat
      /\ Is(todo[h][1], "poll", s) /\ run[h].kind \in Starts /\ ~Ending(h)
      /\ \A n \in Names, r \in Service : At(h, n, r) => n = "poll" /\ r = s
  BY <1>0, AtFacts
<1>2. /\ todo' = [todo EXCEPT ![h] = c]
      /\ run' = [x EXCEPT ![h].lost = run[h].lost \cup {child}]
      /\ run[h].hand \in alive[s] /\ UNCHANGED <<program, spawned, alive, recorded>>
  BY <1>1 DEF PollRaises, Instead, RunMaps, Runs
<1>3. child \in Service \X Child
  <2>1. alive \in [Service -> SUBSET Child]
    BY <1>1, TypesNamed
  <2> QED
    BY <1>2, <2>1
<1> HIDE DEF child
<1>4. /\ q \in RunMaps /\ q[h].failed = TRUE
      /\ q[h].kind = run[h].kind /\ q[h].mine = run[h].mine /\ q[h].lost = run[h].lost
      /\ \A g \in Handler : g # h => q[g] = run[g]
  BY <1>1 DEF Runs, RunMaps
<1> HIDE DEF q
<1>5. /\ x \in RunMaps /\ x[h].failed = TRUE
      /\ x[h].kind = run[h].kind /\ x[h].mine = run[h].mine /\ x[h].lost = run[h].lost
      /\ \A g \in Handler : g # h => x[g] = run[g]
  BY <1>4 DEF Runs, RunMaps
<1> HIDE DEF x
<1>6. /\ run' \in RunMaps /\ run'[h].failed = TRUE
      /\ run'[h].kind = run[h].kind /\ run'[h].mine = run[h].mine
      /\ run'[h].lost = run[h].lost \cup {child}
      /\ \A g \in Handler : g # h => run'[g] = run[g]
  <2>1. run[h].lost \cup {child} \in SUBSET (Service \X Child)
    BY <1>1, <1>3 DEF Runs
  <2> QED
    BY <1>2, <1>5, <2>1 DEF Runs, RunMaps
<1>7. /\ Fresh(c) /\ OnlyHalts(c) /\ c \in Seq(Ops)
      /\ run[h].kind = "start_stack" =>
             \A r \in Service \ {"knowledge"} : HaltsOne(c, r)
      /\ run[h].kind = "cowork" => \A r \in run[h].started \cup {"webui"} : HaltsOne(c, r)
  BY <1>1, CleanUpList DEF Fresh
<1> HIDE DEF c
<1>8. /\ todo'[h] = c /\ todo' \in [Handler -> Seq(Ops)]
      /\ \A g \in Handler : g # h => todo'[g] = todo[g]
  BY <1>1, <1>2, <1>7
<1>9. StackTypeOK'
  BY <1>1, <1>2, <1>6, <1>8, TypesNamed, TypesNamedNext
<1>10. RoleOK(h)'
  BY <1>1, <1>2, <1>6, <1>7, <1>8 DEF RoleOK, Starts
<1>11. ASSUME NoneGone PROVE KnownBy(h)' /\ StarterOK(h)'
  <2>1. /\ KnownBy(h) /\ HoldsRecorded(h) /\ Accounted(h) /\ OfItsKind(h)
    BY <1>1, <1>11, StarterKnows
  <2>2. \A r \in Service : ~At(h, "record", r)
    BY <1>1 DEF Names
  <2>3. alive[s] \subseteq {run[h].hand}
    BY <1>0, <2>1, <2>2 DEF KnownBy, HoldsRecorded
  <2>4. ASSUME NEW p \in Owed(run'[h]), p[2] \in alive[p[1]] PROVE HaltsOne(c, p[1])
    <3>1. /\ p \in run[h].mine /\ p \in Service \X Child /\ p[1] \in Service
          /\ p \in Owed(run[h])
          /\ p # child \/ ~(run[h].kind = "start_proxy"
                            \/ (run[h].kind = "cowork" /\ p[1] # "webui"))
      BY <1>1, <1>6 DEF Runs, Owed, Escaped
    <3>2. \/ p[1] = s
          \/ run[h].kind = "start_stack"
          \/ run[h].kind = "cowork" /\ p[1] \in run[h].started
      BY <1>0, <1>1, <2>1, <2>4, <3>1, OfTheRun, ZenonT(30)
    <3>3. CASE run[h].kind = "start_stack"
      BY <1>7, <2>1, <3>1, <3>3 DEF OfItsKind
    <3>4. CASE run[h].kind = "cowork" /\ p[1] \in run[h].started
      BY <1>7, <3>4
    <3>5. CASE run[h].kind # "start_stack" /\ p[1] = s
      <4>1. p = child
        BY <2>3, <2>4, <3>1, <3>5 DEF child
      <4>2. run[h].kind = "cowork" /\ p[1] = "webui"
        BY <1>1, <3>1, <3>5, <4>1 DEF Starts
      <4> QED
        BY <1>7, <4>2
    <3> QED
      BY <3>2, <3>3, <3>4, <3>5
  <2>5. Ending(h)'
    BY <1>6 DEF Ending
  <2> QED
    BY <1>1, <1>2, <1>6, <1>7, <1>8, <1>11, <2>2, <2>4, <2>5, CleansUp
<1> QED
  BY <1>1, <1>2, <1>6, <1>8, <1>9, <1>10, <1>11, StarterStep

(* The child that did not listen in time has been stopped. *)
LEMMA RaiseTimeoutInv ==
  ASSUME OneStarter, StackIInv, NEW h \in Handler, NEW s \in Service, RaiseTimeout(h, s)
  PROVE  StackIInv'
  BY FailsInv DEF RaiseTimeout

(* The child does not listen in time: it will be stopped. *)
LEMMA PollTimesOutInv ==
  ASSUME OneStarter, StackIInv, NEW h \in Handler, NEW s \in Service, PollTimesOut(h, s)
  PROVE  StackIInv'
<1> DEFINE ops == <<Op("stop", s), Op("fail", s)>>
<1>0. At(h, "poll", s) /\ "poll" \in Names \ {"stop", "end"}
  BY DEF PollTimesOut, Names
<1>1. /\ StackTypeOK /\ program \in Programs /\ RoleOK(h)
      /\ todo \in [Handler -> Seq(Ops)] /\ run \in RunMaps /\ run[h] \in Runs
      /\ todo[h] \in Seq(Ops) /\ Len(todo[h]) >= 1 /\ Len(todo[h]) \in Nat
      /\ Is(todo[h][1], "poll", s) /\ run[h].kind \in Starts /\ ~Ending(h)
      /\ \A n \in Names, r \in Service : At(h, n, r) => n = "poll" /\ r = s
  BY <1>0, AtFacts
<1>2. /\ todo' = [todo EXCEPT ![h] = ops] /\ run' = [run EXCEPT ![h].hand = None]
      /\ UNCHANGED <<program, spawned, alive, recorded>>
  BY DEF PollTimesOut, Instead
<1>3. /\ ops \in Seq(Ops) /\ Len(ops) = 2
      /\ Is(ops[1], "stop", s) /\ Is(ops[2], "fail", s)
  <2>1. /\ Op("stop", s) \in Ops /\ Is(Op("stop", s), "stop", s)
        /\ Op("fail", s) \in Ops /\ Is(Op("fail", s), "fail", s)
    BY OpIs DEF Names
  <2> QED
    BY <2>1
<1> HIDE DEF ops
<1>4. /\ todo' \in [Handler -> Seq(Ops)] /\ todo'[h] = ops
      /\ \A g \in Handler : g # h => todo'[g] = todo[g]
  BY <1>1, <1>2, <1>3
<1>5. /\ run' \in RunMaps
      /\ run'[h].kind = run[h].kind /\ run'[h].mine = run[h].mine /\ run'[h].lost = run[h].lost
      /\ run'[h].started = run[h].started
      /\ run'[h].failed = run[h].failed /\ run'[h].stopping = run[h].stopping
      /\ \A g \in Handler : g # h => run'[g] = run[g]
  <2>1. None \in Child \cup {None}
    OBVIOUS
  <2> QED
    BY <1>1, <1>2, <2>1, HandChanges
<1>6. StackTypeOK'
  BY <1>1, <1>2, <1>4, <1>5, TypesNamed, TypesNamedNext
<1>7. RoleOK(h)' /\ ~Ending(h)'
  BY <1>1, <1>2, <1>5, StarterRole
<1>8. ASSUME NoneGone PROVE KnownBy(h)' /\ StarterOK(h)'
  <2>1. KnownBy(h) /\ Accounted(h) /\ OfItsKind(h)
    BY <1>1, <1>8, StarterKnows
  <2>2. \A n \in Names, r \in Service : At(h, n, r)' => n = "stop" /\ r = s
    BY <1>3, <1>4, AtNext DEF Names
  <2>3. \A r \in Service : alive[r] \subseteq {recorded[r]}
    BY <1>1, <2>1 DEF KnownBy, Names
  <2>4. KnownBy(h)'
    BY <1>2, <2>2, <2>3 DEF KnownBy, Names
  <2>5. \A i \in 1..Len(ops) : ops[i].name \in {"stop", "fail"}
    BY <1>3 DEF Is
  <2>6. InOrder(todo[h])'
    BY <1>4, <2>5 DEF InOrder
  <2>7. HoldsRecorded(h)'
    BY <2>2 DEF HoldsRecorded, Names
  <2>8. Accounted(h)'
    <3>1. ASSUME NEW p \in Owed(run[h]), p[2] \in alive[p[1]]
          PROVE  \/ p[1] = s
                 \/ run[h].kind = "start_stack"
                 \/ run[h].kind = "cowork" /\ p[1] \in run[h].started
      BY <1>0, <1>1, <2>1, <3>1, OfTheRun
    <3>2. Len(todo'[h]) = 2 /\ Halts(todo'[h][1], s) /\ Is(todo'[h][2], "fail", s)
      BY <1>3, <1>4 DEF Is, Halts
    <3> QED
      BY <1>2, <1>5, <1>7, <3>1, <3>2, OwedSame, ZenonT(30) DEF Accounted
  <2>9. OfItsKind(h)'
    BY <1>4, <1>5, <2>1, <2>5 DEF OfItsKind
  <2> QED
    BY <2>4, <2>6, <2>7, <2>8, <2>9 DEF StarterOK
<1> QED
  BY <1>1, <1>2, <1>4, <1>5, <1>6, <1>7, <1>8, StarterStep

(* A handler is asked to do something, and is no starter before.           *)
LEMMA PressInv ==
  ASSUME OneStarter, StackIInv, NEW h \in Handler, Press(h)
  PROVE  StackIInv'
<1>0. PICK kind \in program[h] : \E ops \in Work(kind) :
        /\ kind = "cowork" => run[h].kind = "idle"
        /\ run' = [run EXCEPT ![h] = [Idle EXCEPT !.kind = kind]]
        /\ todo' = [todo EXCEPT ![h] = ops]
  BY DEF Press, Instead
<1>1. PICK ops \in Work(kind) :
        /\ kind = "cowork" => run[h].kind = "idle"
        /\ run' = [run EXCEPT ![h] = [Idle EXCEPT !.kind = kind]]
        /\ todo' = [todo EXCEPT ![h] = ops]
  BY <1>0
<1>2. todo[h] = <<>> /\ UNCHANGED <<program, spawned, alive, recorded>>
  BY DEF Press
<1>3. /\ StackTypeOK /\ program \in Programs /\ RoleOK(h)
      /\ todo \in [Handler -> Seq(Ops)] /\ run \in RunMaps
  BY TypesNamed DEF StackIInv
<1>4. kind \in Kind
  BY <1>3, StackAssumption
<1>5. /\ Fresh(ops) /\ ops \in Seq(Ops)
      /\ kind \notin Starts => OnlyHalts(ops)
      /\ kind # "cowork" => Spawns(ops, Service)
      /\ kind = "start_stack" => Spawns(ops, Service \ {"knowledge"})
      /\ kind = "start_proxy" => \A i \in 1..Len(ops) : ops[i].name = "poll" => i = Len(ops)
  BY <1>4, WorkList DEF Fresh
<1> DEFINE r == [Idle EXCEPT !.kind = kind]
<1>6. /\ r \in Runs /\ r.kind = kind /\ r.mine = {} /\ ~r.failed /\ ~r.stopping
  BY <1>4 DEF Idle, Runs
<1> HIDE DEF r
<1>7. run' \in RunMaps /\ run'[h] = r /\ \A g \in Handler : g # h => run'[g] = run[g]
  <2>1. run' = [run EXCEPT ![h] = r]
    BY <1>1 DEF r
  <2> QED
    BY <1>3, <1>6, <2>1 DEF RunMaps
<1>8. /\ todo' \in [Handler -> Seq(Ops)] /\ todo'[h] = ops
      /\ \A g \in Handler : g # h => todo'[g] = todo[g]
  BY <1>1, <1>3, <1>5
<1>9. StackTypeOK'
  BY <1>2, <1>3, <1>7, <1>8, TypesNamed, TypesNamedNext
<1>10. run[h].kind # "gone"
  BY <1>1, <1>3 DEF RoleOK
<1>11. OnlyHalts(todo[h])
  BY <1>2, EmptyList
<1>12. RoleOK(h)'
  <2>1. ~Ending(h)'
    BY <1>6, <1>7 DEF Ending
  <2>2. run'[h].kind = kind /\ run'[h].mine = {} /\ kind # "gone"
    BY <1>4, <1>6, <1>7 DEF Kind
  <2> QED
    BY <1>2, <1>5, <1>8, <2>1, <2>2 DEF RoleOK
<1>13. \A s \in Service : ~At(h, "record", s)' /\ ~At(h, "poll", s)' /\ ~At(h, "end", s)'
  BY <1>5, <1>8, FreshHolds
<1>14. StarterOK(h)'
  <2>1. InOrder(ops)
    BY <1>5, FreshInOrder
  <2>2. InOrder(todo[h])'
    BY <1>2, <1>8, <2>1 DEF InOrder, Stopped
  <2>3. HoldsRecorded(h)'
    BY <1>13 DEF HoldsRecorded
  <2>4. Accounted(h)'
    BY <1>6, <1>7 DEF Accounted, Owed
  <2>5. OfItsKind(h)'
    <3>1. run'[h].kind = kind /\ run'[h].mine = {}
      BY <1>6, <1>7
    <3>2. \A i \in 1..Len(ops) : ops[i].service \in Service
      BY <1>5, OpTyped
    <3>3. kind # "cowork" => \A i \in 1..Len(ops) : ops[i].name # "watch"
      BY <1>5 DEF Spawns
    <3>4. kind = "start_stack" =>
            \A i \in 1..Len(ops) : ops[i].name = "spawn" => ops[i].service # "knowledge"
      BY <1>5 DEF Spawns
    <3> QED
      BY <1>5, <1>8, <3>1, <3>3, <3>4 DEF OfItsKind
  <2> QED
    BY <2>2, <2>3, <2>4, <2>5 DEF StarterOK
<1> QED
  BY <1>2, <1>7, <1>8, <1>9, <1>10, <1>11, <1>12, <1>13, <1>14, HelperStep

(* rlm-cowork looks after its children. *)
LEMMA WatchesOn ==
  ASSUME OneStarter, StackIInv, NEW h \in Handler, At(h, "watch", "webui"),
         NEW b \in BOOLEAN, run' = [run EXCEPT ![h].locked = b],
         UNCHANGED <<program, spawned, alive, recorded, todo>>
  PROVE  StackIInv'
<1>0. "watch" \in Names \ {"stop", "end"} /\ "webui" \in Service
  BY Services DEF Names
<1>1. /\ StackTypeOK /\ program \in Programs /\ RoleOK(h)
      /\ todo \in [Handler -> Seq(Ops)] /\ run \in RunMaps /\ run[h] \in Runs
      /\ run[h].kind \in Starts /\ ~Ending(h)
  BY <1>0, AtFacts
<1>2. /\ run' \in RunMaps /\ run'[h].hand = run[h].hand
      /\ run'[h].kind = run[h].kind /\ run'[h].mine = run[h].mine /\ run'[h].lost = run[h].lost
      /\ run'[h].started = run[h].started
      /\ run'[h].failed = run[h].failed /\ run'[h].stopping = run[h].stopping
      /\ \A g \in Handler : g # h => run'[g] = run[g]
  BY <1>1 DEF Runs, RunMaps
<1>3. StackTypeOK'
  BY <1>1, <1>2, TypesNamed, TypesNamedNext
<1>4. RoleOK(h)'
  BY <1>1, <1>2, StarterRole
<1>5. ASSUME NoneGone PROVE KnownBy(h)' /\ StarterOK(h)'
  <2>1. /\ KnownBy(h) /\ InOrder(todo[h]) /\ HoldsRecorded(h) /\ Accounted(h)
        /\ OfItsKind(h)
    BY <1>1, <1>5, StarterKnows
  <2>2. \A n, s : At(h, n, s)' = At(h, n, s)
    BY DEF At
  <2>3. KnownBy(h)'
    BY <1>2, <2>1, <2>2 DEF KnownBy
  <2>4. InOrder(todo[h])'
    BY <2>1 DEF InOrder, Stopped
  <2>5. HoldsRecorded(h)'
    BY <1>2, <2>1, <2>2 DEF HoldsRecorded
  <2>6. Accounted(h)'
    <3>1. Owed(run'[h]) = Owed(run[h])
      BY <1>2, OwedSame
    <3>2. Ending(h)' = Ending(h)
      BY <1>2 DEF Ending
    <3> QED
      BY <1>2, <2>1, <2>2, <3>1, <3>2 DEF Accounted
  <2>7. OfItsKind(h)'
    BY <1>2, <2>1 DEF OfItsKind
  <2> QED
    BY <2>3, <2>4, <2>5, <2>6, <2>7 DEF StarterOK
<1> QED
  BY <1>1, <1>2, <1>3, <1>4, <1>5, StarterStep

(* rlm-cowork stops what it has started. *)
LEMMA StopsAll ==
  ASSUME OneStarter, StackIInv, NEW h \in Handler, At(h, "watch", "webui"),
         run' \in RunMaps, run'[h].kind = run[h].kind, run'[h].mine = run[h].mine /\ run'[h].lost = run[h].lost,
         run'[h].stopping = TRUE, \A g \in Handler : g # h => run'[g] = run[g],
         Instead(h, StopStarted(run[h].started)),
         UNCHANGED <<program, spawned, alive, recorded>>
  PROVE  StackIInv'
<1> DEFINE c == StopStarted(run[h].started)
<1>0. "watch" \in Names \ {"stop", "end"} /\ "webui" \in Service
  BY Services DEF Names
<1>1. /\ StackTypeOK /\ program \in Programs /\ RoleOK(h)
      /\ todo \in [Handler -> Seq(Ops)] /\ run[h] \in Runs /\ run[h].started \in SUBSET Service
      /\ todo[h] \in Seq(Ops) /\ Len(todo[h]) >= 1 /\ Is(todo[h][1], "watch", "webui")
      /\ run[h].kind \in Starts /\ ~Ending(h)
      /\ \A n \in Names, r \in Service : At(h, n, r) => n = "watch" /\ r = "webui"
  BY <1>0, AtFacts DEF Runs
<1>2. /\ Fresh(c) /\ OnlyHalts(c) /\ c \in Seq(Ops)
      /\ \A s \in run[h].started : HaltsOne(c, s)
  BY <1>1, StopStartedList DEF Fresh
<1>3. todo' = [todo EXCEPT ![h] = c]
  BY DEF Instead
<1> HIDE DEF c
<1>4. /\ todo' \in [Handler -> Seq(Ops)] /\ todo'[h] = c
      /\ \A g \in Handler : g # h => todo'[g] = todo[g]
  BY <1>1, <1>2, <1>3
<1>5. StackTypeOK'
  BY <1>1, <1>4, TypesNamed, TypesNamedNext
<1>6. RoleOK(h)'
  BY <1>1, <1>2, <1>4 DEF RoleOK, Starts
<1>7. ASSUME NoneGone PROVE KnownBy(h)' /\ StarterOK(h)'
  <2>1. Accounted(h) /\ OfItsKind(h)
    BY <1>1, <1>7, StarterKnows
  <2>2. run[h].kind = "cowork"
    <3>1. 1 \in 1..Len(todo[h]) /\ todo[h][1].name = "watch"
      BY <1>1 DEF Is
    <3> QED
      BY <2>1, <3>1 DEF OfItsKind
  <2>3. ASSUME NEW p \in Owed(run[h]), p[2] \in alive[p[1]] PROVE HaltsOne(c, p[1])
    <3>1. p[1] \in run[h].started
      BY <1>0, <1>1, <2>1, <2>2, <2>3, OfTheRun, SMTT(30)
    <3> QED
      BY <1>2, <3>1
  <2>4. Ending(h)'
    BY DEF Ending
  <2>5. \A s \in Service : ~At(h, "record", s)
    BY <1>1 DEF Names
  <2>6. Owed(run'[h]) = Owed(run[h])
    BY OwedSame
  <2> QED
    BY <1>1, <1>2, <1>4, <1>7, <2>3, <2>4, <2>5, <2>6, CleansUp
<1> QED
  BY <1>1, <1>4, <1>5, <1>6, <1>7, StarterStep

(* A run that has entered stop_process. *)
LEMMA StoppingSet ==
  ASSUME NEW q \in RunMaps, NEW h \in Handler
  PROVE  LET r == [q EXCEPT ![h].stopping = TRUE] IN
         /\ r \in RunMaps /\ r[h].kind = q[h].kind /\ r[h].mine = q[h].mine /\ r[h].lost = q[h].lost
         /\ r[h].stopping = TRUE
         /\ \A g \in Handler : g # h => r[g] = q[g]
<1> DEFINE x == [q[h] EXCEPT !.stopping = TRUE]
<1>1. q[h] \in Runs
  BY DEF RunMaps
<1>2. /\ x \in Runs /\ x.kind = q[h].kind /\ x.mine = q[h].mine /\ x.lost = q[h].lost /\ x.stopping = TRUE
  BY <1>1 DEF Runs
<1>3. [q EXCEPT ![h].stopping = TRUE] = [q EXCEPT ![h] = x]
  OBVIOUS
<1> HIDE DEF x
<1> QED
  BY <1>2, <1>3 DEF RunMaps

(* A run that has let go of the lock. *)
LEMMA LockLeft ==
  ASSUME NEW q \in RunMaps, NEW h \in Handler
  PROVE  LET r == [q EXCEPT ![h].locked = FALSE] IN
         /\ r \in RunMaps /\ r[h].kind = q[h].kind /\ r[h].mine = q[h].mine /\ r[h].lost = q[h].lost
         /\ \A g \in Handler : g # h => r[g] = q[g]
<1> DEFINE x == [q[h] EXCEPT !.locked = FALSE]
<1>1. q[h] \in Runs
  BY DEF RunMaps
<1>2. /\ x \in Runs /\ x.kind = q[h].kind /\ x.mine = q[h].mine /\ x.lost = q[h].lost /\ x.locked = FALSE
  BY <1>1 DEF Runs
<1>3. [q EXCEPT ![h].locked = FALSE] = [q EXCEPT ![h] = x]
  OBVIOUS
<1> HIDE DEF x
<1> QED
  BY <1>2, <1>3 DEF RunMaps

(* The loop of rlm-cowork. *)
LEMMA WatchInv ==
  ASSUME OneStarter, StackIInv, NEW h \in Handler, Watch(h)
  PROVE  StackIInv'
<1>1. At(h, "watch", "webui") /\ UNCHANGED <<program, spawned, alive, recorded>>
  BY DEF Watch, WatchLocks, WatchLooks
<1>2. CASE WatchLocks(h)
  BY <1>1, <1>2, WatchesOn DEF WatchLocks
<1>3. CASE WatchLooks(h) /\ recorded["webui"] \in alive["webui"]
  BY <1>1, <1>3, WatchesOn DEF WatchLooks
<1>4. CASE WatchLooks(h) /\ recorded["webui"] \notin alive["webui"]
  <2> DEFINE q == [run EXCEPT ![h].locked = FALSE]
  <2>1. run' = [q EXCEPT ![h].stopping = TRUE] /\ Instead(h, StopStarted(run[h].started))
    BY <1>4 DEF WatchLooks
  <2>2. run \in RunMaps
    BY TypesNamed DEF StackIInv
  <2>3. /\ q \in RunMaps /\ q[h].kind = run[h].kind /\ q[h].mine = run[h].mine /\ q[h].lost = run[h].lost
        /\ \A g \in Handler : g # h => q[g] = run[g]
    BY <2>2, LockLeft
  <2> HIDE DEF q
  <2>4. run' = [q EXCEPT ![h].stopping = TRUE]
    BY <2>1
  <2>5. /\ run' \in RunMaps /\ run'[h].kind = q[h].kind /\ run'[h].mine = q[h].mine /\ run'[h].lost = q[h].lost
        /\ run'[h].stopping = TRUE
        /\ \A g \in Handler : g # h => run'[g] = q[g]
    BY <2>3, <2>4, StoppingSet
  <2>6. Instead(h, StopStarted(run[h].started))
    BY <2>1
  <2>7. /\ run' \in RunMaps /\ run'[h].kind = run[h].kind /\ run'[h].mine = run[h].mine /\ run'[h].lost = run[h].lost
        /\ run'[h].stopping = TRUE
        /\ \A g \in Handler : g # h => run'[g] = run[g]
    BY <2>3, <2>5
  <2> QED
    BY <1>1, <2>6, <2>7, StopsAll
<1> QED
  BY <1>2, <1>3, <1>4 DEF Watch

(* A signal that a handler catches. *)
LEMMA SignalInv ==
  ASSUME OneStarter, StackIInv, NEW h \in Handler, Signal(h)
  PROVE  StackIInv'
<1>1. run \in RunMaps
  BY TypesNamed DEF StackIInv
<1>2. /\ run' \in RunMaps /\ run'[h].kind = run[h].kind /\ run'[h].mine = run[h].mine /\ run'[h].lost = run[h].lost
      /\ run'[h].stopping = TRUE
      /\ \A g \in Handler : g # h => run'[g] = run[g]
  BY <1>1, StoppingSet DEF Signal
<1> QED
  BY <1>2, StopsAll DEF Signal

(* A signal that ends the process: nothing is promised any more. *)
LEMMA KilledInv ==
  ASSUME OneStarter, StackIInv, NEW h \in Handler, Killed(h)
  PROVE  StackIInv'
<1>1. /\ StackTypeOK /\ program \in Programs /\ \A g \in Handler : RoleOK(g)
      /\ todo \in [Handler -> Seq(Ops)] /\ run \in RunMaps
  BY TypesNamed DEF StackIInv
<1>2. /\ run[h].kind = "cowork" /\ run' = [run EXCEPT ![h].kind = "gone"]
      /\ todo' = [todo EXCEPT ![h] = <<>>]
      /\ UNCHANGED <<program, spawned, alive, recorded>>
  BY DEF Killed
<1>3. program[h] = {"cowork"}
  BY <1>1, <1>2, CoworkIsAlone
<1>4. /\ run' \in RunMaps /\ run'[h].kind = "gone"
      /\ \A g \in Handler : g # h => run'[g] = run[g]
  <2>1. run \in RunMaps /\ run' = [run EXCEPT ![h].kind = "gone"]
    BY <1>1, <1>2
  <2> QED
    BY ONLY <2>1, h \in Handler DEF Runs, RunMaps
<1>5. <<>> \in Seq(Ops)
  OBVIOUS
<1>6. /\ todo' \in [Handler -> Seq(Ops)] /\ todo'[h] = <<>>
      /\ \A g \in Handler : g # h => todo'[g] = todo[g]
  BY <1>1, <1>2, <1>5
<1>7. StackTypeOK'
  BY <1>1, <1>2, <1>4, <1>6, TypesNamed, TypesNamedNext
<1>8. RoleOK(h)'
  BY <1>2, <1>3, <1>4, <1>6, EmptyList DEF RoleOK
<1>9. \A g \in Handler : g # h => RoleOK(g)'
  BY <1>1, <1>2, <1>4, <1>6, KeepsRole
<1>10. ~NoneGone'
  BY <1>4 DEF NoneGone
<1> QED
  BY <1>1, <1>2, <1>7, <1>8, <1>9, <1>10 DEF StackIInv

(* At first no child runs and no handler has anything to do.               *)
LEMMA StackInitInv ==
  ASSUME StackInit
  PROVE  StackIInv
<1>1. /\ program \in Programs /\ alive = [s \in Service |-> {}]
      /\ spawned = [s \in Service |-> 0] /\ recorded = [s \in Service |-> None]
      /\ todo = [h \in Handler |-> <<>>] /\ run = [h \in Handler |-> Idle]
  BY DEF StackInit
<1>2. Idle \in Runs /\ Idle.kind = "idle" /\ Idle.mine = {} /\ ~Idle.failed /\ ~Idle.stopping
  BY DEF Idle, Runs
<1>3. \A h \in Handler : todo[h] = <<>> /\ run[h] = Idle
  BY <1>1
<1>4. StackTypeOK
  <2>1. /\ spawned \in [Service -> 0..MaxSpawn] /\ alive \in [Service -> SUBSET Child]
        /\ recorded \in [Service -> Child \cup {None}]
    BY <1>1, StackAssumption
  <2>2. todo \in [Handler -> Seq(Ops)] /\ run \in RunMaps
    BY <1>1, <1>2 DEF RunMaps
  <2> QED
    BY <2>1, <2>2, TypesNamed
<1>5. ASSUME NEW h \in Handler PROVE RoleOK(h) /\ StarterOK(h)
  BY <1>2, <1>3, EmptyList DEF RoleOK, StarterOK, Ending, Starts
<1>6. \A s \in Service : alive[s] = {}
  BY <1>1
<1>7. Known
  BY <1>6 DEF Known
<1> QED
  BY <1>1, <1>4, <1>5, <1>7 DEF StackIInv

(* Every step keeps the invariant. *)
LEMMA StackNextInv ==
  ASSUME OneStarter, StackIInv, [StackNext]_stackVars
  PROVE  StackIInv'
<1>1. ASSUME NEW h \in Handler, Press(h) \/ Watch(h) \/ Signal(h) \/ Killed(h)
      PROVE  StackIInv'
  BY <1>1, PressInv, WatchInv, SignalInv, KilledInv
<1>2. ASSUME NEW h \in Handler, NEW s \in Service, Work1(h, s) PROVE StackIInv'
  BY <1>2, StopReadsInv, StopEndsInv, CheckInv, SpawnInv, RecordInv, PollConnectsInv,
     PollFindsExitInv, PollRaisesInv, PollTimesOutInv, RaiseTimeoutInv DEF Work1
<1>3. ASSUME NEW s \in Service, NEW c \in Child, Dies(s, c) PROVE StackIInv'
  BY <1>3, DiesInv
<1>4. CASE UNCHANGED stackVars
  <2>1. UNCHANGED <<program, spawned, alive, recorded, todo, run>>
    BY <1>4 DEF stackVars
  <2>2. StackTypeOK'
    BY <2>1 DEF StackIInv, StackTypeOK
  <2>3. \A h \in Handler : RoleOK(h)'
    BY <2>1, KeepsRole DEF StackIInv
  <2>4. NoneGone => \A h \in Handler : StarterOK(h)'
    BY <2>1, KeepsStarter DEF StackIInv
  <2>5. \A h \in Handler, r \in Service : At(h, "record", r)' = At(h, "record", r)
    BY <2>1 DEF At
  <2>6. (Known => Known') /\ (NoneGone' => NoneGone)
    BY <2>1, <2>5 DEF Known, NoneGone
  <2> QED
    BY <2>1, <2>2, <2>3, <2>4, <2>6 DEF StackIInv
<1> QED
  BY <1>1, <1>2, <1>3, <1>4 DEF StackNext

(* The invariant holds in every state of a program in which one thread at  *)
(* most starts services, as when one of the two start buttons is used      *)
(* (stack_ui.py 199, ui.py 247), or of rlm-cowork, with any number of      *)
(* threads beside it that stop them.                                       *)
THEOREM StackInvariant ==
  ASSUME OneStarter
  PROVE  StackSpec => []StackIInv
<1>1. StackInit => StackIInv
  BY StackInitInv
<1>2. StackIInv /\ [StackNext]_stackVars => StackIInv'
  BY StackNextInv
<1> QED
  BY <1>1, <1>2, PTL DEF StackSpec

(* The state has its type. *)
THEOREM TypeCorrect ==
  ASSUME OneStarter
  PROVE  StackSpec => []StackTypeOK
<1>1. StackIInv => StackTypeOK
  BY DEF StackIInv
<1> QED
  BY <1>1, StackInvariant, PTL

(* A service has at most one child, which its manager knows of or is about *)
(* to, whatever the other threads stop, and whenever children die          *)
(* (managed_llama.py 86, managed_proxy.py 105).                            *)
THEOREM NoOrphanHolds ==
  ASSUME OneStarter
  PROVE  StackSpec => []NoOrphan
<1>1. ASSUME NEW S, NEW x, S \subseteq {x} PROVE Cardinality(S) <= 1
  <2>1. S = {} \/ S = {x}
    BY <1>1
  <2>2. Cardinality({}) = 0 /\ Cardinality({x}) = 1
    BY FS_EmptySet, FS_Singleton
  <2> QED
    BY <2>1, <2>2
<1>2. ASSUME StackIInv, NoneGone, NEW s \in Service
      PROVE  alive[s] \subseteq {recorded[s]} \cup InHand(s) /\ Cardinality(alive[s]) <= 1
  <2>1. Known
    BY <1>2 DEF StackIInv
  <2>2. CASE \E h \in Handler : At(h, "record", s)
    <3>1. PICK h \in Handler : At(h, "record", s)
      BY <2>2
    <3>2. alive[s] \subseteq {run[h].hand} /\ run[h].hand \in InHand(s)
      BY <2>1, <3>1 DEF Known, InHand
    <3> QED
      BY <1>1, <3>2
  <2>3. CASE \A h \in Handler : ~At(h, "record", s)
    <3>1. alive[s] \subseteq {recorded[s]}
      BY <2>1, <2>3 DEF Known
    <3> QED
      BY <1>1, <3>1
  <2> QED
    BY <2>2, <2>3
<1>3. StackIInv => NoOrphan
  BY <1>2 DEF NoOrphan, NoneGone
<1> QED
  BY <1>3, StackInvariant, PTL

(* A start that fails, and a run of rlm-cowork that ends, leaves none of   *)
(* its children running, but the one whose own start raised what its       *)
(* manager does not catch (stack_ui.py 97, cowork.py 109, 183).            *)
THEOREM NothingLeftBehindHolds ==
  ASSUME OneStarter
  PROVE  StackSpec => []NothingLeftBehind
<1>1. ASSUME StackIInv, NEW h \in Handler, todo[h] = <<>>, run[h].kind # "gone", Ending(h),
             NEW p \in Owed(run[h])
      PROVE  p[2] \notin alive[p[1]]
  <2>1. program \in Programs /\ RoleOK(h)
    BY <1>1 DEF StackIInv
  <2>2. run[h].kind \in Starts
    BY <1>1, <2>1 DEF RoleOK, Owed
  <2>3. run[h].kind \in program[h]
    BY <2>1, <2>2 DEF RoleOK, Starts
  <2>4. NoneGone
    <3> SUFFICES ASSUME NEW g \in Handler, run[g].kind = "gone" PROVE FALSE
      BY DEF NoneGone
    <3>1. program[g] = {"cowork"}
      BY <1>1 DEF StackIInv, RoleOK
    <3>2. "cowork" \in program[g] \cap Starts /\ run[h].kind \in program[h] \cap Starts
      BY <2>2, <2>3, <3>1 DEF Starts
    <3>3. h = g
      BY <2>1, <3>2 DEF OneStarter
    <3> QED
      BY <1>1, <3>3
  <2>5. Accounted(h)
    BY <1>1, <2>2, <2>4, StarterKnows
  <2>6. Len(todo[h]) = 0
    BY <1>1
  <2> QED
    BY <1>1, <2>5, <2>6 DEF Accounted
<1>2. StackIInv => NothingLeftBehind
  BY <1>1 DEF NothingLeftBehind, Ending
<1> QED
  BY <1>2, StackInvariant, PTL
=============================================================================
