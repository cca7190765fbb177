--------------------------- MODULE ChatProxy_proofs ---------------------------
(***************************************************************************)
(* Proofs about the proxy's own state: the requests it has under way, and  *)
(* the cache of its knowledge client.                                      *)
(*                                                                         *)
(* ChatProxy: for any number of requests, whatever the catalogs and        *)
(* however they change while requests are under way, a request is routed   *)
(* to what the router was shown, the metrics count every answer once, and  *)
(* the RLM is run with the whole of the message: the windows of a text of  *)
(* any number of lines of any length leave nothing of it out.              *)
(* KnowledgeClient: for any number of threads, queries, entries and edits, *)
(* the cache answers with what it may still answer with.                   *)
(***************************************************************************)
EXTENDS ChatProxy, KnowledgeClient, FiniteSetTheorems, WellFoundedInduction, TLAPS

-----------------------------------------------------------------------------
(* Minimum and maximum.                                                    *)

(* The smaller and the larger of two numbers. *)
LEMMA MinMaxOfTwo ==
  ASSUME NEW a \in Int, NEW b \in Int
  PROVE  /\ Min({a, b}) = IF a <= b THEN a ELSE b
         /\ Max({a, b}) = IF a <= b THEN b ELSE a
<1> DEFINE small == IF a <= b THEN a ELSE b
           large == IF a <= b THEN b ELSE a
<1>1. /\ small \in {a, b} /\ \A y \in {a, b} : small <= y
      /\ large \in {a, b} /\ \A y \in {a, b} : large >= y
  OBVIOUS
<1>2. /\ \A x \in {a, b} : (\A y \in {a, b} : x <= y) => x = small
      /\ \A x \in {a, b} : (\A y \in {a, b} : x >= y) => x = large
  OBVIOUS
<1> HIDE DEF small, large
<1>3. Min({a, b}) \in {a, b} /\ \A y \in {a, b} : Min({a, b}) <= y
  BY <1>1 DEF Min
<1>4. Max({a, b}) \in {a, b} /\ \A y \in {a, b} : Max({a, b}) >= y
  BY <1>1 DEF Max
<1>5. Min({a, b}) = small /\ Max({a, b}) = large
  BY <1>2, <1>3, <1>4
<1> QED
  BY <1>5 DEF small, large

(* More history is asked for within the limit. *)
LEMMA NextTurnCountInRange ==
  ASSUME NEW n \in 0..MaxTurnCount
  PROVE  NextTurnCount(n) \in 0..MaxTurnCount
<1>1. MaxTurnCount \in Nat
  BY ChatAssumption
<1> DEFINE a == n + 1
           b == n * 2
<1>2. a \in Int /\ b \in Int /\ a \in Nat /\ b \in Nat
  BY <1>1
<1> HIDE DEF a, b
<1>6. Max({a, b}) = IF a <= b THEN b ELSE a
  BY ONLY MinMaxOfTwo, <1>2
<1>3. Max({a, b}) \in Nat
  BY <1>6, <1>2
<1> DEFINE c == Max({a, b})
<1> HIDE DEF c
<1>4. c \in Nat
  BY <1>3 DEF c
<1>5. Min({MaxTurnCount, c}) \in 0..MaxTurnCount
  BY <1>1, <1>4, MinMaxOfTwo
<1> QED
  BY <1>5 DEF NextTurnCount, a, b, c

-----------------------------------------------------------------------------
(* How a message is cut: the rounds of the loop over its units.            *)

(* What holds of no unit before it first holds holds of none: the rounds   *)
(* are counted up from the first.                                          *)
LEMMA CountedUp ==
  ASSUME NEW S \in SUBSET Nat, 0 \in S, \A m \in S : m + 1 \in S
  PROVE  S = Nat
<1> SUFFICES ASSUME S # Nat
             PROVE  FALSE
  OBVIOUS
<1> DEFINE T == Nat \ S
           Less == OpToRel(<, Nat)
<1>1. T \subseteq Nat /\ T # {}
  OBVIOUS
<1>2. IsWellFoundedOn(Less, Nat)
  BY NatLessThanWellFounded, Zenon
<1>3. \A x, y \in Nat : x < y => <<x, y>> \in Less
  BY Zenon DEF OpToRel
<1> HIDE DEF Less
<1>4. \E x \in T : \A y \in T : ~(<<y, x>> \in Less)
  BY <1>1, <1>2, WFMin, Zenon
<1>5. PICK x \in T : \A y \in T : ~(<<y, x>> \in Less)
  BY <1>4
<1>6. x \in Nat /\ x # 0 /\ x - 1 \in Nat /\ x - 1 < x /\ (x - 1) + 1 = x
  OBVIOUS
<1>7. x - 1 \notin T
  BY <1>3, <1>5, <1>6
<1>8. x \in S
  BY <1>6, <1>7
<1> QED
  BY <1>5, <1>8

(* The rounds exist, and each goes on from the one before.                 *)
LEMMA RoundsFollow ==
  ASSUME NEW text, Len(text) \in Nat
  PROVE  /\ Rounds(text)[0] = NoWindow
         /\ \A i \in 1..Len(text) :
                Rounds(text)[i] = AddUnit(Rounds(text)[i - 1], Unit(text, i))
<1> DEFINE IsRounds(f, n) ==
             f = [i \in 0..n |-> IF i = 0 THEN NoWindow
                                 ELSE AddUnit(f[i - 1], Unit(text, i))]
           S == {n \in Nat : \E f : IsRounds(f, n)}
<1>1. 0 \in S
  <2>1. IsRounds([i \in 0..0 |-> NoWindow], 0)
    OBVIOUS
  <2> QED
    BY <2>1
<1>2. ASSUME NEW m \in S
      PROVE  m + 1 \in S
  <2>1. m \in Nat
    OBVIOUS
  <2>2. PICK f : IsRounds(f, m)
    OBVIOUS
  <2> DEFINE last == AddUnit(f[m], Unit(text, m + 1))
             g == [i \in 0..(m + 1) |-> IF i <= m THEN f[i] ELSE last]
  <2>3. \A i \in 0..m : f[i] = IF i = 0 THEN NoWindow ELSE AddUnit(f[i - 1], Unit(text, i))
    BY <2>2
  <2> HIDE DEF last
  <2>4. \A i \in 0..m : g[i] = f[i]
    BY <2>1
  <2>5. g[m + 1] = last
    BY <2>1
  <2>6. g = [i \in 0..(m + 1) |-> g[i]]
    OBVIOUS
  <2> HIDE DEF g
  <2>7. ASSUME NEW i \in 0..(m + 1)
        PROVE  g[i] = IF i = 0 THEN NoWindow ELSE AddUnit(g[i - 1], Unit(text, i))
    <3>1. CASE i = 0
      BY <2>1, <2>3, <2>4, <3>1
    <3>2. CASE i \in 1..m
      <4>1. i - 1 \in 0..m
        BY <2>1, <3>2
      <4> QED
        BY <2>1, <2>3, <2>4, <3>2, <4>1
    <3>3. CASE i = m + 1
      <4>1. i - 1 = m /\ m \in 0..m /\ i # 0
        BY <2>1, <3>3
      <4> QED
        BY <2>4, <2>5, <3>3, <4>1 DEF last
    <3> QED
      BY <2>1, <3>1, <3>2, <3>3
  <2>8. IsRounds(g, m + 1)
    BY <2>6, <2>7
  <2> HIDE DEF IsRounds
  <2>9. \E h : IsRounds(h, m + 1)
    BY <2>8
  <2> QED
    BY <2>1, <2>9
<1>3. S = Nat
  <2> HIDE DEF S
  <2>1. S \in SUBSET Nat
    BY DEF S
  <2> QED
    BY <1>1, <1>2, <2>1, CountedUp
<1>4. \E f : IsRounds(f, Len(text))
  BY <1>3
<1>5. IsRounds(Rounds(text), Len(text))
  BY <1>4 DEF Rounds
<1> HIDE DEF S
<1>6. \A i \in 0..Len(text) :
        Rounds(text)[i] = IF i = 0 THEN NoWindow
                          ELSE AddUnit(Rounds(text)[i - 1], Unit(text, i))
  BY <1>5
<1> QED
  BY <1>6

-----------------------------------------------------------------------------
(* How a message is cut: the windows of one long unit.                     *)

(* The quotient of a division, and what is left of it. *)
LEMMA Division ==
  ASSUME NEW a \in Nat, NEW b \in Nat \ {0}
  PROVE  a \div b \in Nat /\ (a \div b) * b <= a /\ a < (a \div b) * b + b
  OBVIOUS

(* A product grows with its first factor. *)
LEMMA ProductGrows ==
  ASSUME NEW a \in Nat, NEW b \in Nat, NEW c \in Nat
  PROVE  a * c \in Nat /\ (a <= b => a * c <= b * c)
         /\ (a < b => a * c + c <= b * c)
<1>1. a * c \in Nat /\ (a + 1) * c = a * c + c
  OBVIOUS
<1>2. ASSUME a <= b
      PROVE  a * c <= b * c
  <2>1. b - a \in Nat /\ (b - a) * c \in Nat /\ b * c = a * c + (b - a) * c
    BY <1>2
  <2> QED
    BY <1>1, <2>1
<1>3. ASSUME a < b
      PROVE  a * c + c <= b * c
  <2>1. b - a - 1 \in Nat /\ (b - a - 1) * c \in Nat /\ b * c = a * c + c + (b - a - 1) * c
    BY <1>3
  <2> QED
    BY <1>1, <2>1
<1> QED
  BY <1>1, <1>2, <1>3

(* A set of pieces that has a character of a unit. *)
Has(pieces, u, c) == \E p \in pieces : p[1] = u /\ p[2] <= c /\ c < p[3]

(* The code points a single piece has. *)
LEMMA HasPiece ==
  ASSUME NEW u, NEW from, NEW to, NEW c, from <= c, c < to
  PROVE  Has({<<u, from, to>>}, u, c)
<1> DEFINE p == <<u, from, to>>
<1>1. p \in {p} /\ p[1] = u /\ p[2] = from /\ p[3] = to
  OBVIOUS
<1> HIDE DEF p
<1>2. Has({p}, u, c)
  BY <1>1 DEF Has
<1> QED
  BY <1>2 DEF p

(* The number of windows is the least that reaches the end of the unit.    *)
LEMMA SlicesReach ==
  ASSUME NEW u, u.len \in Nat, u.len > WindowChars
  PROVE  /\ SliceCount(u) \in Nat \ {0} /\ Stride \in Nat \ {0}
         /\ (SliceCount(u) - 1) * Stride <= u.len - OverlapChars - 1
         /\ (SliceCount(u) - 1) * Stride >= u.len - WindowChars
<1> DEFINE a == u.len - WindowChars + Stride - 1
<1>1. Stride \in Nat \ {0} /\ a \in Nat /\ Stride = WindowChars - OverlapChars
  BY WindowAssumption DEF Stride
<1>2. SliceCount(u) = 1 + a \div Stride
  BY DEF SliceCount
<1>3. a = u.len - OverlapChars - 1
  BY <1>1, WindowAssumption
<1>4. a = u.len - WindowChars + Stride - 1
  OBVIOUS
<1> HIDE DEF a
<1>5. a \div Stride \in Nat /\ (a \div Stride) * Stride <= a
      /\ a < (a \div Stride) * Stride + Stride
  BY <1>1, Division
<1> DEFINE m == a \div Stride
           n == m * Stride
<1>6. m \in Nat /\ n \in Nat /\ n <= a /\ a < n + Stride /\ SliceCount(u) - 1 = m
  BY <1>1, <1>2, <1>5, ProductGrows
<1> HIDE DEF m
<1>7. (SliceCount(u) - 1) * Stride = n
  BY <1>6
<1> HIDE DEF n
<1> QED
  BY <1>1, <1>2, <1>3, <1>4, <1>6, <1>7, WindowAssumption

(* Each of them is within the bound, and together they have every          *)
(* character of the unit (ingestion.py 40-47).                             *)
LEMMA SlicesCover ==
  ASSUME NEW u, u.at \in Nat, u.len \in Nat, u.len > WindowChars
  PROVE  /\ Slices(u) \in Seq(Windowed) /\ Len(Slices(u)) = SliceCount(u)
         /\ SliceCount(u) \in Nat \ {0}
         /\ \A c \in 0..(u.len - 1) :
                \E k \in 1..Len(Slices(u)) : Has(Slices(u)[k].pieces, u.at, c)
<1> DEFINE from(k) == (k - 1) * Stride
           to(k) == IF from(k) + WindowChars <= u.len THEN from(k) + WindowChars ELSE u.len
           last == SliceCount(u)
<1>1. /\ last \in Nat \ {0} /\ Stride \in Nat \ {0} /\ Stride <= WindowChars
      /\ from(last) <= u.len - OverlapChars - 1 /\ from(last) >= u.len - WindowChars
  BY SlicesReach, WindowAssumption DEF Stride
<1> HIDE DEF last
<1>2. ASSUME NEW k \in 1..last
      PROVE  /\ from(k) \in Nat /\ from(k) < u.len
             /\ Slice(u, k) = [len |-> to(k) - from(k), pieces |-> {<<u.at, from(k), to(k)>>}]
  <2>1. k - 1 \in Nat /\ last - 1 \in Nat /\ k - 1 <= last - 1
    BY <1>1
  <2>2. from(k) \in Nat /\ from(k) <= from(last)
    BY <1>1, <2>1, ProductGrows
  <2>3. from(k) < u.len
    BY <1>1, <2>2, WindowAssumption
  <2> HIDE DEF from
  <2>4. Min({from(k) + WindowChars, u.len}) = to(k)
    BY <2>2, MinMaxOfTwo, WindowAssumption
  <2> QED
    BY <2>2, <2>3, <2>4 DEF Slice, from
<1> HIDE DEF from
<1>3. ASSUME NEW k \in 1..last
      PROVE  Slice(u, k) \in Windowed
  <2>1. to(k) \in Nat /\ to(k) - from(k) \in 1..WindowBound
    BY <1>2, WindowAssumption DEF WindowBound, Separator
  <2> HIDE DEF to
  <2> QED
    BY <1>2, <2>1 DEF Windowed
<1>4. Slices(u) = [k \in 1..last |-> Slice(u, k)]
  BY DEF Slices, last
<1>5. Slices(u) \in Seq(Windowed) /\ Len(Slices(u)) = last
  <2>1. Slices(u) \in [1..last -> Windowed]
    BY <1>3, <1>4
  <2> QED
    BY <1>1, <2>1
<1>6. ASSUME NEW c \in 0..(u.len - 1)
      PROVE  \E k \in 1..last : Has(Slice(u, k).pieces, u.at, c)
  <2> DEFINE q == c \div Stride
  <2>1. q \in Nat /\ q * Stride <= c /\ c < q * Stride + Stride
    BY <1>1, Division
  <2> HIDE DEF q
  <2>2. CASE q < last
    <3>1. q + 1 \in 1..last /\ from(q + 1) = q * Stride
      BY <1>1, <2>1, <2>2 DEF from
    <3>2. from(q + 1) <= c /\ c < to(q + 1)
      BY <1>1, <1>2, <2>1, <3>1, WindowAssumption
    <3> HIDE DEF to
    <3>3. Slice(u, q + 1).pieces = {<<u.at, from(q + 1), to(q + 1)>>}
      BY <1>2, <3>1
    <3>4. Has(Slice(u, q + 1).pieces, u.at, c)
      BY <3>2, <3>3, HasPiece
    <3> QED
      BY <3>1, <3>4
  <2>3. CASE q >= last
    <3>1. last - 1 \in Nat /\ last - 1 <= q
      BY <1>1, <2>1, <2>3
    <3>2. (last - 1) * Stride <= q * Stride
      BY <1>1, <2>1, <3>1, ProductGrows
    <3>3. q * Stride \in Nat
      BY <1>1, <2>1, ProductGrows
    <3>4. from(last) <= q * Stride
      BY <3>2 DEF from
    <3>5. last \in 1..last
      BY <1>1
    <3>6. from(last) <= c /\ c < to(last)
      BY <1>1, <1>2, <2>1, <3>3, <3>4, <3>5, WindowAssumption
    <3> HIDE DEF to
    <3>7. Slice(u, last).pieces = {<<u.at, from(last), to(last)>>}
      BY <1>2, <3>5
    <3>8. Has(Slice(u, last).pieces, u.at, c)
      BY <3>6, <3>7, HasPiece
    <3> QED
      BY <3>5, <3>8
  <2> QED
    BY <1>1, <2>1, <2>2, <2>3
<1>7. ASSUME NEW k \in 1..last
      PROVE  Slices(u)[k] = Slice(u, k)
  BY <1>4
<1>8. \A c \in 0..(u.len - 1) :
        \E k \in 1..Len(Slices(u)) : Has(Slices(u)[k].pieces, u.at, c)
  BY <1>5, <1>6, <1>7
<1> QED
  BY <1>1, <1>5, <1>8 DEF last

-----------------------------------------------------------------------------
(* How a message is cut: what is collected, unit after unit.               *)

InWindows(windows, u, c) == \E k \in 1..Len(windows) : Has(windows[k].pieces, u, c)
Collecting == [windows : Seq(Windowed), pieces : SUBSET (Nat \X Nat \X Nat),
               len : 0..WindowBound]

(* Windows put after others leave to each what it has.                     *)
LEMMA ConcatenationHas ==
  ASSUME NEW v \in Seq(Windowed), NEW w \in Seq(Windowed)
  PROVE  /\ v \o w \in Seq(Windowed) /\ Len(v \o w) = Len(v) + Len(w)
         /\ \A u, c : InWindows(v, u, c) \/ InWindows(w, u, c) => InWindows(v \o w, u, c)
<1>1. v \o w \in Seq(Windowed) /\ Len(v \o w) = Len(v) + Len(w)
      /\ Len(v) \in Nat /\ Len(w) \in Nat
  OBVIOUS
<1>2. \A k \in 1..Len(v) : k \in 1..Len(v \o w) /\ (v \o w)[k] = v[k]
  BY <1>1
<1>3. \A k \in 1..Len(w) : Len(v) + k \in 1..Len(v \o w) /\ (v \o w)[Len(v) + k] = w[k]
  BY <1>1
<1>4. ASSUME NEW u, NEW c, InWindows(v, u, c)
      PROVE  InWindows(v \o w, u, c)
  BY <1>2, <1>4 DEF InWindows
<1>5. ASSUME NEW u, NEW c, InWindows(w, u, c)
      PROVE  InWindows(v \o w, u, c)
  <2>1. PICK k \in 1..Len(w) : Has(w[k].pieces, u, c)
    BY <1>5 DEF InWindows
  <2>2. Has((v \o w)[Len(v) + k].pieces, u, c)
    BY <1>3, <2>1
  <2> QED
    BY <1>3, <2>2 DEF InWindows
<1> QED
  BY <1>1, <1>4, <1>5

(* A window that is appended adds its pieces. *)
LEMMA AppendHas ==
  ASSUME NEW v \in Seq(Windowed), NEW x \in Windowed
  PROVE  /\ Append(v, x) \in Seq(Windowed) /\ Len(Append(v, x)) = Len(v) + 1
         /\ \A u, c : InWindows(v, u, c) \/ Has(x.pieces, u, c)
                      => InWindows(Append(v, x), u, c)
<1>1. Append(v, x) \in Seq(Windowed) /\ Len(Append(v, x)) = Len(v) + 1 /\ Len(v) \in Nat
  OBVIOUS
<1>2. \A k \in 1..Len(v) : k \in 1..Len(Append(v, x)) /\ Append(v, x)[k] = v[k]
  BY <1>1
<1>3. Len(v) + 1 \in 1..Len(Append(v, x)) /\ Append(v, x)[Len(v) + 1] = x
  BY <1>1
<1>4. ASSUME NEW u, NEW c, InWindows(v, u, c)
      PROVE  InWindows(Append(v, x), u, c)
  BY <1>2, <1>4 DEF InWindows
<1>5. ASSUME NEW u, NEW c, Has(x.pieces, u, c)
      PROVE  InWindows(Append(v, x), u, c)
  <2>1. Has(Append(v, x)[Len(v) + 1].pieces, u, c)
    BY <1>3, <1>5
  <2> QED
    BY <1>3, <2>1 DEF InWindows
<1> QED
  BY <1>1, <1>4, <1>5

(* What is collected goes into a window of its own.                        *)
LEMMA FlushedHas ==
  ASSUME NEW acc \in Collecting, acc.pieces # {} => acc.len > 0
  PROVE  /\ Flushed(acc) \in Seq(Windowed)
         /\ acc.len > 0 \/ Len(acc.windows) > 0 => Len(Flushed(acc)) > 0
         /\ \A u, c : InWindows(acc.windows, u, c) \/ Has(acc.pieces, u, c)
                      => InWindows(Flushed(acc), u, c)
<1>1. /\ acc.windows \in Seq(Windowed) /\ acc.pieces \in SUBSET (Nat \X Nat \X Nat)
      /\ acc.len \in 0..WindowBound /\ WindowBound \in Nat /\ Len(acc.windows) \in Nat
  BY WindowAssumption DEF Collecting, WindowBound, Separator
<1>2. CASE acc.len > 0
  <2> DEFINE x == Window(acc)
  <2>1. x \in Windowed /\ x.pieces = acc.pieces
    BY <1>1, <1>2 DEF Window, Windowed
  <2>2. Flushed(acc) = Append(acc.windows, x)
    BY <1>2 DEF Flushed
  <2> HIDE DEF x
  <2>3. /\ Append(acc.windows, x) \in Seq(Windowed)
        /\ Len(Append(acc.windows, x)) = Len(acc.windows) + 1
        /\ \A u, c : InWindows(acc.windows, u, c) \/ Has(x.pieces, u, c)
                     => InWindows(Append(acc.windows, x), u, c)
    BY <1>1, <2>1, AppendHas
  <2> QED
    BY <1>1, <2>1, <2>2, <2>3
<1>3. CASE ~(acc.len > 0)
  <2>1. Flushed(acc) = acc.windows /\ \A u, c : ~Has(acc.pieces, u, c)
    BY <1>3 DEF Flushed, Has
  <2> QED
    BY <1>1, <1>3, <2>1
<1> QED
  BY <1>2, <1>3

(* A unit taken whole has all of its code points. *)
LEMMA WholeHas ==
  ASSUME NEW u, u.at \in Nat, u.len \in Nat, NEW c \in 0..(u.len - 1), NEW pieces,
         Whole(u) \in pieces
  PROVE  Has(pieces, u.at, c)
<1>1. Whole(u)[1] = u.at /\ Whole(u)[2] = 0 /\ Whole(u)[3] = u.len
  BY DEF Whole
<1>2. 0 <= c /\ c < u.len
  OBVIOUS
<1> QED
  BY <1>1, <1>2 DEF Has

(* A round keeps what there was and has the whole of its unit.             *)
LEMMA AddUnitHas ==
  ASSUME NEW acc \in Collecting, acc.pieces # {} => acc.len > 0,
         NEW u, u.at \in Nat, u.len \in Nat \ {0}
  PROVE  LET new == AddUnit(acc, u)
             In(a, x, c) == InWindows(a.windows, x, c) \/ Has(a.pieces, x, c)
         IN  /\ new \in Collecting /\ (new.pieces # {} => new.len > 0)
             /\ new.len > 0 \/ Len(new.windows) > 0
             /\ \A x, c : In(acc, x, c) => In(new, x, c)
             /\ \A c \in 0..(u.len - 1) : In(new, u.at, c)
<1> DEFINE new == AddUnit(acc, u)
           In(a, x, c) == InWindows(a.windows, x, c) \/ Has(a.pieces, x, c)
           Piece == Nat \X Nat \X Nat
<1>1. /\ acc.windows \in Seq(Windowed) /\ acc.pieces \in SUBSET Piece
      /\ acc.len \in 0..WindowBound /\ WindowBound = WindowChars + OverlapChars + 2
      /\ WindowChars \in Nat \ {0} /\ OverlapChars \in Nat
  BY WindowAssumption DEF Collecting, WindowBound, Separator
<1>2. /\ Flushed(acc) \in Seq(Windowed)
      /\ \A x, c : In(acc, x, c) => InWindows(Flushed(acc), x, c)
  BY FlushedHas
<1>3. Whole(u) \in Piece
  BY DEF Whole
<1>4. CASE u.len > WindowChars
  <2> DEFINE w == Flushed(acc) \o Slices(u)
  <2>1. /\ Slices(u) \in Seq(Windowed) /\ Len(Slices(u)) = SliceCount(u)
        /\ SliceCount(u) \in Nat \ {0}
        /\ \A c \in 0..(u.len - 1) : InWindows(Slices(u), u.at, c)
    BY <1>4, SlicesCover DEF InWindows
  <2>2. /\ w \in Seq(Windowed) /\ Len(w) = Len(Flushed(acc)) + Len(Slices(u))
        /\ \A x, c : InWindows(Flushed(acc), x, c) \/ InWindows(Slices(u), x, c)
                     => InWindows(w, x, c)
    BY <1>2, <2>1, ConcatenationHas
  <2>3. new = [windows |-> w, pieces |-> {}, len |-> 0]
    BY <1>4 DEF AddUnit
  <2>4. Len(w) > 0
    BY <1>2, <2>1, <2>2
  <2> HIDE DEF w
  <2>5. new \in Collecting /\ new.windows = w /\ new.pieces = {}
    BY <1>1, <2>2, <2>3 DEF Collecting
  <2> HIDE DEF new
  <2>6. \A x, c : In(acc, x, c) => In(new, x, c)
    BY <1>2, <2>2, <2>5
  <2>7. \A c \in 0..(u.len - 1) : In(new, u.at, c)
    BY <2>1, <2>2, <2>5
  <2> QED
    BY <2>4, <2>5, <2>6, <2>7 DEF new
<1>5. CASE u.len <= WindowChars /\ acc.len > 0 /\ acc.len + Separator + u.len > WindowChars
  <2> DEFINE w == Flushed(acc)
             n == Tail2(acc) + u.len
  <2>1. Min({OverlapChars, acc.len}) \in 0..OverlapChars
    BY <1>1, MinMaxOfTwo
  <2>2. Tail2(acc) \in 0..(OverlapChars + 2)
    BY <1>1, <2>1 DEF Tail2, Separator
  <2>3. n \in 1..WindowBound
    BY <1>1, <1>5, <2>2
  <2>4. new = [windows |-> w, pieces |-> {Whole(u)}, len |-> n]
    <3>1. ~(u.len > WindowChars)
      BY <1>1, <1>5
    <3> QED
      BY <1>5, <3>1 DEF AddUnit
  <2> HIDE DEF w, n
  <2>5. /\ new \in Collecting /\ new.windows = w /\ new.pieces = {Whole(u)}
        /\ new.len = n /\ n > 0
    BY <1>2, <1>3, <2>3, <2>4 DEF Collecting, w
  <2> HIDE DEF new
  <2>6. \A x, c : In(acc, x, c) => In(new, x, c)
    BY <1>2, <2>5 DEF w
  <2>7. \A c \in 0..(u.len - 1) : In(new, u.at, c)
    BY <2>5, WholeHas
  <2> QED
    BY <2>5, <2>6, <2>7 DEF new
<1>6. CASE u.len <= WindowChars
           /\ ~(acc.len > 0 /\ acc.len + Separator + u.len > WindowChars)
  <2> DEFINE n == acc.len + u.len + (IF acc.len > 0 THEN Separator ELSE 0)
             w == acc.windows
             p == acc.pieces \cup {Whole(u)}
  <2>1. n \in 1..WindowBound
    BY <1>1, <1>6 DEF Separator
  <2>2. new = [acc EXCEPT !.pieces = p, !.len = n]
    BY <1>1, <1>6 DEF AddUnit
  <2> HIDE DEF n
  <2>3. p \in SUBSET Piece
    BY <1>1, <1>3
  <2> HIDE DEF p
  <2> HIDE DEF new
  <2>4. /\ new \in Collecting /\ new.windows = acc.windows /\ new.pieces = p
        /\ new.len = n /\ n > 0
    <3>1. acc \in Collecting /\ n \in 0..WindowBound /\ n > 0
      BY <1>1, <2>1
    <3> QED
      BY ONLY <2>2, <2>3, <3>1 DEF Collecting
  <2>5. \A x, c : In(acc, x, c) => In(new, x, c)
    BY <2>4 DEF Has, p
  <2>6. \A c \in 0..(u.len - 1) : In(new, u.at, c)
    BY <2>4, WholeHas DEF p
  <2> QED
    BY <2>4, <2>5, <2>6 DEF new
<1>7. u.len <= WindowChars \/ u.len > WindowChars
  BY <1>1
<1> QED
  BY <1>4, <1>5, <1>6, <1>7

(* After each round the units so far are in the windows or collected.      *)
LEMMA RoundsCover ==
  ASSUME NEW text \in Seq(Nat \ {0}), NEW i \in 0..Len(text)
  PROVE  LET acc == Rounds(text)[i]
         IN  /\ acc \in Collecting /\ (acc.pieces # {} => acc.len > 0)
             /\ i > 0 => acc.len > 0 \/ Len(acc.windows) > 0
             /\ \A u \in 1..i : \A c \in 0..(text[u] - 1) :
                    InWindows(acc.windows, u, c) \/ Has(acc.pieces, u, c)
<1> DEFINE n == Len(text)
           Good(m) ==
             LET acc == Rounds(text)[m]
             IN  /\ acc \in Collecting /\ (acc.pieces # {} => acc.len > 0)
                 /\ m > 0 => acc.len > 0 \/ Len(acc.windows) > 0
                 /\ \A u \in 1..m : \A c \in 0..(text[u] - 1) :
                        InWindows(acc.windows, u, c) \/ Has(acc.pieces, u, c)
           S == {m \in Nat : m <= n => Good(m)}
<1>1. n \in Nat
  OBVIOUS
<1>2. /\ Rounds(text)[0] = NoWindow
      /\ \A m \in 1..n : Rounds(text)[m] = AddUnit(Rounds(text)[m - 1], Unit(text, m))
  BY <1>1, RoundsFollow
<1>3. Good(0)
  <2>1. WindowBound \in Nat
    BY WindowAssumption DEF WindowBound, Separator
  <2>2. NoWindow \in Collecting /\ NoWindow.pieces = {}
    BY <2>1 DEF NoWindow, Collecting
  <2>3. 1..0 = {}
    OBVIOUS
  <2> QED
    BY <1>2, <2>2, <2>3
<1>4. ASSUME NEW m \in Nat, Good(m), m + 1 <= n
      PROVE  Good(m + 1)
  <2> DEFINE acc == Rounds(text)[m]
             new == Rounds(text)[m + 1]
             unit == Unit(text, m + 1)
             In(a, x, c) == InWindows(a.windows, x, c) \/ Has(a.pieces, x, c)
  <2>1. new = AddUnit(acc, unit)
    <3>1. m + 1 \in 1..n /\ (m + 1) - 1 = m
      BY <1>1, <1>4
    <3> QED
      BY <1>2, <3>1
  <2>2. unit.at = m + 1 /\ unit.len = text[m + 1] /\ unit.len \in Nat \ {0}
        /\ unit.at \in Nat
    BY <1>1, <1>4 DEF Unit
  <2>3. acc \in Collecting /\ (acc.pieces # {} => acc.len > 0)
        /\ \A u \in 1..m : \A c \in 0..(text[u] - 1) : In(acc, u, c)
    BY <1>4
  <2> HIDE DEF acc, unit, Good
  <2>4. /\ new \in Collecting /\ (new.pieces # {} => new.len > 0)
        /\ new.len > 0 \/ Len(new.windows) > 0
        /\ \A x, c : In(acc, x, c) => In(new, x, c)
        /\ \A c \in 0..(unit.len - 1) : In(new, unit.at, c)
    BY <2>1, <2>2, <2>3, AddUnitHas
  <2> HIDE DEF new
  <2>5. ASSUME NEW u \in 1..(m + 1), NEW c \in 0..(text[u] - 1)
        PROVE  In(new, u, c)
    <3>1. CASE u = m + 1
      BY <2>2, <2>4, <3>1
    <3>2. CASE u # m + 1
      <4>1. u \in 1..m
        BY <1>4, <3>2
      <4> QED
        BY <2>3, <2>4, <4>1
    <3> QED
      BY <3>1, <3>2
  <2> QED
    BY <2>4, <2>5 DEF Good, new
<1> HIDE DEF Good
<1>5. \A m \in S : m + 1 \in S
  BY <1>1, <1>4
<1>6. S = Nat
  <2>1. S \in SUBSET Nat /\ 0 \in S
    BY <1>3
  <2> HIDE DEF S
  <2> QED
    BY <1>5, <2>1, CountedUp
<1>7. Good(i)
  BY <1>1, <1>6
<1> QED
  BY <1>7 DEF Good

(* Every character of a message is in one of its windows, and none is      *)
(* longer than the bound (natural_windows, ingestion.py 48-97).            *)
LEMMA NaturalWindowsCover ==
  ASSUME NEW text \in Seq(Nat \ {0}), text # <<>>
  PROVE  /\ NaturalWindows(text) \in Seq(Windowed) /\ Len(NaturalWindows(text)) > 0
         /\ Covered(NaturalWindows(text), text)
<1> DEFINE n == Len(text)
           acc == Rounds(text)[n]
<1>1. n \in Nat /\ n > 0 /\ n \in 0..n
  OBVIOUS
<1>2. /\ acc \in Collecting /\ (acc.pieces # {} => acc.len > 0)
      /\ acc.len > 0 \/ Len(acc.windows) > 0
      /\ \A u \in 1..n : \A c \in 0..(text[u] - 1) :
             InWindows(acc.windows, u, c) \/ Has(acc.pieces, u, c)
  BY <1>1, RoundsCover
<1>3. NaturalWindows(text) = Flushed(acc)
  BY DEF NaturalWindows
<1> HIDE DEF acc
<1>4. /\ Flushed(acc) \in Seq(Windowed) /\ Len(Flushed(acc)) > 0
      /\ \A u, c : InWindows(acc.windows, u, c) \/ Has(acc.pieces, u, c)
                   => InWindows(Flushed(acc), u, c)
  BY <1>2, FlushedHas
<1>5. \A u \in 1..n : \A c \in 0..(text[u] - 1) : InWindows(Flushed(acc), u, c)
  BY <1>2, <1>4
<1> QED
  BY <1>3, <1>4, <1>5 DEF Covered, InWindows, Has

-----------------------------------------------------------------------------
(* The record of one request.                                              *)

RequestTyped(j) ==
    /\ j.phase \in {"idle", "dump", "route", "knowledge", "rlm", "done"}
    /\ j.turns \in 0..MaxTurnCount
    /\ j.routed \in Context
    /\ j.code \in Code /\ j.status \in Status
    /\ j.phase = "done" <=> j.code # 0

RequestOK(j) == RequestTyped(j) /\ RequestShape(j) /\ InPhase(j) /\ RoutedAsShown(j)

(* What a request carries to the RLM: its message. *)
Carries(k, j) == k.text = j.text /\ k.windows = j.windows /\ k.chunks = j.chunks

(* A request with its phase changed keeps the rest. *)
LEMMA PhaseChanged ==
  ASSUME NEW j, RequestShape(j), NEW x, NEW k, k = [j EXCEPT !.phase = x]
  PROVE  /\ RequestShape(k) /\ k.phase = x
         /\ k.snap = j.snap /\ k.mode = j.mode /\ k.turns = j.turns /\ k.shown = j.shown
         /\ k.routed = j.routed /\ k.code = j.code /\ k.status = j.status
         /\ Carries(k, j)
<1>1. k = [phase |-> x, text |-> j.text, windows |-> j.windows,
           chunks |-> j.chunks, snap |-> j.snap, mode |-> j.mode,
           turns |-> j.turns, shown |-> j.shown, routed |-> j.routed,
           required |-> j.required, knowledge |-> j.knowledge,
           code |-> j.code, status |-> j.status]
  BY DEF RequestShape
<1> QED
  BY <1>1 DEF RequestShape, Carries

(* A request with its text changed keeps the rest. *)
LEMMA TextChanged ==
  ASSUME NEW j, RequestShape(j), NEW x, NEW k, k = [j EXCEPT !.text = x]
  PROVE  /\ RequestShape(k)
         /\ k.phase = j.phase /\ k.snap = j.snap /\ k.mode = j.mode /\ k.turns = j.turns
         /\ k.shown = j.shown /\ k.routed = j.routed /\ k.code = j.code /\ k.status = j.status
<1>1. k = [phase |-> j.phase, text |-> x, windows |-> j.windows,
           chunks |-> j.chunks, snap |-> j.snap, mode |-> j.mode,
           turns |-> j.turns, shown |-> j.shown, routed |-> j.routed,
           required |-> j.required, knowledge |-> j.knowledge,
           code |-> j.code, status |-> j.status]
  BY DEF RequestShape
<1> QED
  BY <1>1 DEF RequestShape

(* A request with its windows changed keeps the rest. *)
LEMMA WindowsChanged ==
  ASSUME NEW j, RequestShape(j), NEW x, NEW k, k = [j EXCEPT !.windows = x]
  PROVE  /\ RequestShape(k)
         /\ k.phase = j.phase /\ k.snap = j.snap /\ k.mode = j.mode /\ k.turns = j.turns
         /\ k.shown = j.shown /\ k.routed = j.routed /\ k.code = j.code /\ k.status = j.status
<1>1. k = [phase |-> j.phase, text |-> j.text, windows |-> x,
           chunks |-> j.chunks, snap |-> j.snap, mode |-> j.mode,
           turns |-> j.turns, shown |-> j.shown, routed |-> j.routed,
           required |-> j.required, knowledge |-> j.knowledge,
           code |-> j.code, status |-> j.status]
  BY DEF RequestShape
<1> QED
  BY <1>1 DEF RequestShape

(* A request with its chunks changed keeps the rest. *)
LEMMA ChunksChanged ==
  ASSUME NEW j, RequestShape(j), NEW x, NEW k, k = [j EXCEPT !.chunks = x]
  PROVE  /\ RequestShape(k)
         /\ k.phase = j.phase /\ k.snap = j.snap /\ k.mode = j.mode /\ k.turns = j.turns
         /\ k.shown = j.shown /\ k.routed = j.routed /\ k.code = j.code /\ k.status = j.status
<1>1. k = [phase |-> j.phase, text |-> j.text, windows |-> j.windows,
           chunks |-> x, snap |-> j.snap, mode |-> j.mode, turns |-> j.turns,
           shown |-> j.shown, routed |-> j.routed, required |-> j.required,
           knowledge |-> j.knowledge, code |-> j.code, status |-> j.status]
  BY DEF RequestShape
<1> QED
  BY <1>1 DEF RequestShape

(* A request with its snap changed keeps the rest. *)
LEMMA SnapChanged ==
  ASSUME NEW j, RequestShape(j), NEW x, NEW k, k = [j EXCEPT !.snap = x]
  PROVE  /\ RequestShape(k) /\ k.snap = x
         /\ k.phase = j.phase /\ k.mode = j.mode /\ k.turns = j.turns /\ k.shown = j.shown
         /\ k.routed = j.routed /\ k.code = j.code /\ k.status = j.status
         /\ Carries(k, j)
<1>1. k = [phase |-> j.phase, text |-> j.text, windows |-> j.windows,
           chunks |-> j.chunks, snap |-> x, mode |-> j.mode,
           turns |-> j.turns, shown |-> j.shown, routed |-> j.routed,
           required |-> j.required, knowledge |-> j.knowledge,
           code |-> j.code, status |-> j.status]
  BY DEF RequestShape
<1> QED
  BY <1>1 DEF RequestShape, Carries

(* A request with its mode changed keeps the rest. *)
LEMMA ModeChanged ==
  ASSUME NEW j, RequestShape(j), NEW x, NEW k, k = [j EXCEPT !.mode = x]
  PROVE  /\ RequestShape(k) /\ k.mode = x
         /\ k.phase = j.phase /\ k.snap = j.snap /\ k.turns = j.turns /\ k.shown = j.shown
         /\ k.routed = j.routed /\ k.code = j.code /\ k.status = j.status
         /\ Carries(k, j)
<1>1. k = [phase |-> j.phase, text |-> j.text, windows |-> j.windows,
           chunks |-> j.chunks, snap |-> j.snap, mode |-> x,
           turns |-> j.turns, shown |-> j.shown, routed |-> j.routed,
           required |-> j.required, knowledge |-> j.knowledge,
           code |-> j.code, status |-> j.status]
  BY DEF RequestShape
<1> QED
  BY <1>1 DEF RequestShape, Carries

(* A request with its turns changed keeps the rest. *)
LEMMA TurnsChanged ==
  ASSUME NEW j, RequestShape(j), NEW x, NEW k, k = [j EXCEPT !.turns = x]
  PROVE  /\ RequestShape(k) /\ k.turns = x
         /\ k.phase = j.phase /\ k.snap = j.snap /\ k.mode = j.mode /\ k.shown = j.shown
         /\ k.routed = j.routed /\ k.code = j.code /\ k.status = j.status
         /\ Carries(k, j)
<1>1. k = [phase |-> j.phase, text |-> j.text, windows |-> j.windows,
           chunks |-> j.chunks, snap |-> j.snap, mode |-> j.mode,
           turns |-> x, shown |-> j.shown, routed |-> j.routed,
           required |-> j.required, knowledge |-> j.knowledge,
           code |-> j.code, status |-> j.status]
  BY DEF RequestShape
<1> QED
  BY <1>1 DEF RequestShape, Carries

(* A request with its shown changed keeps the rest. *)
LEMMA ShownChanged ==
  ASSUME NEW j, RequestShape(j), NEW x, NEW k, k = [j EXCEPT !.shown = x]
  PROVE  /\ RequestShape(k) /\ k.shown = x
         /\ k.phase = j.phase /\ k.snap = j.snap /\ k.mode = j.mode /\ k.turns = j.turns
         /\ k.routed = j.routed /\ k.code = j.code /\ k.status = j.status
         /\ Carries(k, j)
<1>1. k = [phase |-> j.phase, text |-> j.text, windows |-> j.windows,
           chunks |-> j.chunks, snap |-> j.snap, mode |-> j.mode,
           turns |-> j.turns, shown |-> x, routed |-> j.routed,
           required |-> j.required, knowledge |-> j.knowledge,
           code |-> j.code, status |-> j.status]
  BY DEF RequestShape
<1> QED
  BY <1>1 DEF RequestShape, Carries

(* A request with its routed changed keeps the rest. *)
LEMMA RoutedChanged ==
  ASSUME NEW j, RequestShape(j), NEW x, NEW k, k = [j EXCEPT !.routed = x]
  PROVE  /\ RequestShape(k) /\ k.routed = x
         /\ k.phase = j.phase /\ k.snap = j.snap /\ k.mode = j.mode /\ k.turns = j.turns
         /\ k.shown = j.shown /\ k.code = j.code /\ k.status = j.status
         /\ Carries(k, j)
<1>1. k = [phase |-> j.phase, text |-> j.text, windows |-> j.windows,
           chunks |-> j.chunks, snap |-> j.snap, mode |-> j.mode,
           turns |-> j.turns, shown |-> j.shown, routed |-> x,
           required |-> j.required, knowledge |-> j.knowledge,
           code |-> j.code, status |-> j.status]
  BY DEF RequestShape
<1> QED
  BY <1>1 DEF RequestShape, Carries

(* A request with its required changed keeps the rest. *)
LEMMA RequiredChanged ==
  ASSUME NEW j, RequestShape(j), NEW x, NEW k, k = [j EXCEPT !.required = x]
  PROVE  /\ RequestShape(k)
         /\ k.phase = j.phase /\ k.snap = j.snap /\ k.mode = j.mode /\ k.turns = j.turns
         /\ k.shown = j.shown /\ k.routed = j.routed /\ k.code = j.code /\ k.status = j.status
<1>1. k = [phase |-> j.phase, text |-> j.text, windows |-> j.windows,
           chunks |-> j.chunks, snap |-> j.snap, mode |-> j.mode,
           turns |-> j.turns, shown |-> j.shown, routed |-> j.routed,
           required |-> x, knowledge |-> j.knowledge, code |-> j.code,
           status |-> j.status]
  BY DEF RequestShape
<1> QED
  BY <1>1 DEF RequestShape

(* A request with its knowledge changed keeps the rest. *)
LEMMA KnowledgeChanged ==
  ASSUME NEW j, RequestShape(j), NEW x, NEW k, k = [j EXCEPT !.knowledge = x]
  PROVE  /\ RequestShape(k)
         /\ k.phase = j.phase /\ k.snap = j.snap /\ k.mode = j.mode /\ k.turns = j.turns
         /\ k.shown = j.shown /\ k.routed = j.routed /\ k.code = j.code /\ k.status = j.status
<1>1. k = [phase |-> j.phase, text |-> j.text, windows |-> j.windows,
           chunks |-> j.chunks, snap |-> j.snap, mode |-> j.mode,
           turns |-> j.turns, shown |-> j.shown, routed |-> j.routed,
           required |-> j.required, knowledge |-> x, code |-> j.code,
           status |-> j.status]
  BY DEF RequestShape
<1> QED
  BY <1>1 DEF RequestShape

(* A request with its code changed keeps the rest. *)
LEMMA CodeChanged ==
  ASSUME NEW j, RequestShape(j), NEW x, NEW k, k = [j EXCEPT !.code = x]
  PROVE  /\ RequestShape(k) /\ k.code = x
         /\ k.phase = j.phase /\ k.snap = j.snap /\ k.mode = j.mode /\ k.turns = j.turns
         /\ k.shown = j.shown /\ k.routed = j.routed /\ k.status = j.status
         /\ Carries(k, j)
<1>1. k = [phase |-> j.phase, text |-> j.text, windows |-> j.windows,
           chunks |-> j.chunks, snap |-> j.snap, mode |-> j.mode,
           turns |-> j.turns, shown |-> j.shown, routed |-> j.routed,
           required |-> j.required, knowledge |-> j.knowledge, code |-> x,
           status |-> j.status]
  BY DEF RequestShape
<1> QED
  BY <1>1 DEF RequestShape, Carries

(* A request with its status changed keeps the rest. *)
LEMMA StatusChanged ==
  ASSUME NEW j, RequestShape(j), NEW x, NEW k, k = [j EXCEPT !.status = x]
  PROVE  /\ RequestShape(k) /\ k.status = x
         /\ k.phase = j.phase /\ k.snap = j.snap /\ k.mode = j.mode /\ k.turns = j.turns
         /\ k.shown = j.shown /\ k.routed = j.routed /\ k.code = j.code
         /\ Carries(k, j)
<1>1. k = [phase |-> j.phase, text |-> j.text, windows |-> j.windows,
           chunks |-> j.chunks, snap |-> j.snap, mode |-> j.mode,
           turns |-> j.turns, shown |-> j.shown, routed |-> j.routed,
           required |-> j.required, knowledge |-> j.knowledge,
           code |-> j.code, status |-> x]
  BY DEF RequestShape
<1> QED
  BY <1>1 DEF RequestShape, Carries

(* No context is one. *)
LEMMA NoContextTyped == NoContext \in Context /\ NoContext.slot = NoSlot
  BY ChatAssumption DEF NoContext, Context

(* A request that has just arrived. *)
LEMMA NewRequestOK == RequestOK(NewRequest) /\ NewRequest.status = "none"
<1>1. RequestTyped(NewRequest)
  BY ChatAssumption, NoContextTyped DEF RequestTyped, NewRequest, Code, Status
<1>2. RequestShape(NewRequest)
  BY DEF RequestShape, NewRequest
<1>3. InPhase(NewRequest) /\ RoutedAsShown(NewRequest) /\ NewRequest.status = "none"
  BY NoContextTyped DEF InPhase, RoutedAsShown, NewRequest
<1> QED
  BY <1>1, <1>2, <1>3 DEF RequestOK

(* A request that is answered: whatever it was before, nothing of it is    *)
(* left but the answer.                                                    *)
LEMMA AnsweredOK ==
  ASSUME NEW code \in Code \ {0}, NEW status \in Status, NEW k \in Answered(code, status)
  PROVE  RequestOK(k)
<1> DEFINE p == [NewRequest EXCEPT !.phase = "done"]
           q == [p EXCEPT !.code = code]
           a == [q EXCEPT !.status = status]
<1>1. k = a
  BY DEF Answered
<1>2. /\ RequestShape(NewRequest) /\ NewRequest.turns = 0
      /\ NewRequest.routed = NoContext
  BY NewRequestOK DEF NewRequest, RequestOK
<1>3. /\ RequestShape(p) /\ p.phase = "done" /\ p.turns = 0 /\ p.routed = NoContext
  BY <1>2, PhaseChanged
<1> HIDE DEF p
<1>4. /\ RequestShape(q) /\ q.phase = "done" /\ q.turns = 0 /\ q.routed = NoContext
      /\ q.code = code
  BY ONLY <1>3, CodeChanged
<1> HIDE DEF q
<1>5. /\ RequestShape(a) /\ a.phase = "done" /\ a.turns = 0 /\ a.routed = NoContext
      /\ a.code = code /\ a.status = status
  BY ONLY <1>4, StatusChanged
<1> HIDE DEF a
<1>6. RequestTyped(a)
  BY <1>5, ChatAssumption, NoContextTyped DEF RequestTyped
<1>7. InPhase(a) /\ RoutedAsShown(a)
  BY <1>5, NoContextTyped DEF InPhase, RoutedAsShown
<1> QED
  BY <1>1, <1>5, <1>6, <1>7 DEF RequestOK

(* A request that goes on to the retrieval or to the RLM keeps its route.  *)
LEMMA ToKnowledgeOK ==
  ASSUME NEW j, RequestTyped(j), RequestShape(j), RoutedAsShown(j),
         j.code = 0, j.status = "none", NEW k \in ToKnowledge(j)
  PROVE  RequestOK(k)
<1>1. PICK wish \in Wish :
        k = [j EXCEPT !.required = (wish = "required"),
                      !.phase = IF service /\ wish # "off" THEN "knowledge" ELSE "rlm"]
  BY DEF ToKnowledge
<1> DEFINE required == (wish = "required")
           phase == IF service /\ wish # "off" THEN "knowledge" ELSE "rlm"
           b == [j EXCEPT !.required = required]
           a == [b EXCEPT !.phase = phase]
<1>2. k = a
  BY <1>1
<1>3. phase \in {"rlm", "knowledge"}
  OBVIOUS
<1> HIDE DEF required, phase
<1>4. /\ RequestShape(b) /\ b.turns = j.turns /\ b.routed = j.routed
      /\ b.code = 0 /\ b.status = "none" /\ b.shown = j.shown /\ b.snap = j.snap
      /\ b.mode = j.mode
  BY RequiredChanged
<1> HIDE DEF b
<1>5. /\ RequestShape(a) /\ a.phase = phase /\ a.turns = j.turns /\ a.routed = j.routed
      /\ a.code = 0 /\ a.status = "none" /\ a.shown = j.shown /\ a.snap = j.snap
      /\ a.mode = j.mode
  BY <1>4, PhaseChanged
<1> HIDE DEF a
<1>6. RequestTyped(a)
  BY <1>3, <1>5 DEF RequestTyped
<1>7. InPhase(a) /\ RoutedAsShown(a)
  BY <1>3, <1>5 DEF InPhase, RoutedAsShown
<1> QED
  BY <1>2, <1>5, <1>6, <1>7 DEF RequestOK

-----------------------------------------------------------------------------
(* Routing.                                                                *)

(* A request that is not answered yet, without a route. *)
Unrouted(j) == /\ RequestTyped(j) /\ RequestShape(j)
               /\ j.routed = NoContext /\ j.code = 0 /\ j.status = "none"

(* The slots of a snapshot have workstreams. *)
LEMMA SnapshotSlots ==
  ASSUME NEW c \in Snapshots, NEW slot \in DOMAIN c.slots
  PROVE  slot \in Slot /\ c.slots[slot] \in SUBSET Stream /\ c.version \in 0..MaxVersion
  BY ChatAssumption DEF Snapshots

(* The context that is handed on is that of the snapshot. *)
LEMMA WithRouteOK ==
  ASSUME NEW j, RequestTyped(j), RequestShape(j), j.code = 0, j.status = "none",
         j.snap \in Snapshots, j.shown = j.snap.version, j.mode # "clarify_only",
         NEW slot \in Slot, NEW streams \in SUBSET Stream, Known(j.snap, slot, streams),
         NEW k \in WithRoute(j, slot, streams)
  PROVE  RequestOK(k)
<1> DEFINE c == RoutedContext(j.snap, slot, streams)
           w == [j EXCEPT !.routed = c]
<1>1. c.slot = slot /\ c.version = j.snap.version /\ c.streams = streams
  BY DEF RoutedContext
<1>2. c \in Context
  BY SnapshotSlots, ChatAssumption DEF RoutedContext, Context, Snapshots
<1>3. k \in ToKnowledge(w)
  BY DEF WithRoute
<1> HIDE DEF c
<1>4. /\ RequestShape(w) /\ w.routed = c /\ w.phase = j.phase /\ w.turns = j.turns
      /\ w.code = j.code /\ w.status = j.status /\ w.mode = j.mode
      /\ w.snap = j.snap /\ w.shown = j.shown
  BY RoutedChanged
<1> HIDE DEF w
<1>5. RequestTyped(w)
  BY <1>2, <1>4 DEF RequestTyped
<1>6. RoutedAsShown(w)
  BY <1>1, <1>4 DEF RoutedAsShown
<1> QED
  BY <1>3, <1>4, <1>5, <1>6, ToKnowledgeOK

(* The route that the request names itself. *)
LEMMA ExplicitRouteOK ==
  ASSUME NEW j, Unrouted(j), j.snap \in Snapshots, j.shown = j.snap.version,
         NEW slot \in Slot, NEW streams \in SUBSET Stream,
         NEW k \in ExplicitRoute(j, slot, streams)
  PROVE  RequestOK(k)
<1>1. CASE ~Known(j.snap, slot, streams)
  BY <1>1, AnsweredOK DEF ExplicitRoute, Code, Status
<1>2. CASE Known(j.snap, slot, streams)
  <2> DEFINE e == [j EXCEPT !.mode = "explicit"]
             all == IF streams = {} THEN j.snap.slots[slot] ELSE streams
  <2>1. k \in WithRoute(e, slot, all)
    BY <1>2 DEF ExplicitRoute
  <2>2. all \in SUBSET Stream /\ Known(j.snap, slot, all)
    BY <1>2, SnapshotSlots DEF Known
  <2>3. /\ RequestShape(e) /\ e.mode = "explicit" /\ e.phase = j.phase
        /\ e.turns = j.turns /\ e.code = j.code /\ e.status = j.status
        /\ e.routed = j.routed /\ e.snap = j.snap /\ e.shown = j.shown
    BY ModeChanged DEF Unrouted
  <2> HIDE DEF e, all
  <2>4. RequestTyped(e)
    BY <2>3 DEF RequestTyped, Unrouted
  <2> QED
    BY <2>1, <2>2, <2>3, <2>4, WithRouteOK DEF Unrouted
<1> QED
  BY <1>1, <1>2

(* A request that is shown the catalog: its snapshot is one, and the       *)
(* version the router is shown is the snapshot's.                          *)
LEMMA SnapshotTaken ==
  ASSUME NEW j, Unrouted(j), catalog \in Snapshots,
         NEW s, s = [j EXCEPT !.snap = catalog, !.shown = catalog.version]
  PROVE  /\ Unrouted(s) /\ s.phase = j.phase /\ s.mode = j.mode
         /\ s.snap = catalog /\ s.shown = catalog.version
<1> DEFINE t == [j EXCEPT !.snap = catalog]
<1>1. s = [t EXCEPT !.shown = catalog.version]
  OBVIOUS
<1>2. /\ RequestShape(t) /\ t.snap = catalog /\ t.phase = j.phase /\ t.turns = j.turns
      /\ t.mode = j.mode /\ t.code = j.code /\ t.status = j.status
      /\ t.routed = j.routed
  BY SnapChanged DEF Unrouted
<1> HIDE DEF t
<1>3. /\ RequestShape(s) /\ s.snap = t.snap /\ s.shown = catalog.version
      /\ s.phase = t.phase /\ s.turns = t.turns
      /\ s.mode = t.mode /\ s.code = t.code /\ s.status = t.status
      /\ s.routed = t.routed
  BY ONLY <1>1, <1>2, ShownChanged
<1>4. RequestTyped(s)
  BY <1>2, <1>3 DEF RequestTyped, Unrouted
<1> QED
  BY <1>2, <1>3, <1>4 DEF Unrouted

(* A request that the router is asked about. *)
LEMMA RouterAsked ==
  ASSUME NEW j, Unrouted(j), j.snap \in Snapshots, j.shown = j.snap.version,
         NEW n \in 1..MaxTurnCount, NEW mode \in {"auto", "clarify_only"},
         NEW k, k = [j EXCEPT !.phase = "route", !.turns = n, !.mode = mode]
  PROVE  RequestOK(k)
<1> DEFINE p == [j EXCEPT !.phase = "route"]
           q == [p EXCEPT !.turns = n]
<1>1. k = [q EXCEPT !.mode = mode]
  OBVIOUS
<1>2. /\ RequestShape(p) /\ p.phase = "route" /\ p.snap = j.snap /\ p.shown = j.shown
      /\ p.code = j.code /\ p.status = j.status /\ p.routed = j.routed
  BY PhaseChanged DEF Unrouted
<1> HIDE DEF p
<1>3. /\ RequestShape(q) /\ q.phase = p.phase /\ q.snap = p.snap /\ q.shown = p.shown
      /\ q.turns = n
      /\ q.code = p.code /\ q.status = p.status /\ q.routed = p.routed
  BY <1>2, TurnsChanged
<1> HIDE DEF q
<1>4. /\ RequestShape(k) /\ k.phase = q.phase /\ k.snap = q.snap /\ k.shown = q.shown
      /\ k.turns = q.turns
      /\ k.code = q.code /\ k.status = q.status /\ k.routed = q.routed
  BY ONLY <1>1, <1>3, ModeChanged
<1>5. RequestTyped(k)
  BY <1>2, <1>3, <1>4, ChatAssumption DEF RequestTyped, Unrouted
<1>6. InPhase(k) /\ RoutedAsShown(k)
  BY <1>2, <1>3, <1>4, NoContextTyped DEF InPhase, RoutedAsShown, Unrouted
<1> QED
  BY <1>4, <1>5, <1>6 DEF RequestOK

(* Every way out of the reading of the catalog. *)
LEMMA ToRoutingOK ==
  ASSUME NEW j, Unrouted(j), catalog \in Snapshots, NEW k \in ToRouting(j)
  PROVE  RequestOK(k)
<1> DEFINE s == [j EXCEPT !.snap = catalog, !.shown = catalog.version]
<1>1. /\ Unrouted(s) /\ s.snap \in Snapshots /\ s.shown = s.snap.version
  BY SnapshotTaken
<1>2. \/ k \in ToKnowledge(j) \/ k \in ToKnowledge(s)
      \/ \E slot \in Slot, streams \in SUBSET Stream : k \in ExplicitRoute(s, slot, streams)
      \/ \E n \in 1..MaxTurnCount, mode \in {"auto", "clarify_only"} :
             k = Asked(s, n, mode)
  <2> DEFINE named == {ExplicitRoute(s, slot, streams) :
                       slot \in Slot, streams \in SUBSET Stream}
  <2>1. k \in ToKnowledge(j) \/ k \in (UNION named)
        \/ k \in (IF DOMAIN catalog.slots = {} THEN ToKnowledge(s) ELSE AskRouter(s))
    BY DEF ToRouting
  <2> HIDE DEF s
  <2>2. ASSUME k \in (UNION named)
        PROVE  \E slot \in Slot, streams \in SUBSET Stream : k \in ExplicitRoute(s, slot, streams)
    <3> HIDE DEF named
    <3>1. PICK e \in named : k \in e
      BY <2>2
    <3> USE DEF named
    <3>2. PICK slot \in Slot, streams \in SUBSET Stream : e = ExplicitRoute(s, slot, streams)
      BY <3>1
    <3> QED
      BY <3>1, <3>2
  <2>3. k \in AskRouter(s) => \E n \in 1..MaxTurnCount, mode \in {"auto", "clarify_only"} :
             k = Asked(s, n, mode)
    BY DEF AskRouter
  <2> HIDE DEF named
  <2> QED
    BY <2>1, <2>2, <2>3, Zenon
<1> HIDE DEF s
<1>3. ASSUME NEW i, Unrouted(i) PROVE RoutedAsShown(i)
  BY <1>3, NoContextTyped DEF RoutedAsShown, Unrouted
<1>4. CASE k \in ToKnowledge(j)
  BY <1>3, <1>4, ToKnowledgeOK DEF Unrouted
<1>5. CASE k \in ToKnowledge(s)
  BY <1>1, <1>3, <1>5, ToKnowledgeOK DEF Unrouted
<1>6. ASSUME NEW slot \in Slot, NEW streams \in SUBSET Stream,
             k \in ExplicitRoute(s, slot, streams)
      PROVE  RequestOK(k)
  BY <1>1, <1>6, ExplicitRouteOK
<1>7. ASSUME NEW n \in 1..MaxTurnCount, NEW mode \in {"auto", "clarify_only"},
             k = Asked(s, n, mode)
      PROVE  RequestOK(k)
  BY <1>1, <1>7, RouterAsked DEF Asked
<1> QED
  BY <1>2, <1>4, <1>5, <1>6, <1>7

(* Every way out of a round with the router. *)
LEMMA RouteOK ==
  ASSUME NEW j, RequestOK(j), j.phase = "route", NEW reply \in Reply,
         NEW k \in Route(j, reply)
  PROVE  RequestOK(k)
<1>1. /\ Unrouted(j) /\ j.snap \in Snapshots /\ j.shown = j.snap.version
  BY DEF RequestOK, RequestTyped, InPhase, Unrouted
<1>2. reply.slot \in Slot \cup {NoSlot} /\ reply.streams \in SUBSET Stream
  BY DEF Reply
<1>3. CASE k \in Answered(200, "clarify") \cup Answered(400, "error")
  BY <1>3, AnsweredOK DEF Code, Status
<1>4. CASE k = [j EXCEPT !.turns = NextTurnCount(@)]
  <2>1. /\ RequestShape(k) /\ k.turns = NextTurnCount(j.turns) /\ k.phase = j.phase
        /\ k.snap = j.snap /\ k.shown = j.shown /\ k.mode = j.mode
        /\ k.code = j.code /\ k.status = j.status /\ k.routed = j.routed
    BY <1>1, <1>4, TurnsChanged DEF Unrouted
  <2>2. k.turns \in 0..MaxTurnCount
    BY <1>1, <2>1, NextTurnCountInRange DEF Unrouted, RequestTyped
  <2>3. RequestTyped(k)
    BY <2>1, <2>2 DEF RequestOK, RequestTyped
  <2>4. InPhase(k) /\ RoutedAsShown(k)
    BY <2>1 DEF RequestOK, InPhase, RoutedAsShown
  <2> QED
    BY <2>1, <2>3, <2>4 DEF RequestOK
<1>5. CASE /\ j.mode # "clarify_only" /\ reply.slot # NoSlot
           /\ Known(j.snap, reply.slot, reply.streams)
           /\ k \in WithRoute([j EXCEPT !.turns = 0], reply.slot, reply.streams)
  <2> DEFINE t == [j EXCEPT !.turns = 0]
  <2>1. /\ RequestShape(t) /\ t.turns = 0 /\ t.phase = j.phase
        /\ t.snap = j.snap /\ t.shown = j.shown /\ t.mode = j.mode
        /\ t.code = j.code /\ t.status = j.status /\ t.routed = j.routed
    BY <1>1, TurnsChanged DEF Unrouted
  <2>2. k \in WithRoute(t, reply.slot, reply.streams)
    BY <1>5
  <2> HIDE DEF t
  <2>3. RequestTyped(t)
    BY <2>1, ChatAssumption DEF RequestOK, RequestTyped
  <2> QED
    BY <1>1, <1>2, <1>5, <2>1, <2>2, <2>3, WithRouteOK DEF Unrouted
<1> QED
  BY <1>3, <1>4, <1>5 DEF Route

-----------------------------------------------------------------------------
(* Preprocessing.                                                          *)

(* A request that has just arrived is not answered and has no route. *)
LEMMA NewRequestUnrouted == Unrouted(NewRequest)
<1>1. NewRequest.routed = NoContext /\ NewRequest.code = 0
  BY DEF NewRequest
<1> QED
  BY <1>1, NewRequestOK DEF RequestOK, Unrouted

(* A request that is preprocessed. *)
LEMMA DumpedOK ==
  ASSUME NEW j, Unrouted(j), j.phase = "dump"
  PROVE  RequestOK(j)
  BY NoContextTyped DEF RequestOK, Unrouted, InPhase, RoutedAsShown

(* Every way a request begins. *)
LEMMA BeginOK ==
  ASSUME catalog \in Snapshots, NEW text, NEW enabled \in BOOLEAN,
         NEW k \in Begin(text, enabled)
  PROVE  RequestOK(k)
<1> DEFINE t == [NewRequest EXCEPT !.phase = "dump"]
           u == [t EXCEPT !.text = text]
           w == [u EXCEPT !.windows = NaturalWindows(text)]
<1>1. CASE k \in Answered(400, "error")
  BY <1>1, AnsweredOK DEF Code, Status
<1>2. CASE k \in ToRouting(NewRequest)
  BY <1>2, NewRequestUnrouted, ToRoutingOK
<1>3. CASE k = [NewRequest EXCEPT !.phase = "dump", !.text = text,
                                  !.windows = NaturalWindows(text)]
  <2>1. k = w
    BY <1>3
  <2>2. Unrouted(t) /\ t.phase = "dump"
    <3> DEFINE n == NewRequest
    <3>1. RequestShape(n) /\ RequestTyped(n) /\ Unrouted(n)
      BY NewRequestUnrouted DEF Unrouted
    <3> HIDE DEF n
    <3>2. /\ RequestShape(t) /\ t.phase = "dump" /\ t.turns = n.turns
          /\ t.routed = n.routed /\ t.code = n.code /\ t.status = n.status
      BY <3>1, PhaseChanged DEF n
    <3> QED
      BY <3>1, <3>2 DEF Unrouted, RequestTyped
  <2> HIDE DEF t
  <2>3. /\ RequestShape(u) /\ u.phase = t.phase /\ u.turns = t.turns
        /\ u.routed = t.routed /\ u.code = t.code /\ u.status = t.status
    BY <2>2, TextChanged DEF Unrouted
  <2> HIDE DEF u
  <2>4. /\ RequestShape(w) /\ w.phase = u.phase /\ w.turns = u.turns
        /\ w.routed = u.routed /\ w.code = u.code /\ w.status = u.status
    BY ONLY <2>3, WindowsChanged
  <2> HIDE DEF w
  <2>5. RequestTyped(w)
    BY <2>2, <2>3, <2>4 DEF Unrouted, RequestTyped
  <2>6. Unrouted(w) /\ w.phase = "dump"
    BY <2>2, <2>3, <2>4, <2>5 DEF Unrouted
  <2> QED
    BY <2>1, <2>6, DumpedOK
<1> QED
  BY <1>1, <1>2, <1>3 DEF Begin

(* Every way on from the answer for a window. *)
LEMMA AnalyzedOK ==
  ASSUME NEW j, RequestOK(j), j.phase = "dump", catalog \in Snapshots,
         NEW k \in Analyzed(j)
  PROVE  RequestOK(k)
<1> DEFINE c == Append(j.chunks, Head(j.windows))
           w == Tail(j.windows)
           t == [j EXCEPT !.chunks = c]
           u == [t EXCEPT !.windows = w]
<1>1. Unrouted(j)
  BY DEF RequestOK, RequestTyped, InPhase, Unrouted
<1>2. k \in ToRouting(u) \/ k = u
  BY DEF Analyzed
<1> HIDE DEF c, w
<1>3. /\ RequestShape(t) /\ t.phase = j.phase /\ t.turns = j.turns
      /\ t.routed = j.routed /\ t.code = j.code /\ t.status = j.status
  BY <1>1, ChunksChanged DEF Unrouted
<1> HIDE DEF t
<1>4. /\ RequestShape(u) /\ u.phase = t.phase /\ u.turns = t.turns
      /\ u.routed = t.routed /\ u.code = t.code /\ u.status = t.status
  BY <1>3, WindowsChanged
<1> HIDE DEF u
<1>5. RequestTyped(u)
  BY <1>1, <1>3, <1>4 DEF RequestTyped, Unrouted
<1>6. Unrouted(u) /\ u.phase = "dump"
  BY <1>1, <1>3, <1>4, <1>5 DEF Unrouted
<1> QED
  BY <1>2, <1>6, ToRoutingOK, DumpedOK

-----------------------------------------------------------------------------
(* The metrics.                                                            *)

Counted(s) == Cardinality({r \in Request : req[r].status = s})

(* An answer counts once, under the status it is recorded with. *)
LEMMA CountedOnce ==
  ASSUME req = [q \in Request |-> req[q]], NEW r \in Request, NEW k,
         req' = [req EXCEPT ![r] = k], req[r].status = "none", NEW s, s # "none"
  PROVE  /\ Counted(s) \in Nat
         /\ Counted(s)' = Counted(s) + (IF k.status = s THEN 1 ELSE 0)
<1> DEFINE S == {q \in Request : req[q].status = s}
           T == {q \in Request : req'[q].status = s}
<1>1. IsFiniteSet(S) /\ Cardinality(S) \in Nat
  BY ChatAssumption, FS_Subset, FS_CardinalityType
<1>2. req'[r] = k /\ \A q \in Request : q # r => req'[q] = req[q]
  OBVIOUS
<1>3. r \notin S
  OBVIOUS
<1>4. T = IF k.status = s THEN S \cup {r} ELSE S
  BY <1>2, <1>3
<1> HIDE DEF S, T
<1>6. Cardinality(S \cup {r}) = Cardinality(S) + 1
  BY ONLY <1>1, <1>3, FS_AddElement
<1>5. Cardinality(T) = Cardinality(S) + (IF k.status = s THEN 1 ELSE 0)
  BY <1>1, <1>4, <1>6
<1> QED
  BY <1>1, <1>5 DEF Counted, S, T

Latest(a) == SubSeq(Reverse(a), 1, Min({RecentLimit, Len(a)}))

(* The latest answers are the new one and the latest before it, within the *)
(* limit.                                                                  *)
LEMMA LatestAppended ==
  ASSUME NEW a \in Seq(Request), NEW r \in Request
  PROVE  SubSeq(<<r>> \o Latest(a), 1, Min({RecentLimit, Len(Latest(a)) + 1}))
         = Latest(Append(a, r))
<1> DEFINE n == Len(a)
           m == Min({RecentLimit, n})
           p == Min({RecentLimit, m + 1})
           b == Append(a, r)
           l == Latest(a)
<1>1. n \in Nat /\ RecentLimit \in Nat \ {0} /\ RecentLimit \in Int
  BY ChatAssumption
<1>2. m = IF RecentLimit <= n THEN RecentLimit ELSE n
  BY <1>1, MinMaxOfTwo
<1>3. b \in Seq(Request) /\ Len(b) = n + 1
      /\ b[n + 1] = r /\ \A i \in 1..n : b[i] = a[i]
  OBVIOUS
<1> HIDE DEF m
<1>15. m \in 0..n
  BY <1>1, <1>2
<1>16. l = SubSeq(Reverse(a), 1, m)
  BY DEF Latest, m
<1>17. Reverse(a) = [i \in 1..n |-> a[n - i + 1]]
  BY DEF Reverse
<1> HIDE DEF n, b, l
<1>4. l = [i \in 1..m |-> a[n - i + 1]]
  BY <1>1, <1>15, <1>16, <1>17
<1>18. \A i \in 1..m : a[n - i + 1] \in Request
  BY <1>1, <1>15 DEF n
<1>5. l \in Seq(Request) /\ Len(l) = m
  BY <1>15, <1>4, <1>18
<1>6. m + 1 \in Int /\ n + 1 \in Int
  BY <1>1, <1>2
<1>7. p = IF RecentLimit <= m + 1 THEN RecentLimit ELSE m + 1
  BY ONLY <1>1, <1>6, MinMaxOfTwo
<1>8. Min({RecentLimit, n + 1}) = IF RecentLimit <= n + 1 THEN RecentLimit ELSE n + 1
  BY ONLY <1>1, <1>6, MinMaxOfTwo
<1>9. p = Min({RecentLimit, n + 1})
  BY <1>1, <1>2, <1>7, <1>8
<1>10. p \in 1..(m + 1) /\ p \in 1..(n + 1)
  BY <1>1, <1>2, <1>7
<1> HIDE DEF p
<1>11. SubSeq(<<r>> \o l, 1, p) = [i \in 1..p |-> IF i = 1 THEN r ELSE l[i - 1]]
  BY <1>1, <1>2, <1>5, <1>10
<1>12. SubSeq(Reverse(b), 1, p) = [i \in 1..p |-> b[n + 1 - i + 1]]
  BY <1>1, <1>3, <1>10 DEF Reverse
<1>13. ASSUME NEW i \in 1..p
       PROVE  b[n + 1 - i + 1] = IF i = 1 THEN r ELSE l[i - 1]
  BY <1>1, <1>2, <1>3, <1>4, <1>10
<1>14. SubSeq(<<r>> \o l, 1, p) = SubSeq(Reverse(b), 1, p)
  BY <1>11, <1>12, <1>13
<1> QED
  BY <1>3, <1>5, <1>9, <1>14 DEF Latest, p, l, b, n

-----------------------------------------------------------------------------
(* The inductive invariant.                                                *)

(* The metrics, by the number of requests of each status. *)
Metered ==
    /\ metrics.total = Counted("ok") + Counted("clarify") + Counted("error")
    /\ metrics.ok = Counted("ok")
    /\ metrics.clarified = Counted("clarify")
    /\ metrics.failed = Counted("error")
    /\ metrics.recent = Latest(answers)

(* The inductive invariant, by the parts the steps are proved from. *)
LEMMA InvNamed ==
  ChatIInv <=> /\ service \in BOOLEAN /\ catalog \in Snapshots
               /\ req = [r \in Request |-> req[r]]
               /\ \A r \in Request : RequestOK(req[r])
               /\ answers \in Seq(Request)
               /\ Metered
<1>1. MetricsAgree <=> Metered
  BY DEF MetricsAgree, Metered, Counted, Latest
<1>2. ChatTypeOK <=> /\ service \in BOOLEAN /\ catalog \in Snapshots
                     /\ \A r \in Request : RequestTyped(req[r])
  BY DEF ChatTypeOK, RequestTyped, Snapshots
<1>3. (\A r \in Request : RequestOK(req[r])) <=>
        /\ \A r \in Request : RequestTyped(req[r])
        /\ \A r \in Request : RequestShape(req[r]) /\ InPhase(req[r])
                              /\ RoutedAsShown(req[r])
  BY DEF RequestOK
<1> QED
  BY <1>1, <1>2, <1>3, Zenon DEF ChatIInv

(* The same after a step. *)
LEMMA InvNamedNext ==
  ASSUME service' \in BOOLEAN, catalog' \in Snapshots, req' = [r \in Request |-> req'[r]],
         \A r \in Request : RequestOK(req'[r]), answers' \in Seq(Request), Metered'
  PROVE  ChatIInv'
<1>1. MetricsAgree'
  BY DEF MetricsAgree, Metered, Counted, Latest
<1>2. ChatTypeOK'
  BY DEF ChatTypeOK, RequestTyped, Snapshots, RequestOK
<1>3. \A r \in Request : RequestShape(req'[r]) /\ InPhase(req'[r]) /\ RoutedAsShown(req'[r])
  BY DEF RequestOK
<1> QED
  BY <1>1, <1>2, <1>3 DEF ChatIInv

(* Nothing is recorded, and no request has been answered. *)
LEMMA ChatInitInv == ChatInit => ChatIInv
<1> SUFFICES ASSUME ChatInit PROVE ChatIInv
  OBVIOUS
<1>1. service \in BOOLEAN /\ catalog \in Snapshots
  BY ChatAssumption DEF ChatInit, Snapshots
<1>2. \A r \in Request : req[r] = NewRequest
  BY DEF ChatInit
<1>3. req = [r \in Request |-> req[r]]
  BY DEF ChatInit
<1>4. \A r \in Request : RequestOK(req[r]) /\ req[r].status = "none"
  BY <1>2, NewRequestOK
<1>5. answers = <<>>
  BY DEF ChatInit
<1>6. ASSUME NEW s, s # "none" PROVE Counted(s) = 0
  <2>1. {r \in Request : req[r].status = s} = {}
    BY <1>4, <1>6
  <2> QED
    BY <2>1, FS_EmptySet DEF Counted
<1>7. Latest(<<>>) = <<>>
  <2>1. RecentLimit \in Nat \ {0} /\ RecentLimit \in Int /\ 0 \in Int
    BY ChatAssumption
  <2>2. Min({RecentLimit, 0}) = 0
    BY ONLY <2>1, MinMaxOfTwo
  <2> QED
    BY <2>2 DEF Latest, Reverse
<1>8. Metered
  <2>1. Counted("ok") = 0 /\ Counted("clarify") = 0 /\ Counted("error") = 0
    BY <1>6
  <2> QED
    BY <1>5, <1>7, <2>1 DEF ChatInit, Metered
<1> QED
  BY <1>1, <1>3, <1>4, <1>5, <1>8, InvNamed

(* A request that runs to its next await, or to its answer. *)
LEMMA RunToInv ==
  ASSUME ChatIInv, NEW r \in Request, req[r].status = "none",
         NEW outcomes, \A k \in outcomes : RequestOK(k), RunTo(r, outcomes)
  PROVE  ChatIInv'
<1> USE DEF RunTo
<1>1. PICK k \in outcomes :
        /\ req' = [req EXCEPT ![r] = k]
        /\ metrics' = IF k.status = "none" THEN metrics
                      ELSE Recorded(metrics, r, k.status)
        /\ answers' = IF k.status = "none" THEN answers ELSE Append(answers, r)
        /\ UNCHANGED <<service, catalog>>
  OBVIOUS
<1>2. /\ service \in BOOLEAN /\ catalog \in Snapshots /\ req = [q \in Request |-> req[q]]
      /\ \A q \in Request : RequestOK(req[q])
      /\ answers \in Seq(Request) /\ Metered
  BY InvNamed
<1>3. RequestOK(k) /\ k.status \in {"none", "ok", "clarify", "error"}
  BY DEF RequestOK, RequestTyped, Status
<1>4. req' = [q \in Request |-> req'[q]] /\ \A q \in Request : RequestOK(req'[q])
  BY <1>1, <1>2, <1>3
<1>5. service' \in BOOLEAN /\ catalog' \in Snapshots /\ answers' \in Seq(Request)
  BY <1>1, <1>2
<1>6. ASSUME NEW s, s # "none"
      PROVE  /\ Counted(s) \in Nat
             /\ Counted(s)' = Counted(s) + (IF k.status = s THEN 1 ELSE 0)
  BY <1>1, <1>2, <1>6, CountedOnce
<1>7. /\ Counted("ok") \in Nat /\ Counted("clarify") \in Nat /\ Counted("error") \in Nat
      /\ Counted("ok")' = Counted("ok") + (IF k.status = "ok" THEN 1 ELSE 0)
      /\ Counted("clarify")' = Counted("clarify") + (IF k.status = "clarify" THEN 1 ELSE 0)
      /\ Counted("error")' = Counted("error") + (IF k.status = "error" THEN 1 ELSE 0)
  BY <1>6
<1>8. Metered'
  <2>1. CASE k.status = "none"
    <3>1. metrics' = metrics /\ answers' = answers
      BY <1>1, <2>1
    <3>2. /\ Counted("ok")' = Counted("ok") /\ Counted("clarify")' = Counted("clarify")
          /\ Counted("error")' = Counted("error")
      BY <1>7, <2>1
    <3> QED
      BY <1>2, <3>1, <3>2 DEF Metered
  <2>2. CASE k.status # "none"
    <3>1. metrics' = Recorded(metrics, r, k.status) /\ answers' = Append(answers, r)
      BY <1>1, <2>2
    <3>2. /\ metrics'.total = metrics.total + 1
          /\ metrics'.ok = metrics.ok + (IF k.status = "ok" THEN 1 ELSE 0)
          /\ metrics'.clarified = metrics.clarified + (IF k.status = "clarify" THEN 1 ELSE 0)
          /\ metrics'.failed = metrics.failed + (IF k.status = "error" THEN 1 ELSE 0)
          /\ metrics'.recent = SubSeq(<<r>> \o metrics.recent, 1,
                                      Min({RecentLimit, Len(metrics.recent) + 1}))
      BY <3>1 DEF Recorded
    <3>3. metrics'.recent = Latest(answers')
      BY <1>2, <3>1, <3>2, LatestAppended DEF Metered
    <3>4. /\ metrics'.ok = Counted("ok")' /\ metrics'.clarified = Counted("clarify")'
          /\ metrics'.failed = Counted("error")'
      BY <1>2, <1>7, <3>2 DEF Metered
    <3>5. metrics'.total = Counted("ok")' + Counted("clarify")' + Counted("error")'
      <4>1. metrics.total = Counted("ok") + Counted("clarify") + Counted("error")
        BY <1>2 DEF Metered
      <4>2. metrics'.total = metrics.total + 1
        BY <3>2
      <4>3. \/ k.status = "ok" \/ k.status = "clarify" \/ k.status = "error"
        BY <1>3, <2>2
      <4> QED
        BY ONLY <1>7, <4>1, <4>2, <4>3
    <3>6. Latest(answers)' = Latest(answers')
      BY DEF Latest
    <3> QED
      BY <3>3, <3>4, <3>5, <3>6 DEF Metered
  <2> QED
    BY <2>1, <2>2
<1> QED
  BY <1>4, <1>5, <1>8, InvNamedNext

(* A request that is not done has nothing recorded. *)
LEMMA OpenIsUnrecorded ==
  ASSUME ChatIInv, NEW r \in Request, req[r].phase # "done"
  PROVE  RequestOK(req[r]) /\ req[r].status = "none" /\ req[r].code = 0
         /\ catalog \in Snapshots
  BY InvNamed DEF RequestOK, RequestTyped, InPhase

(* Every step of a request. *)
LEMMA RequestStepInv ==
  ASSUME ChatIInv, NEW r \in Request, Receive(r) \/ ModelStep(r)
  PROVE  ChatIInv'
<1> DEFINE j == req[r]
<1>1. CASE Receive(r)
  <2>1. PICK text \in Text \cup {<<>>}, enabled \in BOOLEAN : RunTo(r, Begin(text, enabled))
    BY <1>1 DEF Receive
  <2>2. req[r].phase # "done"
    BY <1>1 DEF Receive
  <2> QED
    BY <2>1, <2>2, OpenIsUnrecorded, BeginOK, RunToInv
<1>2. CASE WindowAnalyzed(r)
  <2>1. j.phase = "dump" /\ RunTo(r, Analyzed(j))
    BY <1>2 DEF WindowAnalyzed
  <2> QED
    BY <2>1, OpenIsUnrecorded, AnalyzedOK, RunToInv
<1>3. CASE WindowFails(r)
  <2>1. j.phase # "done" /\ RunTo(r, Answered(400, "error") \cup Answered(502, "error"))
    BY <1>3 DEF WindowFails
  <2>2. \A k \in Answered(400, "error") \cup Answered(502, "error") : RequestOK(k)
    BY AnsweredOK DEF Code, Status
  <2> QED
    BY <2>1, <2>2, OpenIsUnrecorded, RunToInv
<1>4. CASE RouterReplies(r)
  <2>1. j.phase = "route" /\ \E reply \in Reply : RunTo(r, Route(j, reply))
    BY <1>4 DEF RouterReplies
  <2>2. PICK reply \in Reply : RunTo(r, Route(j, reply))
    BY <2>1
  <2>3. RequestOK(j) /\ j.status = "none"
    BY <2>1, OpenIsUnrecorded
  <2>4. \A k \in Route(j, reply) : RequestOK(k)
    BY <2>1, <2>3, RouteOK
  <2> QED
    BY <2>2, <2>3, <2>4, RunToInv
<1>5. CASE RouterFails(r)
  <2>1. j.phase # "done" /\ RunTo(r, Answered(400, "error") \cup Answered(500, "none"))
    BY <1>5 DEF RouterFails
  <2>2. \A k \in Answered(400, "error") \cup Answered(500, "none") : RequestOK(k)
    BY AnsweredOK DEF Code, Status
  <2> QED
    BY <2>1, <2>2, OpenIsUnrecorded, RunToInv
<1>6. ASSUME NEW k, RequestOK(j), j.phase = "knowledge", RequestShape(k),
             k.phase = "rlm", k.turns = j.turns, k.routed = j.routed, k.code = j.code,
             k.status = j.status, k.snap = j.snap, k.shown = j.shown, k.mode = j.mode
      PROVE  RequestOK(k)
  <2>1. RequestTyped(k)
    BY <1>6 DEF RequestOK, RequestTyped
  <2>2. InPhase(k) /\ RoutedAsShown(k)
    BY <1>6 DEF RequestOK, InPhase, RoutedAsShown
  <2> QED
    BY <1>6, <2>1, <2>2 DEF RequestOK
<1>7. CASE KnowledgeFound(r)
  <2> DEFINE p == [j EXCEPT !.phase = "rlm"]
             k == [p EXCEPT !.knowledge = "ok"]
  <2>1. j.phase = "knowledge" /\ RunTo(r, {k})
    BY <1>7 DEF KnowledgeFound
  <2>2. RequestOK(j) /\ j.status = "none"
    BY <2>1, OpenIsUnrecorded
  <2>3. /\ RequestShape(p) /\ p.phase = "rlm" /\ p.turns = j.turns
        /\ p.routed = j.routed /\ p.code = j.code /\ p.status = j.status
        /\ p.snap = j.snap /\ p.shown = j.shown /\ p.mode = j.mode
    BY <2>2, PhaseChanged DEF RequestOK
  <2> HIDE DEF p
  <2>4. /\ RequestShape(k) /\ k.phase = p.phase /\ k.turns = p.turns
        /\ k.routed = p.routed /\ k.code = p.code /\ k.status = p.status
        /\ k.snap = p.snap /\ k.shown = p.shown /\ k.mode = p.mode
    BY ONLY <2>3, KnowledgeChanged
  <2> HIDE DEF k
  <2>5. RequestOK(k)
    BY <1>6, <2>1, <2>2, <2>3, <2>4
  <2> QED
    BY <2>1, <2>2, <2>5, RunToInv
<1>8. CASE KnowledgeMissing(r)
  <2>1. j.phase = "knowledge"
        /\ RunTo(r, IF j.required THEN Answered(502, "error") ELSE {Without(j)})
    BY <1>8 DEF KnowledgeMissing, Unavailable
  <2>2. RequestOK(j) /\ j.status = "none"
    BY <2>1, OpenIsUnrecorded
  <2> DEFINE p == [j EXCEPT !.phase = "rlm"]
             k == [p EXCEPT !.knowledge = "unavailable"]
  <2>3. Without(j) = k
    BY DEF Without
  <2>4. /\ RequestShape(p) /\ p.phase = "rlm" /\ p.turns = j.turns
        /\ p.routed = j.routed /\ p.code = j.code /\ p.status = j.status
        /\ p.snap = j.snap /\ p.shown = j.shown /\ p.mode = j.mode
    BY <2>2, PhaseChanged DEF RequestOK
  <2> HIDE DEF p
  <2>5. /\ RequestShape(k) /\ k.phase = p.phase /\ k.turns = p.turns
        /\ k.routed = p.routed /\ k.code = p.code /\ k.status = p.status
        /\ k.snap = p.snap /\ k.shown = p.shown /\ k.mode = p.mode
    BY ONLY <2>4, KnowledgeChanged
  <2> HIDE DEF k
  <2>6. RequestOK(k)
    BY <1>6, <2>1, <2>2, <2>4, <2>5
  <2>7. \A x \in Answered(502, "error") : RequestOK(x)
    BY AnsweredOK DEF Code, Status
  <2>8. \A x \in (IF j.required THEN Answered(502, "error") ELSE {Without(j)}) : RequestOK(x)
    BY <2>3, <2>6, <2>7
  <2> QED
    BY <2>1, <2>2, <2>8, RunToInv
<1>9. CASE KnowledgeMalformed(r)
  <2>1. j.phase # "done" /\ RunTo(r, Answered(500, "none"))
    BY <1>9 DEF KnowledgeMalformed
  <2>2. \A k \in Answered(500, "none") : RequestOK(k)
    BY AnsweredOK DEF Code, Status
  <2> QED
    BY <2>1, <2>2, OpenIsUnrecorded, RunToInv
<1>10. CASE RlmEnds(r)
  <2>1. j.phase # "done"
        /\ RunTo(r, Answered(200, "ok") \cup Answered(502, "error") \cup Answered(500, "none"))
    BY <1>10 DEF RlmEnds
  <2>2. \A k \in Answered(200, "ok") \cup Answered(502, "error")
                 \cup Answered(500, "none") : RequestOK(k)
    BY AnsweredOK DEF Code, Status
  <2> QED
    BY <2>1, <2>2, OpenIsUnrecorded, RunToInv
<1> QED
  BY <1>1, <1>2, <1>3, <1>4, <1>5, <1>7, <1>8, <1>9, <1>10 DEF ModelStep

(* The catalog is replaced under requests that have their snapshot. *)
LEMMA ReplaceCatalogInv ==
  ASSUME ChatIInv, ReplaceCatalog
  PROVE  ChatIInv'
<1>1. /\ service \in BOOLEAN /\ catalog \in Snapshots /\ req = [q \in Request |-> req[q]]
      /\ \A q \in Request : RequestOK(req[q])
      /\ answers \in Seq(Request) /\ Metered
  BY InvNamed
<1>2. service' = service /\ req' = req /\ metrics' = metrics /\ answers' = answers
  BY DEF ReplaceCatalog
<1>3. catalog' \in Snapshots
  BY <1>1, ChatAssumption DEF ReplaceCatalog, Snapshots
<1>4. Metered'
  BY <1>1, <1>2 DEF Metered, Counted
<1> QED
  BY <1>1, <1>2, <1>3, <1>4, InvNamedNext

(* The chat proxy's inductive invariant holds, with the metrics that count *)
(* what was answered (app.py 129, routing.py 158, metrics.py 53).          *)
THEOREM ChatInvariant == ChatSpec => []ChatIInv
<1>1. ChatInit => ChatIInv
  BY ChatInitInv
<1>2. ChatIInv /\ [ChatNext]_chatVars => ChatIInv'
  <2> SUFFICES ASSUME ChatIInv, [ChatNext]_chatVars PROVE ChatIInv'
    OBVIOUS
  <2>1. CASE ReplaceCatalog
    BY <2>1, ReplaceCatalogInv
  <2>2. ASSUME NEW r \in Request, Receive(r) \/ ModelStep(r) PROVE ChatIInv'
    BY <2>2, RequestStepInv
  <2>3. CASE UNCHANGED chatVars
    <3>1. /\ service' = service /\ catalog' = catalog /\ req' = req
          /\ metrics' = metrics /\ answers' = answers
      BY <2>3 DEF chatVars
    <3>2. /\ service \in BOOLEAN /\ catalog \in Snapshots /\ req = [q \in Request |-> req[q]]
          /\ \A q \in Request : RequestOK(req[q])
          /\ answers \in Seq(Request) /\ Metered
      BY InvNamed
    <3>3. Metered'
      BY <3>1, <3>2 DEF Metered, Counted
    <3> QED
      BY <3>1, <3>2, <3>3, InvNamedNext
  <2> QED
    BY <2>1, <2>2, <2>3 DEF ChatNext
<1> QED
  BY <1>1, <1>2, PTL DEF ChatSpec

(* The requests have their types, and one is done exactly when it has an   *)
(* answer (app.py 129).                                                    *)
THEOREM TypeCorrect == ChatSpec => []ChatTypeOK
<1>1. ChatIInv => ChatTypeOK
  BY DEF ChatIInv
<1> QED
  BY <1>1, ChatInvariant, PTL

(* A request is routed to a slot and workstreams of the very version its   *)
(* router was shown, for any catalogs and however often they change while  *)
(* it is under way (app.py 223, 269).                                      *)
THEOREM RoutedFromShownHolds == ChatSpec => []RoutedFromShown
<1>1. ChatIInv => RoutedFromShown
  BY DEF ChatIInv, RoutedFromShown, RoutedAsShown
<1> QED
  BY <1>1, ChatInvariant, PTL

(* The metrics count every recorded answer once under its own kind, and    *)
(* the latest are remembered newest first, for any number of requests and  *)
(* any limit (metrics.py 53).                                              *)
THEOREM MetricsAgreeHolds == ChatSpec => []MetricsAgree
<1>1. ChatIInv => MetricsAgree
  BY DEF ChatIInv
<1> QED
  BY <1>1, ChatInvariant, PTL

-----------------------------------------------------------------------------
(* What the RLM is run with: the whole message, and the knowledge.         *)

(* A request whose text and windows, or chunks and windows, or knowledge   *)
(* change keeps the rest of what it carries.                               *)
LEMMA TextCarried ==
  ASSUME NEW j, RequestShape(j), NEW x, NEW k, k = [j EXCEPT !.text = x]
  PROVE  /\ k.text = x /\ k.windows = j.windows /\ k.chunks = j.chunks
         /\ k.required = j.required /\ k.knowledge = j.knowledge
  BY DEF RequestShape

(* The same of its windows. *)
LEMMA WindowsCarried ==
  ASSUME NEW j, RequestShape(j), NEW x, NEW k, k = [j EXCEPT !.windows = x]
  PROVE  /\ k.text = j.text /\ k.windows = x /\ k.chunks = j.chunks
         /\ k.required = j.required /\ k.knowledge = j.knowledge
  BY DEF RequestShape

(* The same of its chunks. *)
LEMMA ChunksCarried ==
  ASSUME NEW j, RequestShape(j), NEW x, NEW k, k = [j EXCEPT !.chunks = x]
  PROVE  /\ k.text = j.text /\ k.windows = j.windows /\ k.chunks = x
         /\ k.required = j.required /\ k.knowledge = j.knowledge
  BY DEF RequestShape

(* The same of what it requires. *)
LEMMA RequiredCarried ==
  ASSUME NEW j, RequestShape(j), NEW x, NEW k, k = [j EXCEPT !.required = x]
  PROVE  /\ k.text = j.text /\ k.windows = j.windows /\ k.chunks = j.chunks
         /\ k.required = x /\ k.knowledge = j.knowledge
  BY DEF RequestShape

(* The same of its knowledge. *)
LEMMA KnowledgeCarried ==
  ASSUME NEW j, RequestShape(j), NEW x, NEW k, k = [j EXCEPT !.knowledge = x]
  PROVE  /\ k.text = j.text /\ k.windows = j.windows /\ k.chunks = j.chunks
         /\ k.required = j.required /\ k.knowledge = x
  BY DEF RequestShape

(* A request that carries what one that was all analyzed does. *)
LEMMA CarriesAllAsked ==
  ASSUME NEW j, Loaded(j), j.windows = <<>>, NEW k, Carries(k, j), k.phase # "dump",
         Informed(k)
  PROVE  AllAsked(k)
  BY DEF Carries, Loaded, AllAsked

(* A new request carries nothing. *)
LEMMA NewRequestLoaded == Loaded(NewRequest) /\ NewRequest.windows = <<>>
<1>1. /\ NewRequest.text = <<>> /\ NewRequest.windows = <<>> /\ NewRequest.chunks = <<>>
      /\ NewRequest.required = FALSE
  BY DEF NewRequest
<1>2. Covered(<<>> \o <<>>, <<>>)
  BY DEF Covered
<1> QED
  BY <1>1, <1>2 DEF Loaded

(* A request that is answered carries nothing any more. *)
LEMMA AnsweredAllAsked ==
  ASSUME NEW code, NEW status, NEW k \in Answered(code, status)
  PROVE  AllAsked(k)
<1> DEFINE n == NewRequest
           p == [n EXCEPT !.phase = "done"]
           q == [p EXCEPT !.code = code]
           a == [q EXCEPT !.status = status]
<1>1. k = a
  BY DEF Answered
<1>2. RequestShape(n) /\ Loaded(n) /\ n.windows = <<>>
  BY NewRequestOK, NewRequestLoaded DEF RequestOK
<1> HIDE DEF n
<1>3. RequestShape(p) /\ p.phase = "done" /\ Carries(p, n)
  BY <1>2, PhaseChanged
<1> HIDE DEF p
<1>4. RequestShape(q) /\ q.phase = p.phase /\ Carries(q, p)
  BY <1>3, CodeChanged
<1> HIDE DEF q
<1>5. a.phase = q.phase /\ Carries(a, q)
  BY <1>4, StatusChanged
<1> HIDE DEF a
<1>6. Carries(a, n)
  BY <1>3, <1>4, <1>5 DEF Carries
<1>7. a.phase # "dump" /\ Informed(a)
  BY <1>3, <1>4, <1>5 DEF Informed
<1> QED
  BY <1>1, <1>2, <1>6, <1>7, CarriesAllAsked

(* Routing leaves what a request carries as it is, and with a service none *)
(* that requires the knowledge goes straight to the RLM.                   *)
LEMMA ToKnowledgeCarries ==
  ASSUME NEW j, RequestShape(j), NEW k \in ToKnowledge(j)
  PROVE  k.phase # "dump" /\ Informed(k) /\ Carries(k, j)
<1>1. PICK wish \in Wish :
        k = [j EXCEPT !.required = (wish = "required"),
                      !.phase = IF service /\ wish # "off" THEN "knowledge" ELSE "rlm"]
  BY DEF ToKnowledge
<1> DEFINE required == (wish = "required")
           phase == IF service /\ wish # "off" THEN "knowledge" ELSE "rlm"
           b == [j EXCEPT !.required = required]
<1>2. k = [b EXCEPT !.phase = phase]
  BY <1>1
<1>3. phase \in {"rlm", "knowledge"} /\ (phase = "rlm" /\ service => ~required)
  OBVIOUS
<1> HIDE DEF required, phase
<1>4. RequestShape(b)
  BY RequiredChanged
<1>5. b.text = j.text /\ b.windows = j.windows /\ b.chunks = j.chunks /\ b.required = required
  BY RequiredCarried
<1> HIDE DEF b
<1>6. k.phase = phase /\ Carries(k, b)
  BY <1>2, <1>4, PhaseChanged
<1>7. k.required = b.required
  BY <1>2, <1>4 DEF RequestShape
<1> QED
  BY <1>3, <1>5, <1>6, <1>7 DEF Informed, Carries

(* With a route as without. *)
LEMMA WithRouteCarries ==
  ASSUME NEW j, RequestShape(j), NEW slot, NEW streams, NEW k \in WithRoute(j, slot, streams)
  PROVE  k.phase # "dump" /\ Informed(k) /\ Carries(k, j)
<1> DEFINE w == [j EXCEPT !.routed = RoutedContext(j.snap, slot, streams)]
<1>1. k \in ToKnowledge(w)
  BY DEF WithRoute
<1>2. RequestShape(w) /\ Carries(w, j)
  BY RoutedChanged
<1> HIDE DEF w
<1>3. k.phase # "dump" /\ Informed(k) /\ Carries(k, w)
  BY <1>1, <1>2, ToKnowledgeCarries
<1> QED
  BY <1>2, <1>3 DEF Carries

(* With the route the request names. *)
LEMMA ExplicitRouteCarries ==
  ASSUME NEW j, RequestShape(j), NEW slot, NEW streams,
         NEW k \in ExplicitRoute(j, slot, streams)
  PROVE  AllAsked(k) \/ (k.phase # "dump" /\ Informed(k) /\ Carries(k, j))
<1>1. CASE ~Known(j.snap, slot, streams)
  BY <1>1, AnsweredAllAsked DEF ExplicitRoute
<1>2. CASE Known(j.snap, slot, streams)
  <2> DEFINE e == [j EXCEPT !.mode = "explicit"]
             all == IF streams = {} THEN j.snap.slots[slot] ELSE streams
  <2>1. k \in WithRoute(e, slot, all)
    BY <1>2 DEF ExplicitRoute
  <2>2. RequestShape(e) /\ Carries(e, j)
    BY ModeChanged
  <2> HIDE DEF e, all
  <2>3. k.phase # "dump" /\ Informed(k) /\ Carries(k, e)
    BY <2>1, <2>2, WithRouteCarries
  <2> QED
    BY <2>2, <2>3 DEF Carries
<1> QED
  BY <1>1, <1>2

(* Every way out of the reading of the catalog carries what came in, or is *)
(* an answer.                                                              *)
LEMMA ToRoutingAllAsked ==
  ASSUME NEW j, Unrouted(j), catalog \in Snapshots, Loaded(j), j.windows = <<>>,
         NEW k \in ToRouting(j)
  PROVE  AllAsked(k)
<1> DEFINE t == [j EXCEPT !.snap = catalog]
           s == [j EXCEPT !.snap = catalog, !.shown = catalog.version]
           named == {ExplicitRoute(s, slot, streams) : slot \in Slot, streams \in SUBSET Stream}
<1>1. RequestShape(j) /\ Carries(j, j)
  BY DEF Unrouted, Carries
<1>2. RequestShape(t) /\ Carries(t, j)
  BY <1>1, SnapChanged
<1>3. s = [t EXCEPT !.shown = catalog.version]
  OBVIOUS
<1>4. k \in ToKnowledge(j) \/ k \in (UNION named) \/ k \in ToKnowledge(s) \/ k \in AskRouter(s)
  BY DEF ToRouting
<1> HIDE DEF t, s
<1>5. RequestShape(s) /\ Carries(s, t)
  BY <1>2, <1>3, ShownChanged
<1>6. Carries(s, j)
  BY <1>2, <1>5 DEF Carries
<1>7. CASE k \in ToKnowledge(j) \/ k \in ToKnowledge(s)
  <2>1. PICK i \in {j, s} : k \in ToKnowledge(i)
    BY <1>7
  <2>2. RequestShape(i) /\ Carries(i, j)
    BY <1>1, <1>5, <1>6
  <2>3. k.phase # "dump" /\ Informed(k) /\ Carries(k, i)
    BY <2>1, <2>2, ToKnowledgeCarries
  <2>4. Carries(k, j)
    BY <2>2, <2>3 DEF Carries
  <2> QED
    BY <2>3, <2>4, CarriesAllAsked
<1>8. CASE k \in (UNION named)
  <2> HIDE DEF named
  <2>1. PICK e \in named : k \in e
    BY <1>8
  <2> USE DEF named
  <2>2. PICK slot \in Slot, streams \in SUBSET Stream : e = ExplicitRoute(s, slot, streams)
    BY <2>1
  <2> HIDE DEF named
  <2>3. AllAsked(k) \/ (k.phase # "dump" /\ Informed(k) /\ Carries(k, s))
    BY <1>5, <2>1, <2>2, ExplicitRouteCarries
  <2>4. Carries(k, s) => Carries(k, j)
    BY <1>6 DEF Carries
  <2> QED
    BY <2>3, <2>4, CarriesAllAsked
<1>9. CASE k \in AskRouter(s)
  <2>1. PICK n \in 1..MaxTurnCount, mode \in {"auto", "clarify_only"} : k = Asked(s, n, mode)
    BY <1>9 DEF AskRouter
  <2> DEFINE p == [s EXCEPT !.phase = "route"]
             q == [p EXCEPT !.turns = n]
  <2>2. k = [q EXCEPT !.mode = mode]
    BY <2>1 DEF Asked
  <2>3. RequestShape(p) /\ p.phase = "route" /\ Carries(p, s)
    BY <1>5, PhaseChanged
  <2> HIDE DEF p
  <2>4. RequestShape(q) /\ q.phase = p.phase /\ Carries(q, p)
    BY ONLY <2>3, TurnsChanged
  <2> HIDE DEF q
  <2>5. k.phase = q.phase /\ Carries(k, q)
    BY <2>2, <2>4, ModeChanged
  <2>6. k.phase # "dump" /\ Informed(k) /\ Carries(k, j)
    BY <1>6, <2>3, <2>4, <2>5 DEF Carries, Informed
  <2> QED
    BY <2>6, CarriesAllAsked
<1> QED
  BY <1>4, <1>7, <1>8, <1>9

(* Every way out of a round with the router. *)
LEMMA RouteAllAsked ==
  ASSUME NEW j, RequestOK(j), j.phase = "route", AllAsked(j), NEW reply, NEW k \in Route(j, reply)
  PROVE  AllAsked(k)
<1>1. RequestShape(j) /\ Loaded(j) /\ j.windows = <<>>
  BY DEF RequestOK, AllAsked
<1>2. CASE k \in Answered(200, "clarify") \cup Answered(400, "error")
  BY <1>2, AnsweredAllAsked
<1>3. CASE k = [j EXCEPT !.turns = NextTurnCount(@)]
  <2> DEFINE n == NextTurnCount(j.turns)
  <2>1. k = [j EXCEPT !.turns = n]
    BY <1>3
  <2> HIDE DEF n
  <2>2. k.phase = j.phase /\ Carries(k, j)
    BY ONLY <1>1, <2>1, TurnsChanged
  <2>3. k.phase # "dump" /\ Informed(k)
    BY <2>2 DEF Informed
  <2> QED
    BY <1>1, <2>2, <2>3, CarriesAllAsked
<1>4. CASE k \in WithRoute([j EXCEPT !.turns = 0], reply.slot, reply.streams)
  <2> DEFINE t == [j EXCEPT !.turns = 0]
  <2>1. RequestShape(t) /\ Carries(t, j)
    BY <1>1, TurnsChanged
  <2>2. k \in WithRoute(t, reply.slot, reply.streams)
    BY <1>4
  <2> HIDE DEF t
  <2>3. k.phase # "dump" /\ Informed(k) /\ Carries(k, t)
    BY <2>1, <2>2, WithRouteCarries
  <2>4. Carries(k, j)
    BY <2>1, <2>3 DEF Carries
  <2> QED
    BY <1>1, <2>3, <2>4, CarriesAllAsked
<1> QED
  BY <1>2, <1>3, <1>4 DEF Route

(* A long message is cut into windows that have all of it. *)
LEMMA BeginAllAsked ==
  ASSUME catalog \in Snapshots, NEW text \in Text \cup {<<>>}, NEW enabled \in BOOLEAN,
         NEW k \in Begin(text, enabled)
  PROVE  AllAsked(k)
<1> DEFINE n == NewRequest
           t == [n EXCEPT !.phase = "dump"]
           u == [t EXCEPT !.text = text]
           w == [u EXCEPT !.windows = NaturalWindows(text)]
<1>1. CASE k \in Answered(400, "error")
  BY <1>1, AnsweredAllAsked
<1>2. CASE k \in ToRouting(NewRequest)
  BY <1>2, NewRequestUnrouted, NewRequestLoaded, ToRoutingAllAsked
<1>3. CASE text # <<>> /\ k = [NewRequest EXCEPT !.phase = "dump", !.text = text,
                                                 !.windows = NaturalWindows(text)]
  <2> DEFINE all == NaturalWindows(text)
  <2>1. k = w
    BY <1>3
  <2>2. text \in Seq(Nat \ {0})
    BY <1>3, ChatAssumption
  <2>3. all \in Seq(Windowed) /\ Len(all) > 0 /\ Covered(all, text)
    BY <1>3, <2>2, NaturalWindowsCover
  <2>4. RequestShape(n) /\ n.chunks = <<>>
    BY NewRequestOK DEF RequestOK, NewRequest
  <2> HIDE DEF n, all
  <2>5. RequestShape(t) /\ t.phase = "dump" /\ Carries(t, n)
    <3>1. RequestShape(n)
      BY <2>4
    <3>2. t = [n EXCEPT !.phase = "dump"]
      OBVIOUS
    <3> HIDE DEF t
    <3> QED
      BY ONLY <3>1, <3>2, PhaseChanged, SMTT(20)
  <2> HIDE DEF t
  <2>6. RequestShape(u) /\ u.phase = t.phase
    BY <2>5, TextChanged, SMTT(20)
  <2>7. u.text = text /\ u.chunks = t.chunks
    BY <2>5, TextCarried
  <2> HIDE DEF u
  <2>8. w.phase = u.phase
    BY <2>6, WindowsChanged DEF all
  <2>9. w.text = u.text /\ w.windows = all /\ w.chunks = u.chunks
    BY <2>6, WindowsCarried DEF all
  <2> HIDE DEF w
  <2>10. w.phase = "dump" /\ w.text = text /\ w.windows = all /\ w.chunks = <<>>
    BY <2>4, <2>5, <2>6, <2>7, <2>8, <2>9 DEF Carries
  <2>11. <<>> \o all = all /\ all # <<>>
    BY <2>3
  <2> QED
    BY <2>1, <2>3, <2>10, <2>11 DEF AllAsked, Loaded, Informed
<1>4. text = <<>> => k \in Answered(400, "error")
  BY DEF Begin
<1> QED
  BY <1>1, <1>2, <1>3, <1>4 DEF Begin

(* Two sequences, one after the other. *)
LEMMA OneAfterOther ==
  ASSUME NEW S, NEW v \in Seq(S), NEW w \in Seq(S)
  PROVE  /\ v \o w \in Seq(S) /\ Len(v \o w) = Len(v) + Len(w)
         /\ \A i \in 1..Len(v) : (v \o w)[i] = v[i]
         /\ \A i \in 1..Len(w) : (v \o w)[Len(v) + i] = w[i]
<1>1. v \o w \in Seq(S) /\ Len(v \o w) = Len(v) + Len(w)
      /\ Len(v) \in Nat /\ Len(w) \in Nat
  OBVIOUS
<1>2. \A i \in 1..Len(v) : (v \o w)[i] = v[i]
  BY <1>1
<1>3. \A i \in 1..Len(w) : (v \o w)[Len(v) + i] = w[i]
  BY <1>1
<1> QED
  BY <1>1, <1>2, <1>3

(* Two pairs of sequences that are the same one after the other, when the *)
(* first of the second pair has one element of the other's second more.   *)
LEMMA SameTogether ==
  ASSUME NEW S, NEW a \in Seq(S), NEW b \in Seq(S), NEW c \in Seq(S), NEW d \in Seq(S),
         b # <<>>, Len(c) = Len(a) + 1, Len(d) = Len(b) - 1,
         \A i \in 1..Len(a) : c[i] = a[i], c[Len(a) + 1] = b[1],
         \A i \in 1..Len(d) : d[i] = b[i + 1]
  PROVE  c \o d = a \o b
<1>1. Len(a) \in Nat /\ Len(b) \in Nat \ {0}
  OBVIOUS
<1>2. /\ c \o d \in Seq(S) /\ Len(c \o d) = Len(c) + Len(d)
      /\ \A i \in 1..Len(c) : (c \o d)[i] = c[i]
      /\ \A i \in 1..Len(d) : (c \o d)[Len(c) + i] = d[i]
  BY ONLY c \in Seq(S), d \in Seq(S), OneAfterOther
<1>3. /\ a \o b \in Seq(S) /\ Len(a \o b) = Len(a) + Len(b)
      /\ \A i \in 1..Len(a) : (a \o b)[i] = a[i]
      /\ \A i \in 1..Len(b) : (a \o b)[Len(a) + i] = b[i]
  BY OneAfterOther
<1>4. ASSUME NEW i \in 1..(Len(a) + Len(b))
      PROVE  (c \o d)[i] = (a \o b)[i]
  <2>1. CASE i \in 1..Len(a)
    BY <1>1, <1>2, <1>3, <2>1
  <2>2. CASE i = Len(a) + 1
    <3>1. i \in 1..Len(c) /\ 1 \in 1..Len(b)
      BY <1>1, <2>2
    <3> QED
      BY <1>2, <1>3, <2>2, <3>1
  <2>3. CASE i > Len(a) + 1
    <3> DEFINE m == i - (Len(a) + 1)
    <3>1. m \in 1..Len(d) /\ i = Len(c) + m /\ m + 1 \in 1..Len(b)
          /\ i = Len(a) + (m + 1)
      BY <1>1, <2>3
    <3> HIDE DEF m
    <3>2. (c \o d)[i] = b[m + 1]
      BY <1>2, <3>1
    <3>3. (a \o b)[i] = b[m + 1]
      BY <1>3, <3>1
    <3> QED
      BY <3>2, <3>3
  <2> QED
    BY <1>1, <2>1, <2>2, <2>3
<1>5. Len(c \o d) = Len(a \o b) /\ Len(a \o b) = Len(a) + Len(b)
  BY <1>1, <1>2, <1>3
<1>6. c \o d \in Seq(S) /\ a \o b \in Seq(S) /\ Len(a \o b) \in Nat
  BY <1>1, <1>2, <1>3
<1> QED
  BY ONLY <1>4, <1>5, <1>6, SMTT(30)

(* Moving the first of the windows to the end of the chunks leaves the two *)
(* together as they were.                                                  *)
LEMMA MovedOver ==
  ASSUME NEW S, NEW a \in Seq(S), NEW b \in Seq(S), b # <<>>
  PROVE  /\ Append(a, Head(b)) \in Seq(S) /\ Tail(b) \in Seq(S)
         /\ Append(a, Head(b)) \o Tail(b) = a \o b
<1>1. Len(a) \in Nat /\ Len(b) \in Nat \ {0} /\ Head(b) \in S
  OBVIOUS
<1> DEFINE c == Append(a, Head(b))
           d == Tail(b)
<1>2. /\ c \in Seq(S) /\ Len(c) = Len(a) + 1 /\ \A i \in 1..Len(a) : c[i] = a[i]
      /\ c[Len(a) + 1] = b[1]
  BY <1>1
<1>3. d \in Seq(S) /\ Len(d) = Len(b) - 1 /\ \A i \in 1..Len(d) : d[i] = b[i + 1]
  BY <1>1
<1> HIDE DEF c, d
<1>4. c \o d = a \o b
  <2>1. c \in Seq(S) /\ d \in Seq(S)
    BY <1>2, <1>3
  <2>2. \A i \in 1..Len(a) : c[i] = a[i]
    BY <1>2
  <2>3. \A i \in 1..Len(d) : d[i] = b[i + 1]
    BY <1>3
  <2>4. b # <<>> /\ Len(c) = Len(a) + 1 /\ Len(d) = Len(b) - 1 /\ c[Len(a) + 1] = b[1]
    BY <1>2, <1>3
  <2> QED
    BY ONLY a \in Seq(S), b \in Seq(S), <2>1, <2>2, <2>3, <2>4, SameTogether, ZenonT(40)
<1> QED
  BY <1>2, <1>3, <1>4 DEF c, d

(* A window that is analyzed is carried as a chunk. *)
LEMMA AnalyzedAllAsked ==
  ASSUME NEW j, RequestOK(j), j.phase = "dump", AllAsked(j), catalog \in Snapshots,
         NEW k \in Analyzed(j)
  PROVE  AllAsked(k)
<1> DEFINE c == Append(j.chunks, Head(j.windows))
           w == Tail(j.windows)
           t == [j EXCEPT !.chunks = c]
           u == [t EXCEPT !.windows = w]
<1>1. /\ Unrouted(j) /\ j.chunks \in Seq(Windowed) /\ j.windows \in Seq(Windowed)
      /\ j.windows # <<>> /\ Covered(j.chunks \o j.windows, j.text)
  BY DEF RequestOK, RequestTyped, InPhase, Unrouted, AllAsked, Loaded
<1>2. \/ u.windows = <<>> /\ k \in ToRouting(u)
      \/ u.windows # <<>> /\ k = u
  <2>1. u = [j EXCEPT !.chunks = Append(@, Head(j.windows)), !.windows = Tail(@)]
    BY <1>1 DEF Unrouted, RequestShape
  <2> HIDE DEF u
  <2> QED
    BY <2>1 DEF Analyzed
<1>3. c \in Seq(Windowed) /\ w \in Seq(Windowed) /\ c \o w = j.chunks \o j.windows
  <2>1. j.chunks \in Seq(Windowed) /\ j.windows \in Seq(Windowed) /\ j.windows # <<>>
    BY <1>1
  <2> QED
    BY ONLY <2>1, MovedOver, Zenon
<1> HIDE DEF c, w
<1>4. /\ RequestShape(t) /\ t.phase = j.phase /\ t.turns = j.turns
      /\ t.routed = j.routed /\ t.code = j.code /\ t.status = j.status
  <2>1. RequestShape(j)
    BY <1>1 DEF Unrouted
  <2> QED
    BY <2>1, ChunksChanged
<1>5. t.text = j.text /\ t.chunks = c
  BY <1>1, ChunksCarried DEF Unrouted
<1> HIDE DEF t
<1>6. /\ RequestShape(u) /\ u.phase = t.phase /\ u.turns = t.turns
      /\ u.routed = t.routed /\ u.code = t.code /\ u.status = t.status
  BY <1>4, WindowsChanged
<1>7. u.text = t.text /\ u.windows = w /\ u.chunks = t.chunks
  BY <1>4, WindowsCarried
<1> HIDE DEF u
<1>8. Loaded(u)
  BY <1>1, <1>3, <1>5, <1>7 DEF Loaded
<1>9. RequestTyped(u)
  BY <1>1, <1>4, <1>6 DEF RequestTyped, Unrouted
<1>10. Unrouted(u) /\ u.phase = "dump"
  BY <1>1, <1>4, <1>6, <1>9 DEF Unrouted
<1> QED
  BY <1>2, <1>8, <1>10, ToRoutingAllAsked DEF AllAsked, Informed

(* The proxy's service is there for the whole behaviour, or never. *)
LEMMA AskedNext ==
  ASSUME service' = service, \A q \in Request : AllAsked(req'[q])
  PROVE  AskedIInv'
<1>1. ASSUME NEW q \in Request PROVE AllAsked(req[q])'
  BY DEF AllAsked, Informed
<1> QED
  BY <1>1 DEF AskedIInv

(* A request that runs on carries what it should, and the others as before.*)
LEMMA RunToAllAsked ==
  ASSUME ChatIInv, AskedIInv, NEW r \in Request, NEW outcomes,
         \A k \in outcomes : AllAsked(k), RunTo(r, outcomes)
  PROVE  AskedIInv'
<1>1. PICK k \in outcomes : req' = [req EXCEPT ![r] = k] /\ service' = service
  BY DEF RunTo
<1>2. req = [q \in Request |-> req[q]] /\ \A q \in Request : AllAsked(req[q])
  BY InvNamed DEF AskedIInv
<1>3. \A q \in Request : AllAsked(req'[q])
  BY <1>1, <1>2
<1> QED
  BY <1>1, <1>3, AskedNext

(* Every step of a request. *)
LEMMA RequestStepAllAsked ==
  ASSUME ChatIInv, AskedIInv, NEW r \in Request, Receive(r) \/ ModelStep(r)
  PROVE  AskedIInv'
<1> DEFINE j == req[r]
<1>1. RequestOK(j) /\ catalog \in Snapshots /\ AllAsked(j) /\ RequestShape(j)
  BY InvNamed DEF AskedIInv, RequestOK
<1>2. \A code, status : \A k \in Answered(code, status) : AllAsked(k)
  BY AnsweredAllAsked
<1>3. CASE Receive(r)
  <2>1. PICK text \in Text \cup {<<>>}, enabled \in BOOLEAN : RunTo(r, Begin(text, enabled))
    BY <1>3 DEF Receive
  <2> QED
    BY <1>1, <2>1, BeginAllAsked, RunToAllAsked
<1>4. CASE WindowAnalyzed(r)
  <2>1. j.phase = "dump" /\ RunTo(r, Analyzed(j))
    BY <1>4 DEF WindowAnalyzed
  <2> QED
    BY <1>1, <2>1, AnalyzedAllAsked, RunToAllAsked
<1>5. CASE RouterReplies(r)
  <2>1. j.phase = "route" /\ \E reply \in Reply : RunTo(r, Route(j, reply))
    BY <1>5 DEF RouterReplies
  <2>2. PICK reply \in Reply : RunTo(r, Route(j, reply))
    BY <2>1
  <2> QED
    BY <1>1, <2>1, <2>2, RouteAllAsked, RunToAllAsked
<1>6. CASE KnowledgeFound(r)
  <2> DEFINE p == [j EXCEPT !.phase = "rlm"]
             k == [p EXCEPT !.knowledge = "ok"]
  <2>1. j.phase = "knowledge" /\ RunTo(r, {k})
    BY <1>6 DEF KnowledgeFound
  <2> HIDE DEF j
  <2>2. RequestShape(p) /\ p.phase = "rlm" /\ Carries(p, j)
    BY <1>1, PhaseChanged
  <2> HIDE DEF p
  <2>3. k.phase = p.phase
    BY <2>2, KnowledgeChanged
  <2>4. /\ k.text = p.text /\ k.windows = p.windows /\ k.chunks = p.chunks
        /\ k.knowledge = "ok"
    BY <2>2, KnowledgeCarried
  <2> HIDE DEF k
  <2>5. AllAsked(k)
    BY <1>1, <2>1, <2>2, <2>3, <2>4 DEF AllAsked, Loaded, Carries, Informed
  <2> QED
    BY <2>1, <2>5, RunToAllAsked
<1>7. CASE KnowledgeMissing(r)
  <2>1. j.phase = "knowledge"
        /\ RunTo(r, IF j.required THEN Answered(502, "error") ELSE {Without(j)})
    BY <1>7 DEF KnowledgeMissing, Unavailable
  <2>2. CASE j.required
    BY <1>2, <2>1, <2>2, RunToAllAsked
  <2>3. CASE ~j.required
    <3> DEFINE p == [j EXCEPT !.phase = "rlm"]
               k == [p EXCEPT !.knowledge = "unavailable"]
    <3>1. RunTo(r, {k})
      BY <2>1, <2>3 DEF Without
    <3> HIDE DEF j
    <3>2. RequestShape(p) /\ p.phase = "rlm" /\ Carries(p, j)
      BY <1>1, PhaseChanged
    <3>3. p.required = j.required
      BY <1>1 DEF RequestShape
    <3> HIDE DEF p
    <3>4. k.phase = p.phase
      BY <3>2, KnowledgeChanged
    <3>5. /\ k.text = p.text /\ k.windows = p.windows /\ k.chunks = p.chunks
          /\ k.required = p.required
      BY <3>2, KnowledgeCarried
    <3> HIDE DEF k
    <3>6. AllAsked(k)
      BY <1>1, <2>1, <2>3, <3>2, <3>3, <3>4, <3>5 DEF AllAsked, Loaded, Carries, Informed
    <3> QED
      BY <3>1, <3>6, RunToAllAsked
  <2> QED
    BY <2>2, <2>3
<1>8. CASE \/ RunTo(r, Answered(400, "error") \cup Answered(502, "error"))
           \/ RunTo(r, Answered(400, "error") \cup Answered(500, "none"))
           \/ RunTo(r, Answered(500, "none"))
           \/ RunTo(r, Answered(200, "ok") \cup Answered(502, "error") \cup Answered(500, "none"))
  <2>1. PICK outcomes : (\A k \in outcomes : AllAsked(k)) /\ RunTo(r, outcomes)
    <3>1. /\ \A k \in Answered(400, "error") \cup Answered(502, "error") : AllAsked(k)
          /\ \A k \in Answered(400, "error") \cup Answered(500, "none") : AllAsked(k)
          /\ \A k \in Answered(500, "none") : AllAsked(k)
          /\ \A k \in Answered(200, "ok") \cup Answered(502, "error")
                      \cup Answered(500, "none") : AllAsked(k)
      BY <1>2
    <3> QED
      BY ONLY <1>8, <3>1
  <2> QED
    BY <2>1, RunToAllAsked
<1> QED
  BY <1>3, <1>4, <1>5, <1>6, <1>7, <1>8
     DEF ModelStep, WindowFails, RouterFails, KnowledgeMalformed, RlmEnds

(* In every state, each request carries the whole of its message, in the   *)
(* windows that are still to be analyzed and the chunks that have been     *)
(* (app.py 174-208, ingestion.py 161-203).                                 *)
THEOREM AskedInvariant == ChatSpec => []AskedIInv
<1>1. ChatInit => AskedIInv
  <2> SUFFICES ASSUME ChatInit, NEW r \in Request PROVE AllAsked(req[r])
    BY DEF AskedIInv
  <2>1. req[r] = NewRequest /\ NewRequest.phase = "idle"
    BY DEF ChatInit, NewRequest
  <2> QED
    BY <2>1, NewRequestLoaded DEF AllAsked, Informed
<1>2. ChatIInv /\ AskedIInv /\ [ChatNext]_chatVars => AskedIInv'
  <2> SUFFICES ASSUME ChatIInv, AskedIInv, [ChatNext]_chatVars PROVE AskedIInv'
    OBVIOUS
  <2>1. ASSUME NEW r \in Request, Receive(r) \/ ModelStep(r) PROVE AskedIInv'
    BY <2>1, RequestStepAllAsked
  <2>2. CASE req' = req /\ service' = service
    BY <2>2, AskedNext DEF AskedIInv
  <2> QED
    BY <2>1, <2>2 DEF ChatNext, ReplaceCatalog, chatVars
<1> QED
  BY <1>1, <1>2, ChatInvariant, PTL DEF ChatSpec

(* Whatever the message, the width of a window and the overlap: the RLM is *)
(* run with every character of a preprocessed message, in windows within   *)
(* the bound, and on a proxy with a knowledge service only after a         *)
(* retrieval that succeeded if the request requires it (app.py 187,        *)
(* 295-324, ingestion.py 178).                                             *)
THEOREM RunsWithAllAskedHolds == ChatSpec => []RunsWithAllAsked
<1>1. AskedIInv => RunsWithAllAsked
  <2> SUFFICES ASSUME AskedIInv, NEW r \in Request, req[r].phase = "rlm"
               PROVE  /\ service /\ req[r].required => req[r].knowledge = "ok"
                      /\ Covered(req[r].chunks, req[r].text)
                      /\ Bounded(req[r].chunks)
    BY DEF RunsWithAllAsked
  <2> DEFINE j == req[r]
  <2>1. j.windows = <<>> /\ Loaded(j) /\ (service /\ j.required => j.knowledge = "ok")
    BY DEF AskedIInv, AllAsked, Informed
  <2> HIDE DEF j
  <2>2. /\ j.chunks \in Seq(Windowed) /\ Covered(j.chunks \o <<>>, j.text)
    BY <2>1 DEF Loaded
  <2>3. j.chunks \o <<>> = j.chunks
    BY <2>2
  <2>4. Bounded(j.chunks)
    <3> SUFFICES ASSUME NEW k \in 1..Len(j.chunks)
                 PROVE  j.chunks[k].len \in 1..WindowBound
      BY DEF Bounded
    <3>1. j.chunks[k] \in Windowed
      BY <2>2
    <3> QED
      BY <3>1 DEF Windowed
  <2> QED
    BY <2>1, <2>2, <2>3, <2>4 DEF j
<1> QED
  BY <1>1, AskedInvariant, PTL

-----------------------------------------------------------------------------
(* The knowledge client: its cache as a sequence.                          *)

Values(q) == {q[i] : i \in 1..Len(q)}

(* The entries of a cache from which one is removed, or to which one is    *)
(* appended, or of which the oldest are dropped, were there before.        *)
LEMMA ValuesOfRemoved ==
  ASSUME NEW S, NEW q \in Seq(S), NEW i \in 1..Len(q)
  PROVE  RemoveAt(q, i) \in Seq(S) /\ Values(RemoveAt(q, i)) \subseteq Values(q)
<1> DEFINE before == SubSeq(q, 1, i - 1)
           after == SubSeq(q, i + 1, Len(q))
<1>1. before \in Seq(S) /\ Values(before) \subseteq Values(q)
  BY DEF Values
<1>2. after \in Seq(S) /\ Values(after) \subseteq Values(q)
  <2>1. after \in Seq(S) /\ \A k \in 1..Len(after) : i + k \in 1..Len(q) /\ after[k] = q[i + k]
    OBVIOUS
  <2> HIDE DEF after
  <2> QED
    BY <2>1 DEF Values
<1>3. RemoveAt(q, i) = before \o after
  BY DEF RemoveAt
<1> HIDE DEF before, after
<1>4. Values(before \o after) \subseteq Values(before) \cup Values(after)
  <2> SUFFICES ASSUME NEW k \in 1..Len(before \o after)
               PROVE  (before \o after)[k] \in Values(before) \cup Values(after)
    BY DEF Values
  <2>1. Len(before) \in Nat /\ Len(after) \in Nat
        /\ Len(before \o after) = Len(before) + Len(after)
    BY <1>1, <1>2
  <2>2. CASE k <= Len(before)
    BY <1>1, <1>2, <2>1, <2>2 DEF Values
  <2>3. CASE k > Len(before)
    <3>1. k - Len(before) \in 1..Len(after)
      BY <2>1, <2>3
    <3>2. (before \o after)[k] = after[k - Len(before)]
      BY <1>1, <1>2, <2>1, <2>3
    <3> QED
      BY <3>1, <3>2 DEF Values
  <2> QED
    BY <2>1, <2>2, <2>3
<1> QED
  BY <1>1, <1>2, <1>3, <1>4

(* What is in a sequence with an element appended. *)
LEMMA ValuesOfAppended ==
  ASSUME NEW S, NEW q \in Seq(S), NEW e \in S
  PROVE  Append(q, e) \in Seq(S) /\ Values(Append(q, e)) \subseteq Values(q) \cup {e}
  BY DEF Values

(* The newest entries are some of the entries. *)
LEMMA ValuesOfNewest ==
  ASSUME NEW S, NEW q \in Seq(S), Len(q) > MaxEntries
  PROVE  Newest(q) \in Seq(S) /\ Values(Newest(q)) \subseteq Values(q)
  BY ClientAssumption DEF Values, Newest

(* What stays when the place of a query is taken, and what is in it.       *)
LEMMA OthersStay ==
  ASSUME cache \in Seq(CacheEntry), NEW q
  PROVE  Others(q) \in Seq(CacheEntry) /\ Values(Others(q)) \subseteq Values(cache)
<1>1. CASE Places(q) = {}
  BY <1>1 DEF Others
<1>2. CASE Places(q) # {}
  <2> DEFINE i == CHOOSE p \in Places(q) : TRUE
  <2>1. i \in 1..Len(cache)
    BY <1>2 DEF Places
  <2>2. Others(q) = RemoveAt(cache, i)
    BY <1>2 DEF Others
  <2> HIDE DEF i
  <2> QED
    BY <2>1, <2>2, ValuesOfRemoved
<1> QED
  BY <1>1, <1>2

(* A hit of the cache is one of its entries. *)
LEMMA LookupFinds ==
  ASSUME cache \in Seq(CacheEntry), NEW q, Lookup(q).age <= Ttl
  PROVE  Lookup(q) \in Values(cache)
<1>1. Places(q) # {}
  BY ClientAssumption DEF Lookup
<1> DEFINE i == CHOOSE p \in Places(q) : TRUE
<1>2. i \in 1..Len(cache)
  BY <1>1 DEF Places
<1>3. Lookup(q) = cache[i]
  BY <1>1 DEF Lookup
<1> HIDE DEF i
<1> QED
  BY <1>2, <1>3 DEF Values

-----------------------------------------------------------------------------
(* The knowledge client: its results.                                      *)

(* A result that is outdated is dated, unless it was before. *)
LEMMA OutdatedResult ==
  ASSUME NEW r \in Result
  PROVE  /\ Outdated(r) \in Result
         /\ Outdated(r).stale = IF r.stale = Fresh THEN 0 ELSE r.stale
         /\ Outdated(r).gone = r.gone
  BY ClientAssumption DEF Outdated, Result, Age, Fresh

(* A result whose document is deleted keeps its date. *)
LEMMA GoneResult ==
  ASSUME NEW r \in Result, NEW b \in BOOLEAN
  PROVE  /\ [r EXCEPT !.gone = b] \in Result
         /\ [r EXCEPT !.gone = b].stale = r.stale
         /\ [r EXCEPT !.gone = b].gone = b
  BY DEF Result

(* A result grows older only when it is outdated. *)
LEMMA OlderResult ==
  ASSUME NEW r \in Result
  PROVE  /\ [r EXCEPT !.stale = Older(@)] \in Result
         /\ [r EXCEPT !.stale = Older(@)].stale = Older(r.stale)
         /\ [r EXCEPT !.stale = Older(@)].gone = r.gone
         /\ r.stale = Fresh => [r EXCEPT !.stale = Older(@)] = r
  BY ClientAssumption DEF Result, Older, Age, Fresh

(* Time passes for what is outdated as it does for the entry that has it.  *)
LEMMA OlderKeepsOrder ==
  ASSUME NEW stale \in Age \cup {Fresh}, NEW age \in Age, stale <= age
  PROVE  Older(age) \in Age /\ Older(stale) <= Older(age)
  BY ClientAssumption DEF Older, Age, Fresh

(* A truthful entry or search stays one under each change of its result.   *)
LEMMA EntryChanges ==
  ASSUME NEW e \in CacheEntry, NEW r \in Result
  PROVE  LET f == [e EXCEPT !.result = r]
         IN  /\ f \in CacheEntry
             /\ f.result = r /\ f.age = e.age /\ f.overtaken = e.overtaken
  BY DEF CacheEntry

(* A search that gets its result keeps the rest. *)
LEMMA SearchChanges ==
  ASSUME NEW e \in Search, NEW r \in Result
  PROVE  LET f == [e EXCEPT !.result = r]
         IN  /\ f \in Search /\ f.phase = e.phase /\ f.query = e.query
             /\ f.result = r /\ f.age = e.age /\ f.overtaken = e.overtaken
  BY DEF Search

(* A search that idles is one.                                             *)
LEMMA IdleIsSearch ==
  /\ IdleSearch \in Search
  /\ IdleSearch.phase = "idle"
  /\ IdleSearch.result.stale = Fresh /\ ~IdleSearch.result.gone
<1>1. 0 \in Age /\ 0 \in Version
  BY ClientAssumption DEF Age, Version
<1> QED
  BY <1>1 DEF IdleSearch, Search, Result

-----------------------------------------------------------------------------
(* The knowledge client: its steps.                                        *)

(* A cache of entries that were in it is as truthful as it was.            *)
LEMMA CacheKept ==
  ASSUME CacheTruthful, Values(cache') \subseteq Values(cache), deleting' = deleting
  PROVE  CacheTruthful'
<1>1. \A e \in Values(cache) : Truthful(e)
  BY DEF CacheTruthful, Values
<1>2. \A e : Truthful(e)' = Truthful(e)
  BY DEF Truthful
<1>3. \A i \in 1..Len(cache') : cache'[i] \in Values(cache)
  BY DEF Values
<1> QED
  BY <1>1, <1>2, <1>3 DEF CacheTruthful

(* Searches that go on as they were are as truthful as they were.          *)
LEMMA SearchKept ==
  ASSUME NEW s, SearchTruthful(s), deleting' = deleting,
         search'[s] = search[s] \/ search'[s] = IdleSearch
  PROVE  SearchTruthful(s)'
<1>1. Truthful(search[s]) => (search'[s] = search[s] => Truthful(search[s])')
  BY DEF Truthful
<1> QED
  BY <1>1, IdleIsSearch DEF SearchTruthful

(* The parts of the type invariant that the proofs below need.             *)
LEMMA TypeParts ==
  ASSUME ClientTypeOK
  PROVE  /\ cache \in Seq(CacheEntry)
         /\ \A i \in 1..Len(cache) : cache[i] \in CacheEntry
         /\ search \in [Searcher -> Search]
         /\ \A s \in Searcher : search[s] \in Search
  BY DEF ClientTypeOK

(* The parts of an entry of the cache. *)
LEMMA EntryParts ==
  ASSUME NEW e \in CacheEntry
  PROVE  e.result \in Result /\ e.age \in Age /\ e.query \in Query
  BY DEF CacheEntry

(* The parts of a search. *)
LEMMA SearchParts ==
  ASSUME NEW e \in Search
  PROVE  e.result \in Result /\ e.age \in Age
  BY DEF Search

(* A function on 1..n is a sequence of n elements. *)
LEMMA MapIsSequence ==
  ASSUME NEW S, NEW n \in Nat, NEW f, f = [i \in 1..n |-> f[i]], \A i \in 1..n : f[i] \in S
  PROVE  f \in Seq(S) /\ Len(f) = n
<1>1. f \in [1..n -> S]
  OBVIOUS
<1> QED
  BY <1>1

(* The service changes: every result there is changes with it, and at most *)
(* becomes outdated.                                                       *)
LEMMA ResultsChange ==
  ASSUME ClientIInv, NEW now \in [Result -> Result],
         cache' = [i \in 1..Len(cache) |-> [cache[i] EXCEPT !.result = now[cache[i].result]]],
         search' = [s \in Searcher |->
                      IF search[s].phase = "got"
                      THEN [search[s] EXCEPT !.result = now[search[s].result]]
                      ELSE search[s]],
         \A r \in Result :
            /\ now[r].stale = r.stale \/ (r.stale = Fresh /\ now[r].stale = 0)
            /\ now[r].gone /\ deleting' = "none" => r.gone /\ deleting = "none"
  PROVE  /\ cache' \in Seq(CacheEntry) /\ CacheTruthful'
         /\ search' \in [Searcher -> Search] /\ \A s \in Searcher : SearchTruthful(s)'
<1>0. ClientTypeOK /\ CacheTruthful /\ \A s \in Searcher : SearchTruthful(s)
  BY DEF ClientIInv
<1>1. ASSUME NEW r \in Result, NEW age \in Age, r.stale <= age
      PROVE  now[r].stale <= age
  BY <1>1, ClientAssumption DEF Age, Fresh
<1>2. ASSUME NEW i \in 1..Len(cache)
      PROVE  cache'[i] \in CacheEntry /\ Truthful(cache[i])'
  <2> DEFINE r == now[cache[i].result]
  <2>1. cache[i] \in CacheEntry /\ r \in Result
    BY <1>0, TypeParts, EntryParts
  <2>2. cache'[i] = [cache[i] EXCEPT !.result = r]
    OBVIOUS
  <2>3. cache[i].result.stale <= cache[i].age
        /\ (cache[i].result.gone /\ deleting = "none" => cache[i].overtaken)
    BY <1>0 DEF CacheTruthful, Truthful
  <2>4. r.stale <= cache[i].age
    BY <1>1, <2>1, <2>3, EntryParts
  <2>5. r.gone /\ deleting' = "none" => cache[i].overtaken
    BY <2>1, <2>3, EntryParts
  <2> HIDE DEF r
  <2>6. /\ cache'[i] \in CacheEntry /\ cache'[i].result = r
        /\ cache'[i].age = cache[i].age /\ cache'[i].overtaken = cache[i].overtaken
    BY ONLY <2>1, <2>2, EntryChanges
  <2> QED
    BY <2>4, <2>5, <2>6 DEF Truthful
<1>3. cache' \in Seq(CacheEntry) /\ Len(cache') = Len(cache)
  <2>1. Len(cache) \in Nat /\ cache' = [i \in 1..Len(cache) |-> cache'[i]]
    BY <1>0, TypeParts
  <2> QED
    BY <1>2, <2>1, MapIsSequence
<1>4. CacheTruthful'
  BY <1>2, <1>3 DEF CacheTruthful
<1>5. ASSUME NEW s \in Searcher
      PROVE  search'[s] \in Search /\ SearchTruthful(s)'
  <2> DEFINE r == now[search[s].result]
  <2>1. search[s] \in Search /\ SearchTruthful(s)
    BY <1>0, TypeParts
  <2>2. CASE search[s].phase = "got"
    <3>1. search'[s] = [search[s] EXCEPT !.result = r]
      BY <2>2
    <3>2. search[s].result.stale <= search[s].age /\ search[s].query \in Query
          /\ (search[s].result.gone /\ deleting = "none" => search[s].overtaken)
      BY <2>1, <2>2 DEF SearchTruthful, Truthful
    <3>3. r \in Result /\ r.stale <= search[s].age
      BY <1>1, <2>1, <3>2, SearchParts
    <3>4. r.gone /\ deleting' = "none" => search[s].overtaken
      BY <2>1, <3>2, SearchParts
    <3> HIDE DEF r
    <3>5. /\ search'[s] \in Search /\ search'[s].phase = "got"
          /\ search'[s].query \in Query /\ search'[s].result = r
          /\ search'[s].age = search[s].age /\ search'[s].overtaken = search[s].overtaken
      BY ONLY <2>1, <2>2, <3>1, <3>2, <3>3, SearchChanges
    <3> QED
      BY <3>3, <3>4, <3>5 DEF SearchTruthful, Truthful
  <2>3. CASE search[s].phase # "got"
    <3>1. search'[s] = search[s]
      BY <2>3
    <3> QED
      BY <2>1, <2>3, <3>1 DEF SearchTruthful
  <2> QED
    BY <2>2, <2>3
<1>6. search' \in [Searcher -> Search]
  BY <1>5
<1> QED
  BY <1>3, <1>4, <1>5, <1>6

(* The records of the jobs. *)
JobRecord == [content : Version, late : BOOLEAN]

(* Jobs that are overtaken, and from which one is taken, are jobs. *)
LEMMA JobsStay ==
  ASSUME ClientTypeOK, NEW i \in 1..Len(jobs)
  PROVE  /\ RemoveAt(jobs, i) \in Seq(JobRecord)
         /\ RemoveAt(Overtaken(i), i) \in Seq(JobRecord)
         /\ jobs[i].content \in Version /\ jobs[i].late \in BOOLEAN
<1>1. jobs \in Seq(JobRecord) /\ Len(jobs) \in Nat
  BY DEF ClientTypeOK, JobRecord
<1>2. \A k \in 1..Len(jobs) : jobs[k] \in JobRecord
  BY <1>1
<1>3. \A k \in 1..Len(jobs) : [jobs[k] EXCEPT !.late = TRUE] \in JobRecord
  BY <1>2 DEF JobRecord
<1>4. \A k \in 1..Len(jobs) : Overtaken(i)[k] \in JobRecord
  BY <1>2, <1>3 DEF Overtaken
<1>5. Overtaken(i) = [k \in 1..Len(jobs) |-> Overtaken(i)[k]]
  BY DEF Overtaken
<1>6. Overtaken(i) \in Seq(JobRecord) /\ Len(Overtaken(i)) = Len(jobs)
  BY <1>1, <1>4, <1>5, MapIsSequence
<1>7. RemoveAt(jobs, i) \in Seq(JobRecord)
  BY <1>1, ValuesOfRemoved
<1>8. RemoveAt(Overtaken(i), i) \in Seq(JobRecord)
  BY <1>6, ValuesOfRemoved
<1> QED
  BY <1>2, <1>7, <1>8 DEF JobRecord

(* A fault that may happen is counted within its bound. *)
LEMMA FaultCounted ==
  ASSUME ClientTypeOK, Fault
  PROVE  Faulted \in [deleted : 0..MaxDeletes, faults : 0..MaxFaults, failed : BOOLEAN,
                      overtaken : BOOLEAN]
<1>1. count \in [deleted : 0..MaxDeletes, faults : 0..MaxFaults, failed : BOOLEAN,
                 overtaken : BOOLEAN]
  BY DEF ClientTypeOK
<1>2. count.faults + 1 \in 0..MaxFaults
  BY <1>1, ClientAssumption DEF Fault
<1> QED
  BY ONLY <1>1, <1>2 DEF Faulted

(* The document changes, by a job or by a deletion.                        *)
LEMMA ServiceChanges ==
  ASSUME ClientIInv, JobIngests \/ DeleteSends \/ DeleteAnswerLost
  PROVE  ClientIInv'
<1>0. ClientTypeOK
  BY DEF ClientIInv
<1>0a. /\ \A i \in 1..Len(cache) : cache[i].result \in Result
       /\ \A s \in Searcher : search[s].result \in Result
  BY <1>0, TypeParts, EntryParts, SearchParts
<1>1. CASE JobIngests
  <2> DEFINE now == [r \in Result |-> Outdated(r)]
  <2>1. now \in [Result -> Result]
    BY OutdatedResult
  <2>2. cache' = [i \in 1..Len(cache) |-> [cache[i] EXCEPT !.result = now[cache[i].result]]]
    BY <1>0a, <1>1 DEF JobIngests, AllResults
  <2>3. search' = [s \in Searcher |->
                     IF search[s].phase = "got"
                     THEN [search[s] EXCEPT !.result = now[search[s].result]]
                     ELSE search[s]]
    BY <1>0a, <1>1 DEF JobIngests, AllResults
  <2>4. \A r \in Result :
          /\ now[r].stale = r.stale \/ (r.stale = Fresh /\ now[r].stale = 0)
          /\ now[r].gone /\ deleting' = "none" => r.gone /\ deleting = "none"
    BY <1>1, OutdatedResult DEF JobIngests
  <2> HIDE DEF now
  <2>5. /\ cache' \in Seq(CacheEntry) /\ CacheTruthful'
        /\ search' \in [Searcher -> Search] /\ \A s \in Searcher : SearchTruthful(s)'
    BY <2>1, <2>2, <2>3, <2>4, ResultsChange
  <2>6. PICK i \in 1..Len(jobs) :
           /\ jobs' = RemoveAt(Overtaken(i), i)
           /\ doc' = jobs[i].content
           /\ count' = [count EXCEPT !.overtaken = jobs[i].late]
    BY <1>1 DEF JobIngests
  <2>7. jobs' \in Seq(JobRecord) /\ doc' \in Version
    BY <1>0, <2>6, JobsStay
  <2>8. count' \in [deleted : 0..MaxDeletes, faults : 0..MaxFaults, failed : BOOLEAN,
                    overtaken : BOOLEAN]
    <3>1. count \in [deleted : 0..MaxDeletes, faults : 0..MaxFaults, failed : BOOLEAN,
                     overtaken : BOOLEAN]
      BY <1>0 DEF ClientTypeOK
    <3>2. jobs[i].late \in BOOLEAN
      BY <1>0, JobsStay
    <3> QED
      BY ONLY <2>6, <3>1, <3>2
  <2>9. UNCHANGED <<file, manifest, sync, deleting>>
    BY <1>1 DEF JobIngests
  <2> QED
    BY ONLY <1>0, <2>5, <2>7, <2>8, <2>9 DEF JobRecord, ClientIInv, ClientTypeOK, Version, IdleSearch
<1>2. CASE DeleteSends
  <2> DEFINE now == [r \in Result |-> [Outdated(r) EXCEPT !.gone = TRUE]]
  <2>1. now \in [Result -> Result]
    BY OutdatedResult, GoneResult
  <2>2. cache' = [i \in 1..Len(cache) |-> [cache[i] EXCEPT !.result = now[cache[i].result]]]
    BY <1>0a, <1>2 DEF DeleteSends, AllResults
  <2>3. search' = [s \in Searcher |->
                     IF search[s].phase = "got"
                     THEN [search[s] EXCEPT !.result = now[search[s].result]]
                     ELSE search[s]]
    BY <1>0a, <1>2 DEF DeleteSends, AllResults
  <2>4. \A r \in Result :
          /\ now[r].stale = r.stale \/ (r.stale = Fresh /\ now[r].stale = 0)
          /\ now[r].gone /\ deleting' = "none" => r.gone /\ deleting = "none"
    <3> SUFFICES ASSUME NEW r \in Result
                 PROVE  now[r].stale = r.stale \/ (r.stale = Fresh /\ now[r].stale = 0)
      BY <1>2 DEF DeleteSends
    <3>1. now[r].stale = Outdated(r).stale
      BY OutdatedResult, GoneResult
    <3> QED
      BY <3>1, OutdatedResult
  <2> HIDE DEF now
  <2>5. /\ cache' \in Seq(CacheEntry) /\ CacheTruthful'
        /\ search' \in [Searcher -> Search] /\ \A s \in Searcher : SearchTruthful(s)'
    BY <2>1, <2>2, <2>3, <2>4, ResultsChange
  <2>6. doc' \in Version /\ deleting' \in {"none", "done"}
        /\ count' \in [deleted : 0..MaxDeletes, faults : 0..MaxFaults, failed : BOOLEAN,
                       overtaken : BOOLEAN]
    <3>1. count \in [deleted : 0..MaxDeletes, faults : 0..MaxFaults, failed : BOOLEAN,
                     overtaken : BOOLEAN]
      BY <1>0 DEF ClientTypeOK
    <3>2. count.deleted < MaxDeletes /\ count' = [count EXCEPT !.deleted = @ + 1]
      BY <1>2 DEF DeleteSends
    <3>3. count.deleted + 1 \in 0..MaxDeletes
      BY <3>1, <3>2, ClientAssumption
    <3>4. doc' \in Version /\ deleting' \in {"none", "done"}
      BY <1>2, ClientAssumption DEF DeleteSends, Version
    <3> QED
      BY ONLY <3>1, <3>2, <3>3, <3>4
  <2>7. UNCHANGED <<file, manifest, sync, jobs>>
    BY <1>2 DEF DeleteSends
  <2> QED
    BY ONLY <1>0, <2>5, <2>6, <2>7 DEF ClientIInv, ClientTypeOK, Version, IdleSearch
<1>3. CASE DeleteAnswerLost
  <2> DEFINE now == [r \in Result |-> [r EXCEPT !.gone = FALSE]]
  <2>1. now \in [Result -> Result]
    BY GoneResult
  <2>2. cache' = [i \in 1..Len(cache) |-> [cache[i] EXCEPT !.result = now[cache[i].result]]]
    BY <1>0a, <1>3 DEF DeleteAnswerLost, AllResults
  <2>3. search' = [s \in Searcher |->
                     IF search[s].phase = "got"
                     THEN [search[s] EXCEPT !.result = now[search[s].result]]
                     ELSE search[s]]
    BY <1>0a, <1>3 DEF DeleteAnswerLost, AllResults
  <2>4. \A r \in Result :
          /\ now[r].stale = r.stale \/ (r.stale = Fresh /\ now[r].stale = 0)
          /\ now[r].gone /\ deleting' = "none" => r.gone /\ deleting = "none"
    BY GoneResult
  <2> HIDE DEF now
  <2>5. /\ cache' \in Seq(CacheEntry) /\ CacheTruthful'
        /\ search' \in [Searcher -> Search] /\ \A s \in Searcher : SearchTruthful(s)'
    BY <2>1, <2>2, <2>3, <2>4, ResultsChange
  <2>6. deleting' \in {"none", "done"}
        /\ count' \in [deleted : 0..MaxDeletes, faults : 0..MaxFaults, failed : BOOLEAN,
                       overtaken : BOOLEAN]
    BY <1>0, <1>3, FaultCounted DEF DeleteAnswerLost
  <2>7. UNCHANGED <<file, manifest, sync, jobs, doc>>
    BY <1>3 DEF DeleteAnswerLost
  <2> QED
    BY ONLY <1>0, <2>5, <2>6, <2>7 DEF ClientIInv, ClientTypeOK, Version, IdleSearch
<1> QED
  BY <1>1, <1>2, <1>3

(* What neither the cache nor the searches see.                            *)
LEMMA OutsideKeeps ==
  ASSUME ClientIInv, ClientTypeOK', UNCHANGED <<cache, search, deleting>>
  PROVE  ClientIInv'
  BY DEF ClientIInv, CacheTruthful, SearchTruthful, Truthful

(* What happens to the files and the jobs leaves the cache as it is. *)
LEMMA FilesKeep ==
  ASSUME ClientIInv,
         Edit \/ RemoveFile \/ SyncScans \/ SyncReads \/ SyncPosts \/ SyncPostFails
         \/ SyncSaves \/ JobFails
  PROVE  ClientIInv'
<1>0. ClientTypeOK /\ 0 \in Version
  BY ClientAssumption DEF ClientIInv, Version
<1> DEFINE File == [version : Version, edits : Version]
           Sync == [phase : {"idle", "read", "post", "clear", "save"}, print : Version,
                    content : Version]
           Count == [deleted : 0..MaxDeletes, faults : 0..MaxFaults, failed : BOOLEAN,
                     overtaken : BOOLEAN]
<1>1. /\ file \in File /\ manifest \in Version \cup {Torn} /\ sync \in Sync
      /\ jobs \in Seq(JobRecord) /\ doc \in Version /\ count \in Count
  BY <1>0 DEF ClientTypeOK, JobRecord
<1>2. UNCHANGED <<doc, cache, search, deleting>>
  BY DEF Edit, RemoveFile, SyncScans, SyncReads, SyncPosts, SyncPostFails, SyncSaves, JobFails
<1>3. file' \in File
  <2>1. CASE Edit
    BY <1>1, <2>1, ClientAssumption DEF Edit, Version
  <2>2. CASE RemoveFile
    BY <1>0, <1>1, <2>2 DEF RemoveFile
  <2>3. CASE file' = file
    BY <1>1, <2>3
  <2> QED
    BY <2>1, <2>2, <2>3
       DEF SyncScans, SyncReads, SyncPosts, SyncPostFails, SyncSaves, JobFails
<1>4. IdleSync \in Sync
  BY <1>0 DEF IdleSync
<1>5. sync' \in Sync
  <2>1. CASE SyncScans
    BY <1>1, <2>1 DEF SyncScans
  <2>2. CASE SyncReads
    BY <1>1, <1>4, <2>2 DEF SyncReads
  <2>3. CASE SyncPosts
    BY <1>1, <2>3 DEF SyncPosts
  <2>4. CASE sync' \in {sync, IdleSync}
    BY <1>1, <1>4, <2>4
  <2> QED
    BY <2>1, <2>2, <2>3, <2>4 DEF Edit, RemoveFile, SyncPostFails, SyncSaves, JobFails
<1>6. jobs' \in Seq(JobRecord)
  <2>1. CASE SyncPosts \/ SyncPostFails
    <3>1. sync.content \in Version
      BY <1>1
    <3>2. jobs' = jobs \/ jobs' = Append(jobs, Job(sync.content))
      BY <2>1 DEF SyncPosts, SyncPostFails
    <3>3. Job(sync.content) \in JobRecord
      BY <3>1 DEF Job, JobRecord
    <3>4. jobs \in Seq(JobRecord)
      BY <1>1
    <3> QED
      BY ONLY <3>2, <3>3, <3>4
  <2>2. CASE JobFails
    BY <1>0, <2>2, JobsStay DEF JobFails
  <2>3. CASE jobs' = jobs
    BY <1>1, <2>3
  <2> QED
    BY <2>1, <2>2, <2>3 DEF Edit, RemoveFile, SyncScans, SyncReads, SyncSaves
<1>7. manifest' \in Version \cup {Torn}
  BY <1>1 DEF Edit, RemoveFile, SyncScans, SyncReads, SyncPosts, SyncPostFails, SyncSaves,
              JobFails
<1>8. count' \in Count
  <2>1. CASE SyncPostFails
    BY <1>0, <2>1, FaultCounted DEF SyncPostFails
  <2>2. CASE JobFails
    <3>1. Faulted \in Count /\ count' = [Faulted EXCEPT !.failed = TRUE]
      BY <1>0, <2>2, FaultCounted DEF JobFails
    <3> QED
      BY ONLY <3>1
  <2>3. CASE count' = count
    BY <1>1, <2>3
  <2> QED
    BY <2>1, <2>2, <2>3 DEF Edit, RemoveFile, SyncScans, SyncReads, SyncPosts, SyncSaves
<1>9. ClientTypeOK'
  BY ONLY <1>0, <1>2, <1>3, <1>5, <1>6, <1>7, <1>8
     DEF ClientTypeOK, JobRecord, Version, IdleSearch
<1> QED
  BY <1>2, <1>9, OutsideKeeps

(* The cache is cleared: by a deletion that returns, or a submission.      *)
LEMMA ClearsKeep ==
  ASSUME ClientIInv, DeleteClears \/ SyncClears
  PROVE  ClientIInv'
<1>0. ClientTypeOK /\ \A s \in Searcher : SearchTruthful(s)
  BY DEF ClientIInv
<1>1. Cleared /\ UNCHANGED <<file, manifest, jobs, doc, count>>
  BY DEF DeleteClears, SyncClears
<1>2. deleting' \in {"none", "done"} /\ (deleting' # deleting => deleting' = "none")
  BY <1>0 DEF DeleteClears, SyncClears, ClientTypeOK
<1>3. sync' \in [phase : {"idle", "read", "post", "clear", "save"}, print : Version,
                 content : Version]
  BY <1>0 DEF DeleteClears, SyncClears, ClientTypeOK
<1>4. cache' \in Seq(CacheEntry) /\ CacheTruthful'
  BY <1>1 DEF Cleared, CacheTruthful
<1>5. ASSUME NEW s \in Searcher
      PROVE  search'[s] \in Search /\ SearchTruthful(s)'
  <2>1. search[s] \in Search /\ SearchTruthful(s)
    BY <1>0, TypeParts
  <2>2. search'[s] = [search[s] EXCEPT !.overtaken = search[s].phase # "idle"]
    BY <1>1 DEF Cleared
  <2>3. /\ search'[s] \in Search
        /\ search'[s].phase = search[s].phase /\ search'[s].query = search[s].query
        /\ search'[s].result = search[s].result /\ search'[s].age = search[s].age
        /\ search[s].phase = "got" => search'[s].overtaken
    BY ONLY <2>1, <2>2 DEF Search
  <2> QED
    BY <2>1, <2>3 DEF SearchTruthful, Truthful
<1>6. search' \in [Searcher -> Search]
  BY <1>1, <1>5 DEF Cleared
<1> QED
  BY ONLY <1>0, <1>1, <1>2, <1>3, <1>4, <1>5, <1>6
     DEF ClientIInv, ClientTypeOK, Version, IdleSearch

(* The client's process is killed.                                         *)
LEMMA CrashKeeps ==
  ASSUME ClientIInv, Crash
  PROVE  ClientIInv'
<1>0. ClientTypeOK /\ 0 \in Version
  BY ClientAssumption DEF ClientIInv, Version
<1>1. cache' = <<>> /\ \A s \in Searcher : search'[s] = IdleSearch
  BY DEF Crash
<1>2. cache' \in Seq(CacheEntry) /\ search' \in [Searcher -> Search]
  BY IdleIsSearch DEF Crash
<1>3. CacheTruthful' /\ \A s \in Searcher : SearchTruthful(s)'
  BY <1>1, IdleIsSearch DEF CacheTruthful, SearchTruthful
<1>4. count' \in [deleted : 0..MaxDeletes, faults : 0..MaxFaults, failed : BOOLEAN,
                  overtaken : BOOLEAN]
  BY <1>0, FaultCounted DEF Crash
<1>5. sync' \in [phase : {"idle", "read", "post", "clear", "save"}, print : Version,
                 content : Version]
  BY <1>0 DEF Crash, IdleSync
<1>6. manifest' \in Version \cup {Torn} /\ deleting' \in {"none", "done"}
      /\ UNCHANGED <<file, jobs, doc>>
  BY <1>0 DEF Crash, ClientTypeOK
<1> QED
  BY ONLY <1>0, <1>2, <1>3, <1>4, <1>5, <1>6 DEF ClientIInv, ClientTypeOK, Version, IdleSearch

(* A search uses the cache, asks, is answered, or fails.                   *)
LEMMA SearchesKeep ==
  ASSUME ClientIInv, NEW s \in Searcher, NEW q \in Query,
         Ask(s, q) \/ SearchAnswered(s) \/ SearchFails(s)
  PROVE  ClientIInv'
<1>0. ClientTypeOK /\ CacheTruthful /\ \A t \in Searcher : SearchTruthful(t)
  BY DEF ClientIInv
<1>1. /\ cache \in Seq(CacheEntry) /\ search \in [Searcher -> Search]
      /\ search[s] \in Search /\ SearchTruthful(s)
  BY <1>0, TypeParts
<1>2. UNCHANGED <<file, manifest, sync, jobs, doc, deleting>>
  BY DEF Ask, SearchHits, SearchMisses, SearchAnswered, SearchFails
<1>3. cache' \in Seq(CacheEntry) /\ Values(cache') \subseteq Values(cache)
  <2>1. CASE SearchHits(s, q)
    <3>1. Lookup(q) \in Values(cache) /\ cache' = Append(Others(q), Lookup(q))
      BY <1>1, <2>1, LookupFinds DEF SearchHits
    <3>2. Lookup(q) \in CacheEntry
      BY <1>1, <3>1 DEF Values
    <3>3. Others(q) \in Seq(CacheEntry) /\ Values(Others(q)) \subseteq Values(cache)
      BY <1>1, OthersStay
    <3>4. /\ cache' \in Seq(CacheEntry)
          /\ Values(cache') \subseteq Values(Others(q)) \cup {Lookup(q)}
      BY <3>1, <3>2, <3>3, ValuesOfAppended
    <3> QED
      BY <3>1, <3>3, <3>4
  <2>2. CASE SearchMisses(s, q)
    BY <1>1, <2>2, OthersStay DEF SearchMisses
  <2>3. CASE cache' = cache
    BY <1>1, <2>3
  <2> QED
    BY <2>1, <2>2, <2>3 DEF Ask, SearchAnswered, SearchFails
<1>4. CacheTruthful'
  BY <1>0, <1>2, <1>3, CacheKept
<1>5. \A t \in Searcher \ {s} : search'[t] = search[t]
  BY <1>1 DEF Ask, SearchHits, SearchMisses, SearchAnswered, SearchFails
<1>6. search'[s] \in Search /\ SearchTruthful(s)'
  <2>1. CASE SearchHits(s, q)
    BY <1>1, <1>2, <2>1, SearchKept DEF SearchHits
  <2>2. CASE SearchMisses(s, q)
    <3>1. search'[s] = [IdleSearch EXCEPT !.phase = "sent", !.query = q]
      BY <1>1, <2>2 DEF SearchMisses
    <3>2. /\ search'[s] \in Search /\ search'[s].phase = "sent" /\ search'[s].query = q
          /\ search'[s].result = IdleSearch.result
      <4>1. /\ IdleSearch \in [phase : {"idle", "sent", "got"},
                               query : Query \cup {IdleSearch.query},
                               age : Age, result : Result, overtaken : BOOLEAN]
            /\ q \in Query \cup {IdleSearch.query}
        BY IdleIsSearch DEF Search
      <4> QED
        BY ONLY <3>1, <4>1 DEF Search
    <3> QED
      BY <3>2 DEF SearchTruthful
  <2>3. CASE SearchAnswered(s)
    <3> DEFINE r == [search[s].result EXCEPT !.version = doc]
               sent == [search[s] EXCEPT !.result = r]
    <3>1. search[s].phase = "sent" /\ search[s].result = IdleSearch.result
          /\ search[s].query \in Query
      BY <1>1, <2>3 DEF SearchAnswered, SearchTruthful
    <3>2. search[s].result \in Result /\ search[s].age \in Age /\ doc \in Version
      BY <1>0, <1>1, SearchParts DEF ClientTypeOK
    <3>3. r \in Result /\ r.stale = Fresh /\ ~r.gone
      BY <3>1, <3>2, IdleIsSearch DEF Result
    <3>4. search'[s] = [sent EXCEPT !.phase = "got"]
      BY <1>1, <2>3 DEF SearchAnswered, Search
    <3> HIDE DEF r
    <3>5. sent \in Search /\ sent.query = search[s].query /\ sent.result = r
          /\ sent.age = search[s].age
      BY ONLY <1>1, <3>3, SearchChanges
    <3> HIDE DEF sent
    <3>6. search'[s] \in Search /\ search'[s].phase = "got"
          /\ search'[s].query = search[s].query /\ search'[s].result = r
          /\ search'[s].age = search[s].age
      BY ONLY <3>4, <3>5 DEF Search
    <3>7. r.stale <= search[s].age
      BY <3>2, <3>3, ClientAssumption DEF Age, Fresh
    <3> QED
      BY <3>1, <3>3, <3>6, <3>7 DEF SearchTruthful, Truthful
  <2>4. CASE SearchFails(s)
    <3>1. search'[s] = IdleSearch
      BY <1>1, <2>4 DEF SearchFails
    <3> QED
      BY <1>1, <1>2, <3>1, IdleIsSearch, SearchKept
  <2> QED
    BY <2>1, <2>2, <2>3, <2>4 DEF Ask
<1>7. search' \in [Searcher -> Search]
  <2>1. search' = [search EXCEPT ![s] = search'[s]]
    BY <1>1 DEF Ask, SearchHits, SearchMisses, SearchAnswered, SearchFails
  <2> QED
    BY <1>1, <1>6, <2>1
<1>8. \A t \in Searcher : SearchTruthful(t)'
  BY <1>0, <1>2, <1>5, <1>6, SearchKept
<1>9. count' \in [deleted : 0..MaxDeletes, faults : 0..MaxFaults, failed : BOOLEAN,
                  overtaken : BOOLEAN]
  <2>1. CASE SearchFails(s)
    BY <1>0, <2>1, FaultCounted DEF SearchFails
  <2>2. CASE count' = count
    BY <1>0, <2>2 DEF ClientTypeOK
  <2> QED
    BY <2>1, <2>2 DEF Ask, SearchHits, SearchMisses, SearchAnswered
<1> QED
  BY ONLY <1>0, <1>2, <1>3, <1>4, <1>7, <1>8, <1>9
     DEF ClientIInv, ClientTypeOK, Version, IdleSearch

(* A search stores what it has got, which is truthful by then.             *)
LEMMA StoresKeep ==
  ASSUME ClientIInv, NEW s \in Searcher, SearchStores(s)
  PROVE  ClientIInv'
<1>0. ClientTypeOK /\ CacheTruthful /\ \A t \in Searcher : SearchTruthful(t)
  BY DEF ClientIInv
<1>1. /\ cache \in Seq(CacheEntry) /\ search \in [Searcher -> Search]
      /\ search[s] \in Search /\ SearchTruthful(s)
  BY <1>0, TypeParts
<1>2. UNCHANGED <<file, manifest, sync, jobs, doc, deleting, count>>
      /\ search[s].phase = "got" /\ search' = [search EXCEPT ![s] = IdleSearch]
  BY DEF SearchStores
<1> DEFINE e == Entry(s)
<1>3. e \in CacheEntry /\ Truthful(e)
  BY <1>1, <1>2 DEF Entry, CacheEntry, Search, SearchTruthful, Truthful
<1>4. Stored(s) = Append(Others(search[s].query), e)
  BY DEF Stored
<1> HIDE DEF e
<1>5. Stored(s) \in Seq(CacheEntry) /\ Values(Stored(s)) \subseteq Values(cache) \cup {e}
  <2>1. /\ Others(search[s].query) \in Seq(CacheEntry)
        /\ Values(Others(search[s].query)) \subseteq Values(cache)
    BY <1>1, OthersStay
  <2>2. /\ Stored(s) \in Seq(CacheEntry)
        /\ Values(Stored(s)) \subseteq Values(Others(search[s].query)) \cup {e}
    BY <1>3, <1>4, <2>1, ValuesOfAppended
  <2> QED
    BY <2>1, <2>2
<1>6. cache' \in Seq(CacheEntry) /\ Values(cache') \subseteq Values(cache) \cup {e}
  <2>1. CASE Len(Stored(s)) > MaxEntries
    <3>1. cache' = Newest(Stored(s))
      BY <2>1 DEF SearchStores
    <3>2. Newest(Stored(s)) \in Seq(CacheEntry)
          /\ Values(Newest(Stored(s))) \subseteq Values(Stored(s))
      BY <1>5, <2>1, ValuesOfNewest
    <3> QED
      BY <1>5, <3>1, <3>2
  <2>2. CASE ~(Len(Stored(s)) > MaxEntries)
    BY <1>5, <2>2 DEF SearchStores
  <2> QED
    BY <2>1, <2>2
<1>7. CacheTruthful'
  <2>1. \A f \in Values(cache) \cup {e} : Truthful(f)
    BY <1>0, <1>3 DEF CacheTruthful, Values
  <2>2. \A f : Truthful(f)' = Truthful(f)
    BY <1>2 DEF Truthful
  <2>3. \A i \in 1..Len(cache') : cache'[i] \in Values(cache) \cup {e}
    BY <1>6 DEF Values
  <2> QED
    BY <2>1, <2>2, <2>3 DEF CacheTruthful
<1>8. search' \in [Searcher -> Search]
  BY <1>1, <1>2, IdleIsSearch
<1>9. \A t \in Searcher : SearchTruthful(t)'
  <2> SUFFICES ASSUME NEW t \in Searcher
               PROVE  SearchTruthful(t)'
    OBVIOUS
  <2>1. search'[t] = search[t] \/ search'[t] = IdleSearch
    BY <1>1, <1>2
  <2> QED
    BY <1>0, <1>2, <2>1, SearchKept
<1> QED
  BY ONLY <1>0, <1>2, <1>6, <1>7, <1>8, <1>9 DEF ClientIInv, ClientTypeOK, Version, IdleSearch

(* Time passes, for an entry and for how long it has been outdated alike.  *)
LEMMA TickKeeps ==
  ASSUME ClientIInv, Tick
  PROVE  ClientIInv'
<1>0. ClientTypeOK /\ CacheTruthful /\ \A t \in Searcher : SearchTruthful(t)
  BY DEF ClientIInv
<1>1. UNCHANGED <<file, manifest, sync, jobs, doc, deleting, count>>
  BY DEF Tick
<1>2. ASSUME NEW i \in 1..Len(cache)
      PROVE  cache'[i] \in CacheEntry /\ Truthful(cache[i])'
  <2> DEFINE e == cache[i]
             r == [e.result EXCEPT !.stale = Older(@)]
             f == [e EXCEPT !.result = r]
  <2>1. e \in CacheEntry /\ e.result \in Result /\ e.age \in Age /\ Truthful(e)
    BY <1>0, TypeParts, EntryParts DEF CacheTruthful
  <2>2. r \in Result /\ r.stale = Older(e.result.stale) /\ r.gone = e.result.gone
    BY <2>1, OlderResult
  <2>3. Older(e.age) \in Age /\ r.stale <= Older(e.age)
    <3>1. e.result.stale \in Age \cup {Fresh} /\ e.result.stale <= e.age
      BY <2>1 DEF Result, Truthful
    <3> QED
      BY <2>1, <2>2, <3>1, OlderKeepsOrder
  <2>4. cache'[i] = [f EXCEPT !.age = Older(e.age)]
    BY <2>1 DEF Tick, CacheEntry
  <2>5. e.result.gone /\ deleting = "none" => e.overtaken
    BY <2>1 DEF Truthful
  <2> HIDE DEF r
  <2>6. f \in CacheEntry /\ f.result = r /\ f.overtaken = e.overtaken
    BY ONLY <2>1, <2>2, EntryChanges
  <2> HIDE DEF f
  <2>7. cache'[i] \in CacheEntry /\ cache'[i].result = r /\ cache'[i].overtaken = e.overtaken
        /\ cache'[i].age = Older(e.age)
    BY ONLY <2>3, <2>4, <2>6 DEF CacheEntry
  <2> QED
    BY <1>1, <2>2, <2>3, <2>5, <2>7 DEF Truthful
<1>3. cache' \in Seq(CacheEntry) /\ Len(cache') = Len(cache)
  <2> DEFINE older(i) == [cache[i] EXCEPT !.age = Older(@), !.result.stale = Older(@)]
  <2>1. cache' = [i \in 1..Len(cache) |-> older(i)]
    BY ONLY Tick, Zenon DEF Tick
  <2> HIDE DEF older
  <2>2. Len(cache) \in Nat /\ cache' = [i \in 1..Len(cache) |-> cache'[i]]
    BY <1>0, <2>1, TypeParts
  <2> QED
    BY <1>2, <2>1, <2>2, MapIsSequence
<1>4. CacheTruthful'
  BY <1>2, <1>3 DEF CacheTruthful
<1>5. ASSUME NEW s \in Searcher
      PROVE  search'[s] \in Search /\ SearchTruthful(s)'
  <2>1. search[s] \in Search /\ SearchTruthful(s)
    BY <1>0, TypeParts
  <2>2. CASE search[s].phase = "idle"
    <3>1. search'[s] = search[s]
      BY <2>2 DEF Tick
    <3> QED
      BY <2>1, <2>2, <3>1 DEF SearchTruthful
  <2>3. CASE search[s].phase # "idle"
    <3> DEFINE e == search[s]
               r == [e.result EXCEPT !.stale = Older(@)]
               f == [e EXCEPT !.result = r]
    <3>1. e.result \in Result /\ e.age \in Age /\ e.result.stale \in Age \cup {Fresh}
      BY <2>1, SearchParts DEF Result
    <3>2. r \in Result /\ r.stale = Older(e.result.stale) /\ r.gone = e.result.gone
          /\ (e.result.stale = Fresh => r = e.result)
      BY <3>1, OlderResult
    <3>3. e.query \in Query /\ e.result.stale <= e.age
      <4>1. CASE e.phase = "sent"
        BY <2>1, <3>1, <4>1, IdleIsSearch, ClientAssumption DEF SearchTruthful, Fresh, Age
      <4>2. CASE e.phase = "got"
        BY <2>1, <4>2 DEF SearchTruthful, Truthful
      <4> QED
        BY <2>1, <2>3, <4>1, <4>2 DEF Search
    <3>4. Older(e.age) \in Age /\ r.stale <= Older(e.age)
      BY <3>1, <3>2, <3>3, OlderKeepsOrder
    <3>5. search'[s] = [f EXCEPT !.age = Older(e.age)]
      BY <2>1, <2>3 DEF Tick, Search
    <3> HIDE DEF r
    <3>6. f \in Search /\ f.phase = e.phase /\ f.query = e.query /\ f.result = r
          /\ f.overtaken = e.overtaken
      BY ONLY <2>1, <3>2, SearchChanges
    <3> HIDE DEF f
    <3>7. search'[s] \in Search /\ search'[s].phase = e.phase /\ search'[s].query = e.query
          /\ search'[s].result = r /\ search'[s].overtaken = e.overtaken
          /\ search'[s].age = Older(e.age)
      BY ONLY <3>4, <3>5, <3>6 DEF Search
    <3>8. e.phase = "sent" => r = IdleSearch.result
      BY <2>1, <3>2, IdleIsSearch DEF SearchTruthful
    <3>9. e.phase = "got" => (e.result.gone /\ deleting = "none" => e.overtaken)
      BY <2>1 DEF SearchTruthful, Truthful
    <3> QED
      BY <1>1, <3>2, <3>3, <3>4, <3>7, <3>8, <3>9 DEF SearchTruthful, Truthful
  <2> QED
    BY <2>2, <2>3
<1>6. search' \in [Searcher -> Search]
  BY <1>5 DEF Tick
<1> QED
  BY ONLY <1>0, <1>1, <1>3, <1>4, <1>5, <1>6 DEF ClientIInv, ClientTypeOK, Version, IdleSearch

-----------------------------------------------------------------------------
(* The knowledge client: its theorems.                                     *)

(* The client starts with nothing in its cache. *)
LEMMA ClientStarts ==
  ASSUME ClientInit
  PROVE  ClientIInv
<1>1. 0 \in Version /\ 0 \in 0..MaxDeletes /\ 0 \in 0..MaxFaults
  BY ClientAssumption DEF Version
<1>2. ClientTypeOK
  BY <1>1, IdleIsSearch DEF ClientInit, ClientTypeOK, IdleSync
<1>3. CacheTruthful
  BY DEF ClientInit, CacheTruthful
<1>4. \A s \in Searcher : SearchTruthful(s)
  BY IdleIsSearch DEF ClientInit, SearchTruthful
<1> QED
  BY <1>2, <1>3, <1>4 DEF ClientIInv

(* Every step of the client keeps its invariant. *)
LEMMA ClientSteps ==
  ASSUME ClientIInv, [ClientNext]_clientVars
  PROVE  ClientIInv'
<1>1. CASE Edit \/ RemoveFile \/ SyncScans \/ SyncReads \/ SyncPosts \/ SyncPostFails
           \/ SyncSaves \/ JobFails
  BY <1>1, FilesKeep
<1>2. CASE JobIngests \/ DeleteSends \/ DeleteAnswerLost
  BY <1>2, ServiceChanges
<1>3. CASE DeleteClears \/ SyncClears
  BY <1>3, ClearsKeep
<1>4. CASE Crash
  BY <1>4, CrashKeeps
<1>5. CASE Tick
  BY <1>5, TickKeeps
<1>6. ASSUME NEW s \in Searcher, SearchStores(s)
      PROVE  ClientIInv'
  BY <1>6, StoresKeep
<1>7. ASSUME NEW s \in Searcher, NEW q \in Query, Ask(s, q)
      PROVE  ClientIInv'
  BY <1>7, SearchesKeep
<1>8. ASSUME NEW s \in Searcher, SearchAnswered(s) \/ SearchFails(s)
      PROVE  ClientIInv'
  <2>1. PICK q \in Query : TRUE
    <3>1. search[s].phase = "sent"
      BY <1>8 DEF SearchAnswered, SearchFails
    <3> QED
      BY <3>1 DEF ClientIInv, SearchTruthful
  <2> QED
    BY <1>8, <2>1, SearchesKeep
<1>9. CASE UNCHANGED clientVars
  BY <1>9 DEF clientVars, ClientIInv, ClientTypeOK, CacheTruthful, SearchTruthful, Truthful,
              Version, IdleSearch
<1> QED
  BY <1>1, <1>2, <1>3, <1>4, <1>5, <1>6, <1>7, <1>8, <1>9
     DEF ClientNext, SyncStep, Finish

(* The inductive invariant of the client: every entry of the cache is as   *)
(* truthful as its age says, and every search that has its result will     *)
(* store such an entry (CachedKnowledgeApiClient.search, 35-50).           *)
THEOREM ClientInvariant == ClientSpec => []ClientIInv
<1>1. ClientInit => ClientIInv
  BY ClientStarts
<1>2. ClientIInv /\ [ClientNext]_clientVars => ClientIInv'
  BY ClientSteps
<1> QED
  BY <1>1, <1>2, PTL DEF ClientSpec

(* However many threads search, ask and clear, whatever fails or crashes:  *)
(* no entry answers with what has been outdated for longer than the entry  *)
(* is old, and none with a document whose deletion has returned unless the *)
(* clear overtook its search (knowledge_query_cache.py 36, 49, 56-66).     *)
THEOREM CacheTruthfulHolds == ClientSpec => []CacheTruthful
<1>1. ClientIInv => CacheTruthful
  BY DEF ClientIInv
<1> QED
  BY <1>1, ClientInvariant, PTL
=============================================================================
