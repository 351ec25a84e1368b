-------------------------- MODULE IndexQueryProofs --------------------------
(***************************************************************************)
(* Proofs about the index's queries, for any rows and any times: comparing *)
(* times as text orders the rows, and is right to the second.              *)
(***************************************************************************)
EXTENDS IndexQuery, WellFoundedInduction, FiniteSetTheorems, TLAPS

-----------------------------------------------------------------------------
(* The text order. *)

\* Two fractions have the same text only if they are the same.
LEMMA RankInjective ==
  ASSUME NEW f \in 0 .. 99, NEW g \in 0 .. 99, TextRank(f) = TextRank(g)
  PROVE  f = g
BY DEF TextRank

LEMMA RankType ==
  ASSUME NEW f \in 0 .. 99
  PROVE  TextRank(f) \in Nat
BY DEF TextRank

LEMMA TimeParts ==
  ASSUME NEW t \in Nat
  PROVE  Sec(t) \in Nat /\ Frac(t) \in 0 .. 99 /\ t = 100 * Sec(t) + Frac(t)
BY DEF Sec, Frac

LEMMA TextOrder ==
  ASSUME NEW a \in Nat, NEW b \in Nat
  PROVE  /\ TextLeq(a, b) \/ TextLeq(b, a)
         /\ TextLeq(a, b) /\ TextLeq(b, a) => a = b
         /\ TextLeq(a, b) => Sec(a) <= Sec(b)
         /\ \A c \in Nat : TextLeq(a, b) /\ TextLeq(b, c) => TextLeq(a, c)
<1> DEFINE r(t) == TextRank(Frac(t))
<1>1. \A t \in Nat : Sec(t) \in Nat /\ r(t) \in Nat /\ Frac(t) \in 0 .. 99 /\ t = 100 * Sec(t) + Frac(t)
  BY TimeParts, RankType
<1>2. \A t, u \in Nat : TextLeq(t, u) <=> Sec(t) < Sec(u) \/ (Sec(t) = Sec(u) /\ r(t) <= r(u))
  BY DEF TextLeq
<1>3. r(a) = r(b) => Frac(a) = Frac(b)
  BY <1>1, RankInjective
<1> HIDE DEF r
<1>4. /\ Sec(a) \in Nat /\ Sec(b) \in Nat /\ r(a) \in Nat /\ r(b) \in Nat
      /\ a = 100 * Sec(a) + Frac(a) /\ b = 100 * Sec(b) + Frac(b)
  BY <1>1
<1>5. /\ TextLeq(a, b) <=> Sec(a) < Sec(b) \/ (Sec(a) = Sec(b) /\ r(a) <= r(b))
      /\ TextLeq(b, a) <=> Sec(b) < Sec(a) \/ (Sec(b) = Sec(a) /\ r(b) <= r(a))
  BY <1>2
<1>6. TextLeq(a, b) \/ TextLeq(b, a)
  BY <1>4, <1>5
<1>7. TextLeq(a, b) /\ TextLeq(b, a) => a = b
  <2>1. TextLeq(a, b) /\ TextLeq(b, a) => Sec(a) = Sec(b) /\ r(a) = r(b)
    BY <1>4, <1>5
  <2>2. Sec(a) = Sec(b) /\ Frac(a) = Frac(b) => a = b
    BY <1>4
  <2> QED
    BY <2>1, <2>2, <1>3
<1>8. TextLeq(a, b) => Sec(a) <= Sec(b)
  BY <1>4, <1>5
<1>9. ASSUME NEW c \in Nat, TextLeq(a, b), TextLeq(b, c) PROVE TextLeq(a, c)
  <2>1. Sec(c) \in Nat /\ r(c) \in Nat
    BY <1>1
  <2>2. /\ TextLeq(b, c) <=> Sec(b) < Sec(c) \/ (Sec(b) = Sec(c) /\ r(b) <= r(c))
        /\ TextLeq(a, c) <=> Sec(a) < Sec(c) \/ (Sec(a) = Sec(c) /\ r(a) <= r(c))
    BY <1>2
  <2> QED
    BY <1>4, <1>5, <1>9, <2>1, <2>2
<1> QED
  BY <1>6, <1>7, <1>8, <1>9

-----------------------------------------------------------------------------
(* The rows in start order. *)

Statuses == {"none", "recording", "complete", "corrupted", "interrupted", "deleted"}
Row == [start : Nat, end : Nat, status : Statuses]

\* Rows and bounds are typed.
QueryInv ==
  /\ rows \in [Ids -> Row]
  /\ lo \in Nat /\ hi \in Nat

LEMMA StartsOrdered ==
  ASSUME QueryInv
  PROVE  /\ \A i, j \in Ids : i # j => StartOrder(i, j) \/ StartOrder(j, i)
         /\ \A i, j, k \in Ids : StartOrder(i, j) /\ StartOrder(j, k) => StartOrder(i, k)
         /\ \A i \in Ids : ~StartOrder(i, i)
         /\ \A i, j \in Ids : StartOrder(i, j) => Sec(rows[i].start) <= Sec(rows[j].start)
<1> DEFINE at(i) == rows[i].start
<1>1. \A i \in Ids : at(i) \in Nat /\ i \in Nat
  BY QueryAssumption DEF QueryInv, Row
<1>2. \A i, j \in Ids : StartOrder(i, j) <=> (at(i) # at(j) /\ TextLeq(at(i), at(j))) \/ (at(i) = at(j) /\ i < j)
  BY DEF StartOrder
<1> HIDE DEF at
<1>3. ASSUME NEW i \in Ids, NEW j \in Ids, i # j PROVE StartOrder(i, j) \/ StartOrder(j, i)
  <2>1. at(i) \in Nat /\ at(j) \in Nat /\ i \in Nat /\ j \in Nat
    BY <1>1
  <2>2. TextLeq(at(i), at(j)) \/ TextLeq(at(j), at(i))
    BY <2>1, TextOrder
  <2>3. i < j \/ j < i
    BY <1>3, <2>1
  <2> QED
    BY <1>2, <2>2, <2>3
<1>4. ASSUME NEW i \in Ids, NEW j \in Ids, NEW k \in Ids, StartOrder(i, j), StartOrder(j, k)
      PROVE  StartOrder(i, k)
  <2>1. at(i) \in Nat /\ at(j) \in Nat /\ at(k) \in Nat /\ i \in Nat /\ j \in Nat /\ k \in Nat
    BY <1>1
  <2>2. TextLeq(at(i), at(j)) /\ TextLeq(at(j), at(i)) => at(i) = at(j)
    BY <2>1, TextOrder
  <2>3. TextLeq(at(i), at(j)) /\ TextLeq(at(j), at(k)) => TextLeq(at(i), at(k))
    BY <2>1, TextOrder
  <2>4. /\ (at(i) # at(j) /\ TextLeq(at(i), at(j))) \/ (at(i) = at(j) /\ i < j)
        /\ (at(j) # at(k) /\ TextLeq(at(j), at(k))) \/ (at(j) = at(k) /\ j < k)
    BY <1>2, <1>4
  <2>5. (at(i) # at(k) /\ TextLeq(at(i), at(k))) \/ (at(i) = at(k) /\ i < k)
    <3>1. i < j /\ j < k => i < k
      BY <2>1
    <3> QED
      BY <2>2, <2>3, <2>4, <3>1
  <2> QED
    BY <1>2, <2>5
<1>5. ASSUME NEW i \in Ids PROVE ~StartOrder(i, i)
  <2>1. ~(i < i)
    BY <1>1
  <2> QED
    BY <1>2, <2>1
<1>6. ASSUME NEW i \in Ids, NEW j \in Ids, StartOrder(i, j) PROVE Sec(rows[i].start) <= Sec(rows[j].start)
  <2>1. at(i) \in Nat /\ at(j) \in Nat
    BY <1>1
  <2>2. TextLeq(at(i), at(j)) => Sec(at(i)) <= Sec(at(j))
    BY <2>1, TextOrder
  <2>3. at(i) = at(j) => Sec(at(i)) <= Sec(at(j))
    BY <2>1, TimeParts
  <2>4. Sec(at(i)) <= Sec(at(j))
    BY <1>2, <1>6, <2>2, <2>3
  <2> QED
    BY <2>4 DEF at
<1> QED
  BY <1>3, <1>4, <1>5, <1>6

Lists(s, T) ==
  /\ s \in [1 .. Cardinality(T) -> T] /\ ToSet(s) = T
  /\ \A j, k \in DOMAIN s : j < k => StartOrder(s[j], s[k])

LEMMA LeastElement ==
  ASSUME NEW T \in SUBSET Nat, T # {}
  PROVE  \E n \in T : \A m \in T : n <= m
<1>1. PICK n \in T : \A m \in T : ~(<<m, n>> \in OpToRel(<, Nat))
  BY NatLessThanWellFounded, WFMin
<1>2. \A m \in T : ~(m < n)
  BY <1>1 DEF OpToRel
<1> QED
  BY <1>2

\* A list of all rows but the last in the order gives one of all rows.
LEMMA ListGrows ==
  ASSUME QueryInv, NEW T \in SUBSET Ids, IsFiniteSet(T), NEW x \in T,
         NEW s, Lists(s, T \ {x}), \A y \in T \ {x} : StartOrder(y, x)
  PROVE  \E t : Lists(t, T)
<1> DEFINE U == T \ {x}
           c == Cardinality(U)
<1>1. c \in Nat /\ Cardinality(T) = c + 1
  <2>1. IsFiniteSet(U) /\ Cardinality(U) = Cardinality(T) - 1
    BY FS_RemoveElement
  <2>2. Cardinality(U) \in Nat /\ Cardinality(T) \in Nat
    BY <2>1, FS_CardinalityType
  <2> QED
    BY <2>1, <2>2
<1>2. s \in [1 .. c -> U] /\ ToSet(s) = U /\ \A j, k \in DOMAIN s : j < k => StartOrder(s[j], s[k])
  BY DEF Lists
<1> HIDE DEF c
<1> DEFINE t == [k \in 1 .. (c + 1) |-> IF k = c + 1 THEN x ELSE s[k]]
<1>3. \A k \in 1 .. c : t[k] = s[k] /\ s[k] \in U
  BY <1>1, <1>2
<1>4. t[c + 1] = x /\ DOMAIN t = 1 .. (c + 1) /\ c + 1 \in 1 .. (c + 1)
  BY <1>1
<1>5. t \in [1 .. Cardinality(T) -> T]
  <2>1. \A k \in 1 .. (c + 1) : t[k] \in T
    <3> SUFFICES ASSUME NEW k \in 1 .. (c + 1) PROVE t[k] \in T
      OBVIOUS
    <3>1. k = c + 1 \/ k \in 1 .. c
      BY <1>1
    <3> QED
      BY <3>1, <1>3, <1>4
  <2>2. t = [k \in 1 .. (c + 1) |-> t[k]]
    OBVIOUS
  <2> HIDE DEF t
  <2> QED
    BY <2>1, <2>2, <1>1
<1>6. \A y \in T : \E k \in DOMAIN t : t[k] = y
  <2> SUFFICES ASSUME NEW y \in T PROVE \E k \in DOMAIN t : t[k] = y
    OBVIOUS
  <2>1. CASE y = x
    BY <2>1, <1>4
  <2>2. CASE y # x
    <3>1. PICK k \in 1 .. c : s[k] = y
      BY <2>2, <1>2 DEF ToSet
    <3> QED
      BY <3>1, <1>1, <1>3, <1>4
  <2> QED
    BY <2>1, <2>2
<1>7. ToSet(t) = T
  <2>1. ToSet(t) = {t[k] : k \in DOMAIN t}
    BY DEF ToSet
  <2>2. \A k \in DOMAIN t : t[k] \in T
    BY <1>5
  <2> HIDE DEF t
  <2>3. ASSUME NEW y \in ToSet(t) PROVE y \in T
    BY <2>1, <2>2, Zenon
  <2>4. ASSUME NEW y \in T PROVE y \in ToSet(t)
    BY <1>6, <2>1, Zenon
  <2> QED
    BY <2>3, <2>4, Zenon
<1>8. ASSUME NEW j \in 1 .. (c + 1), NEW k \in 1 .. (c + 1), j < k PROVE StartOrder(t[j], t[k])
  <2>1. j \in 1 .. c
    BY <1>1, <1>8
  <2>2. CASE k = c + 1
    <3>1. t[j] \in T \ {x} /\ t[k] = x
      BY <2>1, <2>2, <1>3, <1>4
    <3> HIDE DEF t
    <3> QED
      BY <3>1
  <2>3. CASE k # c + 1
    <3>1. k \in 1 .. c
      BY <2>3, <1>1
    <3>2. t[j] = s[j] /\ t[k] = s[k] /\ DOMAIN s = 1 .. c
      BY <2>1, <3>1, <1>2, <1>3
    <3>3. StartOrder(s[j], s[k])
      BY <2>1, <3>1, <3>2, <1>2, <1>8
    <3> HIDE DEF t
    <3> QED
      BY <3>2, <3>3
  <2> QED
    BY <2>2, <2>3
<1> HIDE DEF t
<1>9. Lists(t, T)
  BY <1>4, <1>5, <1>7, <1>8 DEF Lists
<1> QED
  BY <1>9

\* Every set of rows can be listed in start order.
LEMMA ListExists ==
  ASSUME QueryInv, NEW S \in SUBSET Ids
  PROVE  \E s : Lists(s, S)
<1> DEFINE Listable(T) == \E s : Lists(s, T)
           Bad == {m \in Nat : \E T \in SUBSET Ids : Cardinality(T) = m /\ ~Listable(T)}
<1>1. \A T \in SUBSET Ids : IsFiniteSet(T) /\ Cardinality(T) \in Nat
  BY QueryAssumption, FS_Subset, FS_CardinalityType
<1>2. SUFFICES ASSUME Bad # {} PROVE FALSE
  <2> HIDE DEF Listable
  <2>1. Cardinality(S) \notin Bad => Listable(S)
    BY <1>1
  <2>2. Listable(S)
    BY <1>2, <2>1
  <2> QED
    BY <2>2 DEF Listable
<1>3. PICK m \in Bad : \A k \in Bad : m <= k
  <2>1. Bad \in SUBSET Nat
    OBVIOUS
  <2> HIDE DEF Bad
  <2> QED
    BY <2>1, <1>2, LeastElement
<1>4. PICK T \in SUBSET Ids : Cardinality(T) = m /\ ~Listable(T)
  BY <1>3
<1>5. \A V \in SUBSET Ids : Cardinality(V) < m => Listable(V)
  <2> SUFFICES ASSUME NEW V \in SUBSET Ids, Cardinality(V) < m, ~Listable(V) PROVE FALSE
    OBVIOUS
  <2> HIDE DEF Listable
  <2>1. Cardinality(V) \in Bad /\ m \in Nat /\ Cardinality(V) \in Nat
    BY <1>1, <1>3
  <2> HIDE DEF Bad
  <2> QED
    BY <2>1, <1>3
<1> HIDE DEF Bad
<1>6. CASE T = {}
  <2>1. Cardinality(T) = 0
    BY <1>6, FS_EmptySet
  <2> DEFINE s == [k \in 1 .. 0 |-> k]
  <2>2. s \in [1 .. Cardinality(T) -> T] /\ DOMAIN s = {}
    BY <2>1
  <2>3. ToSet(s) = T
    BY <2>2, <1>6 DEF ToSet
  <2> HIDE DEF s
  <2>4. Lists(s, T)
    BY <2>2, <2>3 DEF Lists
  <2> QED
    BY <2>4, <1>4
<1>7. CASE T # {}
  <2>1. ASSUME NEW z \in T PROVE \E s : Lists(s, T \ {z})
    <3>1. Cardinality(T \ {z}) = Cardinality(T) - 1
      BY <1>1, FS_RemoveElement
    <3>2. T \ {z} \in SUBSET Ids /\ Cardinality(T \ {z}) < m
      BY <1>1, <1>4, <3>1
    <3> QED
      BY <1>5, <3>2
  <2>2. \E z \in T : \A y \in T \ {z} : StartOrder(y, z)
    <3>1. PICK x \in T : TRUE
      BY <1>7
    <3> DEFINE U == T \ {x}
               c == Cardinality(U)
    <3>2. PICK s : Lists(s, U)
      BY <2>1
    <3>3. CASE U = {}
      BY <3>3
    <3>4. CASE U # {}
      <4>1. c \in Nat /\ s \in [1 .. c -> U] /\ ToSet(s) = U
            /\ \A j, k \in 1 .. c : j < k => StartOrder(s[j], s[k])
        <5>1. U \in SUBSET Ids
          BY <1>4
        <5>2. c \in Nat
          BY <5>1, <1>1
        <5>3. s \in [1 .. c -> U] /\ ToSet(s) = U /\ \A j, k \in DOMAIN s : j < k => StartOrder(s[j], s[k])
          BY <3>2 DEF Lists
        <5> HIDE DEF U, c
        <5> QED
          BY <5>2, <5>3
      <4> HIDE DEF c
      <4>2. \A y \in U : \E k \in 1 .. c : s[k] = y
        BY <4>1 DEF ToSet
      <4>3. c \in 1 .. c /\ s[c] \in U
        BY <3>4, <4>1, <4>2
      <4> DEFINE y == s[c]
      <4>4. \A w \in U \ {y} : StartOrder(w, y)
        <5> SUFFICES ASSUME NEW w \in U \ {y} PROVE StartOrder(w, y)
          OBVIOUS
        <5>1. PICK k \in 1 .. c : s[k] = w
          BY <4>2
        <5>2. k < c
          BY <4>1, <5>1
        <5> QED
          BY <4>1, <4>3, <5>1, <5>2
      <4>5. x \in Ids /\ y \in Ids /\ x # y /\ U \subseteq Ids /\ y \in T
        BY <1>4, <4>3
      <4> HIDE DEF y
      <4>6. CASE StartOrder(y, x)
        <5>1. \A w \in U : StartOrder(w, x)
          BY <4>4, <4>5, <4>6, StartsOrdered
        <5> QED
          BY <5>1
      <4>7. CASE StartOrder(x, y)
        <5>1. \A w \in T \ {y} : StartOrder(w, y)
          BY <4>4, <4>7
        <5> QED
          BY <5>1, <4>5
      <4> QED
        BY <4>5, <4>6, <4>7, StartsOrdered
    <3> QED
      BY <3>3, <3>4
  <2>3. PICK z \in T : \A y \in T \ {z} : StartOrder(y, z)
    BY <2>2
  <2>4. PICK s : Lists(s, T \ {z})
    BY <2>1
  <2>5. Listable(T)
    BY <1>1, <2>3, <2>4, ListGrows
  <2> QED
    BY <2>5, <1>4
<1> QED
  BY <1>6, <1>7

-----------------------------------------------------------------------------
(* The specification. *)

LEMMA QueryInit == Init => QueryInv
  BY DEF Init, QueryInv, Row, Statuses

LEMMA QueryStep == QueryInv /\ [Next]_vars => QueryInv'
<1> SUFFICES ASSUME QueryInv, [Next]_vars PROVE QueryInv'
  OBVIOUS
<1>1. /\ rows \in [Ids -> Row] /\ lo \in Nat /\ hi \in Nat
      /\ \A i \in Ids : rows[i] \in Row
  BY DEF QueryInv
<1>2. ASSUME NEW i \in Ids, NEW s \in Times, InsertMarker(i, s) PROVE QueryInv'
  <2>1. [start |-> s, end |-> 0, status |-> "recording"] \in Row
    BY QueryAssumption DEF Row, Statuses
  <2> QED
    BY <1>1, <1>2, <2>1 DEF InsertMarker, QueryInv
<1>3. ASSUME NEW i \in Ids, NEW e \in Times, NEW valid \in {"complete", "corrupted"}, InsertFinal(i, e, valid)
      PROVE  QueryInv'
  <2> DEFINE r == [rows[i] EXCEPT !.end = e, !.status = valid]
  <2>1. r \in Row
    BY <1>1, QueryAssumption DEF Row, Statuses
  <2>2. rows' = [rows EXCEPT ![i] = r]
    BY <1>1, <1>3 DEF InsertFinal
  <2> HIDE DEF r
  <2>3. rows' \in [Ids -> Row]
    BY <1>1, <2>1, <2>2
  <2> QED
    BY <1>1, <1>3, <2>3 DEF InsertFinal, QueryInv
<1>4. CASE SealInterrupted
  <2>1. \A i \in Ids : [rows[i] EXCEPT !.status = "interrupted"] \in Row
    BY <1>1 DEF Row, Statuses
  <2>2. rows' \in [Ids -> Row]
    BY <1>1, <1>4, <2>1 DEF SealInterrupted
  <2> QED
    BY <1>1, <1>4, <2>2 DEF SealInterrupted, QueryInv
<1>5. ASSUME NEW i \in Ids, Delete(i) PROVE QueryInv'
  <2> DEFINE r == [rows[i] EXCEPT !.status = "deleted"]
  <2>1. r \in Row
    BY <1>1 DEF Row, Statuses
  <2>2. rows' = [rows EXCEPT ![i] = r]
    BY <1>1, <1>5 DEF Delete
  <2> HIDE DEF r
  <2>3. rows' \in [Ids -> Row]
    BY <1>1, <2>1, <2>2
  <2> QED
    BY <1>1, <1>5, <2>3 DEF Delete, QueryInv
<1>6. ASSUME NEW from \in Times \cup {0}, NEW to \in Times \cup {0}, Query(from, to) PROVE QueryInv'
  <2>1. from \in Nat /\ to \in Nat
    BY QueryAssumption
  <2> QED
    BY <1>1, <1>6, <2>1 DEF Query, QueryInv
<1>7. CASE UNCHANGED vars
  BY <1>7 DEF vars, QueryInv
<1> QED
  BY <1>2, <1>3, <1>4, <1>5, <1>6, <1>7 DEF Next

LEMMA QueryAlways == Spec => []QueryInv
  BY QueryInit, QueryStep, PTL DEF Spec

\* What a query returns: the matching rows, each once, in the order of their texts.
LEMMA QueryLists ==
  ASSUME QueryInv, NEW from \in Nat, NEW to \in Nat
  PROVE  Lists(QueryByChannel(from, to), {i \in Ids : Matches(rows[i], from, to)})
<1> DEFINE S == {i \in Ids : Matches(rows[i], from, to)}
<1>1. S \in SUBSET Ids
  OBVIOUS
<1>2. QueryByChannel(from, to) = Sorted(S)
  BY DEF QueryByChannel
<1> HIDE DEF S
<1>3. \E s : Lists(s, S)
  BY <1>1, ListExists
<1>4. \E s \in [1 .. Cardinality(S) -> S] :
        ToSet(s) = S /\ \A j, k \in DOMAIN s : j < k => StartOrder(s[j], s[k])
  BY <1>3, Zenon DEF Lists
<1>5. Lists(Sorted(S), S)
  BY <1>4, Zenon DEF Lists, Sorted
<1> QED
  BY <1>2, <1>5 DEF S

\* The filter and the order, which compare times as text, are right to the second.
LEMMA RightToTheSecond ==
  ASSUME QueryInv, NEW from \in Nat, NEW to \in Nat, NEW found, found = QueryByChannel(from, to)
  PROVE  /\ \A i \in Ids :
              /\ /\ rows[i].status = "complete"
                 /\ from > 0 => Sec(rows[i].end) > Sec(from)
                 /\ to > 0 => Sec(rows[i].start) < Sec(to)
                 => i \in ToSet(found)
              /\ i \in ToSet(found) =>
                   /\ Playable(i)
                   /\ from > 0 => Sec(rows[i].end) >= Sec(from)
                   /\ to > 0 => Sec(rows[i].start) <= Sec(to)
         /\ \A j, k \in DOMAIN found : j < k =>
              /\ found[j] # found[k]
              /\ Sec(rows[found[j]].start) <= Sec(rows[found[k]].start)
<1> DEFINE S == {i \in Ids : Matches(rows[i], from, to)}
<1>1. Lists(found, S)
  BY QueryLists
<1>2. /\ found \in [1 .. Cardinality(S) -> S] /\ ToSet(found) = S
      /\ \A j, k \in DOMAIN found : j < k => StartOrder(found[j], found[k])
  BY <1>1 DEF Lists
<1>3. ASSUME NEW i \in Ids
      PROVE  /\ rows[i].start \in Nat /\ rows[i].end \in Nat /\ rows[i].status \in Statuses
             /\ Sec(rows[i].start) \in Nat /\ Sec(rows[i].end) \in Nat
  <2>1. rows[i] \in Row
    BY DEF QueryInv
  <2>2. rows[i].start \in Nat /\ rows[i].end \in Nat /\ rows[i].status \in Statuses
    BY <2>1 DEF Row
  <2> QED
    BY <2>2, TimeParts
<1>4. Sec(from) \in Nat /\ Sec(to) \in Nat
  BY TimeParts
<1>5. ASSUME NEW i \in Ids,
             rows[i].status = "complete",
             from > 0 => Sec(rows[i].end) > Sec(from),
             to > 0 => Sec(rows[i].start) < Sec(to)
      PROVE  i \in ToSet(found)
  <2>1. from > 0 => TextLeq(from, rows[i].end)
    BY <1>3, <1>4, <1>5 DEF TextLeq
  <2>2. to > 0 => TextLeq(rows[i].start, to)
    BY <1>3, <1>4, <1>5 DEF TextLeq
  <2>3. Matches(rows[i], from, to)
    BY <2>1, <2>2, <1>5 DEF Matches
  <2> QED
    BY <1>2, <2>3
<1>6. ASSUME NEW i \in Ids, i \in ToSet(found)
      PROVE  /\ Playable(i)
             /\ from > 0 => Sec(rows[i].end) >= Sec(from)
             /\ to > 0 => Sec(rows[i].start) <= Sec(to)
  <2>1. Matches(rows[i], from, to)
    BY <1>2, <1>6
  <2>2. Playable(i)
    BY <1>3, <2>1 DEF Matches, Playable, Statuses
  <2>3. from > 0 => Sec(rows[i].end) >= Sec(from)
    BY <1>3, <1>4, <2>1, TextOrder DEF Matches
  <2>4. to > 0 => Sec(rows[i].start) <= Sec(to)
    BY <1>3, <1>4, <2>1, TextOrder DEF Matches
  <2> QED
    BY <2>2, <2>3, <2>4
<1>7. ASSUME NEW j \in DOMAIN found, NEW k \in DOMAIN found, j < k
      PROVE  found[j] # found[k] /\ Sec(rows[found[j]].start) <= Sec(rows[found[k]].start)
  <2>1. found[j] \in Ids /\ found[k] \in Ids /\ StartOrder(found[j], found[k])
    BY <1>2, <1>7
  <2> QED
    BY <2>1, StartsOrdered
<1> QED
  BY <1>5, <1>6, <1>7

\* A query over any rows, with any times, is right to the second although SQL compares
\* the times as text (QueryByChannel's WHERE and ORDER BY).
THEOREM QueriesRight == Spec => QueryRightToTheSecond
<1>1. QueryInv /\ QueryInv' /\ [Next]_vars =>
        [Query(lo', hi') =>
           /\ \A i \in Ids :
                /\ /\ rows[i].status = "complete"
                   /\ lo' > 0 => Sec(rows[i].end) > Sec(lo')
                   /\ hi' > 0 => Sec(rows[i].start) < Sec(hi')
                   => i \in ToSet(result')
                /\ i \in ToSet(result') =>
                     /\ Playable(i)
                     /\ lo' > 0 => Sec(rows[i].end) >= Sec(lo')
                     /\ hi' > 0 => Sec(rows[i].start) <= Sec(hi')
           /\ \A j, k \in DOMAIN result' : j < k =>
                /\ result'[j] # result'[k]
                /\ Sec(rows[result'[j]].start) <= Sec(rows[result'[k]].start)]_vars
  <2> SUFFICES ASSUME QueryInv, QueryInv', Query(lo', hi')
               PROVE  /\ \A i \in Ids :
                           /\ /\ rows[i].status = "complete"
                              /\ lo' > 0 => Sec(rows[i].end) > Sec(lo')
                              /\ hi' > 0 => Sec(rows[i].start) < Sec(hi')
                              => i \in ToSet(result')
                           /\ i \in ToSet(result') =>
                                /\ Playable(i)
                                /\ lo' > 0 => Sec(rows[i].end) >= Sec(lo')
                                /\ hi' > 0 => Sec(rows[i].start) <= Sec(hi')
                      /\ \A j, k \in DOMAIN result' : j < k =>
                           /\ result'[j] # result'[k]
                           /\ Sec(rows[result'[j]].start) <= Sec(rows[result'[k]].start)
    OBVIOUS
  <2>1. lo' \in Nat /\ hi' \in Nat
    BY DEF QueryInv
  <2>2. PICK from \in Nat, to \in Nat : from = lo' /\ to = hi'
    BY <2>1
  <2>3. result' = QueryByChannel(from, to)
    BY <2>2 DEF Query
  <2> QED
    BY <2>2, <2>3, RightToTheSecond
<1> QED
  BY <1>1, QueryAlways, PTL DEF Spec, QueryRightToTheSecond
=============================================================================
