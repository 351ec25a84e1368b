---------------------------- MODULE GrabberProofs ----------------------------
(* Proofs about the demuxer of a camera: for any number of frames, any order   *)
(* of parameter sets, key frames and audio, and any clock rates.               *)
EXTENDS Grabber, WellFoundedInduction, SequenceTheorems, TLAPS

-----------------------------------------------------------------------------
(* The units of an Annex-B payload. *)

LEMMA LeastElement ==
  ASSUME NEW T \in SUBSET Nat, T # {}
  PROVE  \E n \in T : \A m \in T : n <= m
<1>1. PICK n \in T : \A m \in T : ~(<<m, n>> \in OpToRel(<, Nat))
  BY NatLessThanWellFounded, WFMin
<1>2. \A m \in T : ~(m < n)
  BY <1>1 DEF OpToRel
<1> QED
  BY <1>2

\* What holds of n and goes from each number to the one before holds down to 1.
LEMMA CountingDown ==
  ASSUME NEW n \in Nat, NEW G, n \in G, \A i \in 1 .. n - 1 : i + 1 \in G => i \in G
  PROVE  \A i \in 1 .. n : i \in G
<1> DEFINE Bad == {d \in 0 .. n - 1 : n - d \notin G}
<1>1. Bad \in SUBSET Nat
  OBVIOUS
<1>2. SUFFICES ASSUME Bad # {} PROVE FALSE
  <2> SUFFICES ASSUME NEW i \in 1 .. n, i \notin G PROVE FALSE
    OBVIOUS
  <2>1. n - i \in 0 .. n - 1 /\ n - (n - i) = i
    OBVIOUS
  <2>2. n - i \in Bad
    BY <2>1
  <2> QED
    BY <2>2, <1>2
<1> HIDE DEF Bad
<1>3. PICK d \in Bad : \A k \in Bad : d <= k
  BY <1>1, <1>2, LeastElement
<1>4. d \in 0 .. n - 1 /\ n - d \notin G
  BY <1>3 DEF Bad
<1>5. d # 0 /\ d - 1 \in 0 .. n - 1 /\ n - d \in 1 .. n - 1 /\ n - (d - 1) = (n - d) + 1
  BY <1>4
<1>6. d - 1 \notin Bad
  BY <1>3, <1>4, <1>5
<1>7. n - (d - 1) \in G
  BY <1>5, <1>6 DEF Bad
<1> QED
  BY <1>4, <1>5, <1>7

\* And up from 1.
LEMMA CountingUp ==
  ASSUME NEW n \in Nat, NEW G, 1 \in G, \A i \in 1 .. n - 1 : i \in G => i + 1 \in G
  PROVE  \A i \in 1 .. n : i \in G
<1> DEFINE Bad == {i \in 1 .. n : i \notin G}
<1> SUFFICES ASSUME Bad # {} PROVE FALSE
  OBVIOUS
<1>1. Bad \in SUBSET Nat
  OBVIOUS
<1> HIDE DEF Bad
<1>2. PICK m \in Bad : \A k \in Bad : m <= k
  BY <1>1, LeastElement
<1>3. m \in 1 .. n /\ m \notin G
  BY <1>2 DEF Bad
<1>4. m # 1 /\ m - 1 \in 1 .. n - 1 /\ (m - 1) + 1 = m
  BY <1>3
<1>5. m - 1 \notin Bad
  BY <1>2, <1>4
<1> QED
  BY <1>3, <1>4, <1>5 DEF Bad

\* A start code has three or four bytes and lies within the payload.
LEMMA CodeLen ==
  ASSUME NEW data \in Seq(Nat), NEW i \in 1 .. Len(data)
  PROVE  /\ annexBStartCodeLen(data, i) \in {0, 3, 4}
         /\ annexBStartCodeLen(data, i) > 0 =>
              i + annexBStartCodeLen(data, i) \in i + 1 .. Len(data) + 1
<1>1. Len(data) \in Nat /\ i \in Nat
  OBVIOUS
<1> QED
  BY <1>1 DEF annexBStartCodeLen

Codes(data, start) == {i \in start .. Len(data) : annexBStartCodeLen(data, i) > 0}

LEMMA FirstCode ==
  ASSUME NEW data \in Seq(Nat), NEW start \in 1 .. Len(data) + 1, Codes(data, start) # {}
  PROVE  /\ Min(Codes(data, start)) \in Codes(data, start)
         /\ \A i \in Codes(data, start) : Min(Codes(data, start)) <= i
<1> DEFINE C == Codes(data, start)
<1>1. C \in SUBSET Nat
  BY DEF Codes
<1>2. C # {}
  OBVIOUS
<1> HIDE DEF C
<1>3. \E i \in C : \A j \in C : i <= j
  BY <1>1, <1>2, LeastElement
<1>4. Min(C) \in C /\ \A j \in C : Min(C) <= j
  BY <1>3, Zenon DEF Min
<1> QED
  BY <1>4 DEF C

\* One turn of the walk.
Turn(data, f, start) ==
  LET codes == {i \in start .. Len(data) : annexBStartCodeLen(data, i) > 0} IN
  IF codes = {} THEN IF start <= Len(data) THEN <<SubSeq(data, start, Len(data))>> ELSE <<>>
  ELSE LET i == Min(codes) IN
       (IF i > start THEN <<SubSeq(data, start, i - 1)>> ELSE <<>>)
         \o f[i + annexBStartCodeLen(data, i)]
Walks(f, data) == f = [start \in 1 .. Len(data) + 1 |-> Turn(data, f, start)]

\* It looks only at later positions.
LEMMA TurnAhead ==
  ASSUME NEW data \in Seq(Nat), NEW start \in 1 .. Len(data) + 1, NEW f, NEW g,
         \A i \in start + 1 .. Len(data) + 1 : f[i] = g[i]
  PROVE  Turn(data, f, start) = Turn(data, g, start)
<1> DEFINE C == Codes(data, start)
           i == Min(C)
           next == i + annexBStartCodeLen(data, i)
<1>1. CASE C = {}
  BY <1>1 DEF Turn, Codes
<1>2. CASE C # {}
  <2>1. i \in C
    BY <1>2, FirstCode
  <2>2. i \in start .. Len(data) /\ annexBStartCodeLen(data, i) > 0
    BY <2>1 DEF Codes
  <2>3. Len(data) \in Nat /\ start \in Nat
    OBVIOUS
  <2>4. i \in 1 .. Len(data)
    BY <2>2, <2>3
  <2>5. next \in i + 1 .. Len(data) + 1
    BY <2>2, <2>4, CodeLen
  <2>6. next \in start + 1 .. Len(data) + 1
    BY <2>2, <2>3, <2>5
  <2>7. f[next] = g[next]
    BY <2>6
  <2> QED
    BY <2>7, <1>2 DEF Turn, Codes
<1> QED
  BY <1>1, <1>2

LEMMA WalkExists ==
  ASSUME NEW data \in Seq(Nat)
  PROVE  \E f : Walks(f, data)
<1> DEFINE n == Len(data) + 1
           From(m) == \E f : f = [i \in m .. n |-> Turn(data, f, i)]
           G == {m \in 1 .. n : From(m)}
<1>1. n \in Nat /\ n >= 1
  OBVIOUS
<1>2. n \in G
  <2> DEFINE g == [i \in {} |-> 0]
             f == [i \in n .. n |-> Turn(data, g, i)]
  <2>1. \A i \in n .. n : f[i] = Turn(data, f, i)
    <3> SUFFICES ASSUME NEW i \in n .. n PROVE f[i] = Turn(data, f, i)
      OBVIOUS
    <3>1. f[i] = Turn(data, g, i)
      OBVIOUS
    <3> HIDE DEF f, g
    <3>2. \A k \in i + 1 .. Len(data) + 1 : g[k] = f[k]
      BY <1>1
    <3>3. i \in 1 .. Len(data) + 1
      BY <1>1
    <3> QED
      BY <3>1, <3>2, <3>3, TurnAhead
  <2>2. f = [i \in n .. n |-> f[i]]
    OBVIOUS
  <2> HIDE DEF f
  <2>3. f = [i \in n .. n |-> Turn(data, f, i)]
    BY <2>1, <2>2
  <2> QED
    BY <2>3, <1>1
<1>3. ASSUME NEW m \in 1 .. n - 1, m + 1 \in G PROVE m \in G
  <2>1. PICK g : g = [i \in m + 1 .. n |-> Turn(data, g, i)]
    BY <1>3
  <2> DEFINE f == [i \in m .. n |-> IF i = m THEN Turn(data, g, m) ELSE g[i]]
  <2>2. \A i \in m + 1 .. n : f[i] = g[i] /\ i \in m .. n
    BY <1>1
  <2>3. f[m] = Turn(data, g, m) /\ f = [i \in m .. n |-> f[i]]
    BY <1>1
  <2>4. \A i \in m + 1 .. n : g[i] = Turn(data, g, i)
    BY <2>1
  <2> HIDE DEF f
  <2>5. ASSUME NEW i \in m .. n PROVE f[i] = Turn(data, f, i)
    <3>1. f[i] = Turn(data, g, i)
      <4>1. CASE i = m
        BY <4>1, <2>3
      <4>2. CASE i # m
        <5>1. i \in m + 1 .. n
          BY <4>2, <1>1
        <5> QED
          BY <5>1, <2>2, <2>4
      <4> QED
        BY <4>1, <4>2
    <3>2. \A k \in i + 1 .. Len(data) + 1 : g[k] = f[k]
      <4> SUFFICES ASSUME NEW k \in i + 1 .. Len(data) + 1 PROVE g[k] = f[k]
        OBVIOUS
      <4>1. k \in m + 1 .. n
        BY <1>1
      <4> QED
        BY <4>1, <2>2
    <3>3. i \in 1 .. Len(data) + 1
      BY <1>1
    <3> QED
      BY <3>1, <3>2, <3>3, TurnAhead
  <2>6. f = [i \in m .. n |-> Turn(data, f, i)]
    BY <2>3, <2>5
  <2>7. From(m)
    BY <2>6
  <2> QED
    BY <2>7, <1>1
<1>4. 1 \in G
  <2> HIDE DEF G
  <2>1. \A i \in 1 .. n : i \in G
    BY <1>1, <1>2, <1>3, CountingDown
  <2> QED
    BY <2>1, <1>1
<1> QED
  BY <1>4 DEF Walks

LEMMA SplitWalks ==
  ASSUME NEW data \in Seq(Nat)
  PROVE  \E f : /\ splitAnnexB(data) = f[1]
                /\ \A start \in 1 .. Len(data) + 1 : f[start] = Turn(data, f, start)
<1> DEFINE f == CHOOSE f : Walks(f, data)
<1>1. Walks(f, data)
  BY WalkExists
<1>2. splitAnnexB(data) = f[1]
  BY DEF splitAnnexB, Walks, Turn
<1> HIDE DEF f
<1>3. \A start \in 1 .. Len(data) + 1 : f[start] = Turn(data, f, start)
  BY <1>1 DEF Walks
<1> QED
  BY <1>2, <1>3

-----------------------------------------------------------------------------
(* Pieces one after the other. *)

Join(f, h, n, i) == IF i > n THEN <<>> ELSE h[i] \o f[i + 1]
Joins(f, h, n) == f = [i \in 1 .. n + 1 |-> Join(f, h, n, i)]

LEMMA JoinExists ==
  ASSUME NEW n \in Nat, NEW h
  PROVE  \E f : Joins(f, h, n)
<1> DEFINE l == n + 1
           From(m) == \E f : f = [i \in m .. l |-> Join(f, h, n, i)]
           G == {m \in 1 .. l : From(m)}
<1>1. l \in Nat /\ l >= 1 /\ l > n
  OBVIOUS
<1>2. l \in G
  <2> DEFINE f == [i \in l .. l |-> <<>>]
  <2>1. f = [i \in l .. l |-> Join(f, h, n, i)]
    BY <1>1 DEF Join
  <2> HIDE DEF f
  <2> QED
    BY <2>1, <1>1
<1>3. ASSUME NEW m \in 1 .. l - 1, m + 1 \in G PROVE m \in G
  <2>1. PICK g : g = [i \in m + 1 .. l |-> Join(g, h, n, i)]
    BY <1>3
  <2> DEFINE f == [i \in m .. l |-> IF i = m THEN Join(g, h, n, m) ELSE g[i]]
  <2>2. \A i \in m + 1 .. l : f[i] = g[i] /\ i \in m .. l
    BY <1>1
  <2>3. f[m] = Join(g, h, n, m) /\ f = [i \in m .. l |-> f[i]]
    BY <1>1
  <2>4. \A i \in m + 1 .. l : g[i] = Join(g, h, n, i)
    BY <2>1
  <2> HIDE DEF f
  <2>5. ASSUME NEW i \in m .. l PROVE f[i] = Join(f, h, n, i)
    <3>1. f[i] = Join(g, h, n, i)
      <4>1. CASE i = m
        BY <4>1, <2>3
      <4>2. CASE i # m
        <5>1. i \in m + 1 .. l
          BY <4>2, <1>1
        <5> QED
          BY <5>1, <2>2, <2>4
      <4> QED
        BY <4>1, <4>2
    <3>2. i <= n => g[i + 1] = f[i + 1]
      <4>1. i <= n => i + 1 \in m + 1 .. l
        BY <1>1
      <4> QED
        BY <4>1, <2>2
    <3>3. i > n \/ i <= n
      BY <1>1
    <3> QED
      BY <3>1, <3>2, <3>3 DEF Join
  <2>6. f = [i \in m .. l |-> Join(f, h, n, i)]
    BY <2>3, <2>5
  <2>7. From(m)
    BY <2>6
  <2> QED
    BY <2>7, <1>1
<1>4. 1 \in G
  <2> HIDE DEF G
  <2>1. \A i \in 1 .. l : i \in G
    BY <1>1, <1>2, <1>3, CountingDown
  <2> QED
    BY <2>1, <1>1
<1> QED
  BY <1>4 DEF Joins

LEMMA JoinFacts ==
  ASSUME NEW n \in Nat, NEW h, \A i \in 1 .. n : h[i] \in Seq(Nat), NEW f, Joins(f, h, n)
  PROVE  /\ f[n + 1] = <<>>
         /\ \A i \in 1 .. n : f[i] = h[i] \o f[i + 1]
         /\ \A i \in 1 .. n + 1 : f[i] \in Seq(Nat)
<1>1. \A i \in 1 .. n + 1 : f[i] = Join(f, h, n, i)
  BY DEF Joins
<1>2. f[n + 1] = <<>>
  <2>1. n + 1 \in 1 .. n + 1 /\ n + 1 > n
    OBVIOUS
  <2> QED
    BY <1>1, <2>1 DEF Join
<1>3. \A i \in 1 .. n : f[i] = h[i] \o f[i + 1]
  <2> SUFFICES ASSUME NEW i \in 1 .. n PROVE f[i] = h[i] \o f[i + 1]
    OBVIOUS
  <2>1. i \in 1 .. n + 1 /\ ~(i > n)
    OBVIOUS
  <2> QED
    BY <1>1, <2>1 DEF Join
<1> DEFINE G == {i \in 1 .. n + 1 : f[i] \in Seq(Nat)}
<1>4. n + 1 \in G /\ n + 1 \in Nat
  <2>1. <<>> \in Seq(Nat)
    OBVIOUS
  <2>2. f[n + 1] \in Seq(Nat)
    BY <1>2, <2>1, Zenon
  <2>3. n + 1 \in 1 .. n + 1 /\ n + 1 \in Nat
    OBVIOUS
  <2> QED
    BY <2>2, <2>3
<1>5. ASSUME NEW i \in 1 .. (n + 1) - 1, i + 1 \in G PROVE i \in G
  <2>1. i \in 1 .. n /\ i \in 1 .. n + 1 /\ f[i + 1] \in Seq(Nat)
    BY <1>5
  <2>2. h[i] \in Seq(Nat) /\ f[i] = h[i] \o f[i + 1]
    BY <1>3, <2>1
  <2>3. f[i] \in Seq(Nat)
    BY <2>1, <2>2, ConcatProperties
  <2> QED
    BY <2>1, <2>3
<1>6. \A i \in 1 .. n + 1 : i \in G
  <2> HIDE DEF G
  <2> QED
    BY <1>4, <1>5, CountingDown
<1> QED
  BY <1>2, <1>3, <1>6

-----------------------------------------------------------------------------
(* The layout of a payload. *)

\* A unit as Annex-B demands it: it is not empty, holds no start code and does not
\* end with a zero byte.
Clean(u) ==
  /\ u \in Seq(Nat) /\ Len(u) > 0 /\ u[Len(u)] # 0
  /\ \A k \in 1 .. Len(u) : k + 2 <= Len(u) => ~(u[k] = 0 /\ u[k + 1] = 0 /\ u[k + 2] = 1)

Units(nals) == nals \in Seq(Seq(Nat)) /\ \A i \in 1 .. Len(nals) : Clean(nals[i])
Coded(nals, lens) == /\ lens \in [1 .. Len(nals) -> {0, 3, 4}]
                     /\ \A i \in 2 .. Len(nals) : lens[i] # 0

\* Where the units are: unit i follows the first at[i] bytes and its start code.
Laid(data, nals, lens, at) ==
  /\ data \in Seq(Nat) /\ at \in [1 .. Len(nals) + 1 -> Nat]
  /\ at[1] = 0 /\ at[Len(nals) + 1] = Len(data)
  /\ \A i \in 1 .. Len(nals) :
       /\ at[i + 1] = at[i] + lens[i] + Len(nals[i])
       /\ at[i + 1] <= Len(data)
       /\ \A k \in 1 .. lens[i] : data[at[i] + k] = StartCode(lens[i])[k]
       /\ \A k \in 1 .. Len(nals[i]) : data[at[i] + lens[i] + k] = nals[i][k]

Piece(nals, lens, i) == (IF lens[i] = 0 THEN <<>> ELSE StartCode(lens[i])) \o nals[i]

LEMMA PieceFacts ==
  ASSUME NEW nals, NEW lens, Units(nals), Coded(nals, lens), NEW i \in 1 .. Len(nals)
  PROVE  /\ Piece(nals, lens, i) \in Seq(Nat)
         /\ lens[i] \in {0, 3, 4} /\ nals[i] \in Seq(Nat) /\ Len(nals[i]) \in Nat /\ Len(nals[i]) > 0
         /\ Len(Piece(nals, lens, i)) = lens[i] + Len(nals[i])
         /\ \A k \in 1 .. lens[i] : Piece(nals, lens, i)[k] = StartCode(lens[i])[k]
         /\ \A k \in 1 .. Len(nals[i]) : Piece(nals, lens, i)[lens[i] + k] = nals[i][k]
<1>1. lens[i] \in {0, 3, 4} /\ nals[i] \in Seq(Nat) /\ Len(nals[i]) \in Nat /\ Len(nals[i]) > 0
  <2>1. Clean(nals[i])
    BY DEF Units
  <2>2. lens[i] \in {0, 3, 4}
    BY DEF Coded
  <2> QED
    BY <2>1, <2>2 DEF Clean
<1> DEFINE c == IF lens[i] = 0 THEN <<>> ELSE StartCode(lens[i])
<1>2. c \in Seq(Nat) /\ Len(c) = lens[i] /\ (lens[i] # 0 => c = StartCode(lens[i]))
  <2>1. CASE lens[i] = 0
    BY <2>1
  <2>2. CASE lens[i] = 3
    <3>1. c = <<0, 0, 1>>
      BY <2>2 DEF StartCode
    <3>2. <<0, 0, 1>> \in Seq(Nat) /\ Len(<<0, 0, 1>>) = 3
      OBVIOUS
    <3> QED
      BY <3>1, <3>2, <2>2
  <2>3. CASE lens[i] = 4
    <3>1. c = <<0, 0, 0, 1>>
      BY <2>3 DEF StartCode
    <3>2. <<0, 0, 0, 1>> \in Seq(Nat) /\ Len(<<0, 0, 0, 1>>) = 4
      OBVIOUS
    <3> QED
      BY <3>1, <3>2, <2>3
  <2> QED
    BY <1>1, <2>1, <2>2, <2>3
<1>3. Piece(nals, lens, i) = c \o nals[i]
  BY DEF Piece
<1> HIDE DEF c
<1>4. /\ c \o nals[i] \in Seq(Nat) /\ Len(c \o nals[i]) = Len(c) + Len(nals[i])
      /\ \A k \in 1 .. Len(c) + Len(nals[i]) :
           (c \o nals[i])[k] = IF k <= Len(c) THEN c[k] ELSE nals[i][k - Len(c)]
  BY <1>1, <1>2, ConcatProperties
<1> DEFINE p == c \o nals[i]
<1>5. /\ p \in Seq(Nat) /\ Len(p) = lens[i] + Len(nals[i])
      /\ \A k \in 1 .. lens[i] + Len(nals[i]) : p[k] = IF k <= lens[i] THEN c[k] ELSE nals[i][k - lens[i]]
  BY <1>2, <1>4
<1>6. Piece(nals, lens, i) = p
  BY <1>3
<1> HIDE DEF p
<1>7. \A k \in 1 .. lens[i] : p[k] = StartCode(lens[i])[k]
  <2> SUFFICES ASSUME NEW k \in 1 .. lens[i] PROVE p[k] = StartCode(lens[i])[k]
    OBVIOUS
  <2>1. k \in 1 .. lens[i] + Len(nals[i]) /\ k <= lens[i] /\ lens[i] # 0
    BY <1>1
  <2> QED
    BY <2>1, <1>2, <1>5
<1>8. \A k \in 1 .. Len(nals[i]) : p[lens[i] + k] = nals[i][k]
  <2> SUFFICES ASSUME NEW k \in 1 .. Len(nals[i]) PROVE p[lens[i] + k] = nals[i][k]
    OBVIOUS
  <2>1. lens[i] + k \in 1 .. lens[i] + Len(nals[i]) /\ ~(lens[i] + k <= lens[i]) /\ (lens[i] + k) - lens[i] = k
    <3>1. \A l, u \in Nat : \A m \in 1 .. u : l + m \in 1 .. l + u /\ ~(l + m <= l) /\ (l + m) - l = m
      OBVIOUS
    <3>2. lens[i] \in Nat /\ Len(nals[i]) \in Nat
      BY <1>1
    <3> QED
      BY <3>1, <3>2
  <2> QED
    BY <2>1, <1>5
<1> QED
  BY <1>1, <1>5, <1>6, <1>7, <1>8

LEMMA PayloadJoins ==
  ASSUME NEW nals, NEW lens, Units(nals), Coded(nals, lens)
  PROVE  \E f : /\ AnnexBOf(nals, lens) = f[1]
                /\ f[Len(nals) + 1] = <<>>
                /\ \A i \in 1 .. Len(nals) : f[i] = Piece(nals, lens, i) \o f[i + 1]
                /\ \A i \in 1 .. Len(nals) + 1 : f[i] \in Seq(Nat)
<1> DEFINE n == Len(nals)
           h == [i \in 1 .. n |-> Piece(nals, lens, i)]
           Lays(f) == f = [i \in 1 .. n + 1 |-> IF i > n THEN <<>> ELSE Piece(nals, lens, i) \o f[i + 1]]
           f == CHOOSE f : Lays(f)
<1>1. n \in Nat
  BY DEF Units
<1>2. \A i \in 1 .. n : h[i] = Piece(nals, lens, i) /\ h[i] \in Seq(Nat)
  BY PieceFacts
<1> HIDE DEF n, h
<1>3. \A g : Joins(g, h, n) <=> Lays(g)
  <2> SUFFICES ASSUME NEW g PROVE Joins(g, h, n) <=> Lays(g)
    OBVIOUS
  <2>1. \A i \in 1 .. n + 1 : Join(g, h, n, i) = IF i > n THEN <<>> ELSE Piece(nals, lens, i) \o g[i + 1]
    <3> SUFFICES ASSUME NEW i \in 1 .. n + 1
                 PROVE  Join(g, h, n, i) = IF i > n THEN <<>> ELSE Piece(nals, lens, i) \o g[i + 1]
      OBVIOUS
    <3>1. i > n \/ i \in 1 .. n
      BY <1>1
    <3> QED
      BY <3>1, <1>2 DEF Join
  <2>2. [i \in 1 .. n + 1 |-> Join(g, h, n, i)] =
          [i \in 1 .. n + 1 |-> IF i > n THEN <<>> ELSE Piece(nals, lens, i) \o g[i + 1]]
    BY <2>1
  <2> QED
    BY <2>2 DEF Joins
<1>4. Lays(f)
  <2>1. \E g : Lays(g)
    BY <1>1, <1>3, JoinExists
  <2> QED
    BY <2>1, Zenon
<1>5. AnnexBOf(nals, lens) = f[1]
  BY DEF AnnexBOf, Piece, n
<1> HIDE DEF f
<1>6. Joins(f, h, n)
  BY <1>3, <1>4
<1>7. /\ f[n + 1] = <<>>
      /\ \A i \in 1 .. n : f[i] = h[i] \o f[i + 1]
      /\ \A i \in 1 .. n + 1 : f[i] \in Seq(Nat)
  BY <1>1, <1>2, <1>6, JoinFacts
<1>8. \A i \in 1 .. n : f[i] = Piece(nals, lens, i) \o f[i + 1]
  BY <1>2, <1>7
<1> QED
  BY <1>5, <1>7, <1>8 DEF n

LEMMA PayloadLaid ==
  ASSUME NEW nals, NEW lens, Units(nals), Coded(nals, lens)
  PROVE  \E at : Laid(AnnexBOf(nals, lens), nals, lens, at)
<1> DEFINE n == Len(nals)
<1>1. PICK f : /\ AnnexBOf(nals, lens) = f[1]
               /\ f[n + 1] = <<>>
               /\ \A i \in 1 .. n : f[i] = Piece(nals, lens, i) \o f[i + 1]
               /\ \A i \in 1 .. n + 1 : f[i] \in Seq(Nat)
  BY PayloadJoins
<1> DEFINE data == f[1]
           at == [i \in 1 .. n + 1 |-> Len(data) - Len(f[i])]
           Fits(i) == /\ at[i] \in Nat /\ at[i] + Len(f[i]) = Len(data)
                      /\ \A k \in 1 .. Len(f[i]) : data[at[i] + k] = f[i][k]
           G == {i \in 1 .. n + 1 : Fits(i)}
<1>2. n \in Nat /\ n + 1 \in Nat /\ 1 \in 1 .. n + 1 /\ n + 1 \in 1 .. n + 1
  BY DEF Units
<1> HIDE DEF n
<1>3. \A i \in 1 .. n + 1 : Len(f[i]) \in Nat
  BY <1>1
<1>4. \A i \in 1 .. n + 1 : at[i] = Len(data) - Len(f[i])
  OBVIOUS
<1>5. at = [i \in 1 .. n + 1 |-> at[i]]
  OBVIOUS
<1> HIDE DEF at
<1>6. data \in Seq(Nat) /\ Len(data) \in Nat
  BY <1>1, <1>2
<1>7. \A i \in 1 .. n :
        /\ i \in 1 .. n + 1 /\ i + 1 \in 1 .. n + 1
        /\ lens[i] \in Nat /\ Len(nals[i]) \in Nat
        /\ Len(f[i]) = lens[i] + Len(nals[i]) + Len(f[i + 1])
        /\ \A k \in 1 .. lens[i] : f[i][k] = StartCode(lens[i])[k]
        /\ \A k \in 1 .. Len(nals[i]) : f[i][lens[i] + k] = nals[i][k]
        /\ \A k \in 1 .. Len(f[i + 1]) : f[i][lens[i] + Len(nals[i]) + k] = f[i + 1][k]
  <2> SUFFICES ASSUME NEW i \in 1 .. n
               PROVE  /\ i \in 1 .. n + 1 /\ i + 1 \in 1 .. n + 1
                      /\ lens[i] \in Nat /\ Len(nals[i]) \in Nat
                      /\ Len(f[i]) = lens[i] + Len(nals[i]) + Len(f[i + 1])
                      /\ \A k \in 1 .. lens[i] : f[i][k] = StartCode(lens[i])[k]
                      /\ \A k \in 1 .. Len(nals[i]) : f[i][lens[i] + k] = nals[i][k]
                      /\ \A k \in 1 .. Len(f[i + 1]) : f[i][lens[i] + Len(nals[i]) + k] = f[i + 1][k]
    OBVIOUS
  <2> DEFINE p == Piece(nals, lens, i)
             r == f[i + 1]
             l == lens[i]
             u == Len(nals[i])
  <2>1. i \in 1 .. n + 1 /\ i + 1 \in 1 .. n + 1
    BY <1>2
  <2>2. p \in Seq(Nat)
    BY PieceFacts DEF n
  <2>3. /\ l \in Nat /\ u \in Nat /\ Len(p) = l + u
        /\ \A k \in 1 .. l : p[k] = StartCode(l)[k]
        /\ \A k \in 1 .. u : p[l + k] = nals[i][k]
    <3>1. i \in 1 .. Len(nals)
      BY DEF n
    <3> QED
      BY <3>1, PieceFacts
  <2>4. r \in Seq(Nat) /\ Len(r) \in Nat /\ f[i] = p \o r
    <3>1. r \in Seq(Nat)
      BY <1>1, <2>1
    <3>2. f[i] = p \o r
      BY <1>1
    <3> HIDE DEF r
    <3>3. Len(r) \in Nat
      BY <3>1
    <3> QED
      BY <3>1, <3>2, <3>3
  <2> HIDE DEF p, r, l, u
  <2>5. /\ Len(p \o r) = Len(p) + Len(r)
        /\ \A k \in 1 .. Len(p) + Len(r) : (p \o r)[k] = IF k <= Len(p) THEN p[k] ELSE r[k - Len(p)]
    BY <2>2, <2>4, ConcatProperties
  <2>6. /\ Len(f[i]) = l + u + Len(r)
        /\ \A k \in 1 .. l + u + Len(r) : f[i][k] = IF k <= l + u THEN p[k] ELSE r[k - (l + u)]
    BY <2>3, <2>4, <2>5
  <2>7. \A k \in 1 .. l : f[i][k] = StartCode(l)[k]
    <3> SUFFICES ASSUME NEW k \in 1 .. l PROVE f[i][k] = StartCode(l)[k]
      OBVIOUS
    <3>1. k \in 1 .. l + u + Len(r) /\ k <= l + u
      BY <2>3, <2>4
    <3> QED
      BY <3>1, <2>3, <2>6
  <2>8. \A k \in 1 .. u : f[i][l + k] = nals[i][k]
    <3> SUFFICES ASSUME NEW k \in 1 .. u PROVE f[i][l + k] = nals[i][k]
      OBVIOUS
    <3>1. l + k \in 1 .. l + u + Len(r) /\ l + k <= l + u
      BY <2>3, <2>4
    <3> QED
      BY <3>1, <2>3, <2>6
  <2>9. \A k \in 1 .. Len(r) : f[i][l + u + k] = r[k]
    <3> SUFFICES ASSUME NEW k \in 1 .. Len(r) PROVE f[i][l + u + k] = r[k]
      OBVIOUS
    <3>1. l + u + k \in 1 .. l + u + Len(r) /\ ~(l + u + k <= l + u) /\ (l + u + k) - (l + u) = k
      BY <2>3, <2>4
    <3> QED
      BY <3>1, <2>6
  <2> QED
    BY <2>1, <2>3, <2>6, <2>7, <2>8, <2>9 DEF r, l, u
<1>8. 1 \in G
  <2>1. at[1] = 0
    <3>1. at[1] = Len(data) - Len(data)
      BY <1>2, <1>4
    <3> HIDE DEF data
    <3> QED
      BY <3>1, <1>6
  <2>2. \A k \in 1 .. Len(f[1]) : data[0 + k] = f[1][k]
    BY <1>6
  <2> QED
    BY <1>2, <1>6, <2>1, <2>2
<1>9. ASSUME NEW i \in 1 .. (n + 1) - 1, i \in G PROVE i + 1 \in G
  <2> DEFINE d == lens[i] + Len(nals[i])
             m == Len(f[i + 1])
             a == at[i]
             b == at[i + 1]
  <2>1. i \in 1 .. n /\ i + 1 \in 1 .. n + 1 /\ i \in 1 .. n + 1
    BY <1>2
  <2>2. /\ lens[i] \in Nat /\ Len(nals[i]) \in Nat /\ d \in Nat
        /\ Len(f[i]) = d + m
        /\ \A k \in 1 .. m : f[i][d + k] = f[i + 1][k]
    BY <1>7, <2>1
  <2>3. m \in Nat /\ Len(f[i]) \in Nat /\ b = Len(data) - m /\ a = Len(data) - Len(f[i])
    BY <1>3, <1>4, <2>1
  <2>4. a \in Nat /\ \A k \in 1 .. Len(f[i]) : data[a + k] = f[i][k]
    BY <1>9
  <2> HIDE DEF d, m, a, b
  <2>5. b = a + d /\ b \in Nat /\ b + m = Len(data)
    BY <1>6, <2>2, <2>3, <2>4
  <2>6. \A k \in 1 .. m : data[b + k] = f[i + 1][k]
    <3> SUFFICES ASSUME NEW k \in 1 .. m PROVE data[b + k] = f[i + 1][k]
      OBVIOUS
    <3>1. d + k \in 1 .. Len(f[i]) /\ b + k = a + (d + k)
      <4>1. d \in Nat /\ m \in Nat /\ a \in Nat /\ b = a + d /\ Len(f[i]) = d + m
        BY <2>2, <2>3, <2>4, <2>5
      <4> QED
        BY <4>1
    <3>2. data[a + (d + k)] = f[i][d + k]
      BY <2>4, <3>1
    <3>3. f[i][d + k] = f[i + 1][k]
      BY <2>2
    <3> QED
      BY <3>1, <3>2, <3>3
  <2> QED
    BY <2>1, <2>5, <2>6 DEF b, m
<1>10. \A i \in 1 .. n + 1 : i \in G
  <2> HIDE DEF G
  <2> QED
    BY <1>2, <1>8, <1>9, CountingUp
<1>11. \A i \in 1 .. n + 1 : Fits(i)
  BY <1>10
<1>12. at \in [1 .. n + 1 -> Nat]
  BY <1>5, <1>11
<1>13. at[1] = 0 /\ at[n + 1] = Len(data)
  <2>1. Len(f[n + 1]) = 0
    BY <1>1
  <2>2. at[1] = Len(data) - Len(data) /\ at[n + 1] = Len(data) - Len(f[n + 1])
    BY <1>2, <1>4
  <2> HIDE DEF data
  <2> QED
    BY <1>6, <2>1, <2>2
<1> HIDE DEF G, data
<1>14. ASSUME NEW i \in 1 .. n
       PROVE  /\ at[i + 1] = at[i] + lens[i] + Len(nals[i])
              /\ at[i + 1] <= Len(data)
              /\ \A k \in 1 .. lens[i] : data[at[i] + k] = StartCode(lens[i])[k]
              /\ \A k \in 1 .. Len(nals[i]) : data[at[i] + lens[i] + k] = nals[i][k]
  <2> DEFINE l == lens[i]
             u == Len(nals[i])
             a == at[i]
             m == Len(f[i + 1])
  <2>1. /\ i \in 1 .. n + 1 /\ i + 1 \in 1 .. n + 1 /\ l \in Nat /\ u \in Nat
        /\ Len(f[i]) = l + u + m
        /\ \A k \in 1 .. l : f[i][k] = StartCode(l)[k]
        /\ \A k \in 1 .. u : f[i][l + k] = nals[i][k]
    BY <1>7
  <2>2. /\ a \in Nat /\ a + Len(f[i]) = Len(data)
        /\ \A k \in 1 .. Len(f[i]) : data[a + k] = f[i][k]
        /\ at[i + 1] \in Nat /\ at[i + 1] + m = Len(data)
    BY <1>11, <2>1
  <2>3. m \in Nat /\ Len(data) \in Nat
    BY <1>3, <1>6, <2>1
  <2> HIDE DEF l, u, a, m
  <2>4. at[i + 1] = a + l + u /\ at[i + 1] <= Len(data)
    <3>1. /\ l \in Nat /\ u \in Nat /\ a \in Nat /\ m \in Nat /\ at[i + 1] \in Nat
          /\ a + (l + u + m) = Len(data) /\ at[i + 1] + m = Len(data)
      BY <2>1, <2>2, <2>3
    <3> QED
      BY <3>1
  <2>5. \A k \in 1 .. l : data[a + k] = StartCode(l)[k]
    <3> SUFFICES ASSUME NEW k \in 1 .. l PROVE data[a + k] = StartCode(l)[k]
      OBVIOUS
    <3>1. k \in 1 .. Len(f[i])
      BY <2>1, <2>3
    <3> QED
      BY <3>1, <2>1, <2>2
  <2>6. \A k \in 1 .. u : data[a + l + k] = nals[i][k]
    <3> SUFFICES ASSUME NEW k \in 1 .. u PROVE data[a + l + k] = nals[i][k]
      OBVIOUS
    <3>1. l + k \in 1 .. Len(f[i]) /\ a + l + k = a + (l + k)
      BY <2>1, <2>2, <2>3
    <3>2. data[a + (l + k)] = f[i][l + k]
      BY <3>1, <2>2
    <3>3. f[i][l + k] = nals[i][k]
      BY <2>1
    <3> QED
      BY <3>1, <3>2, <3>3
  <2> QED
    BY <2>4, <2>5, <2>6 DEF l, u, a
<1>15. AnnexBOf(nals, lens) = data
  BY <1>1 DEF data
<1>16. Laid(data, nals, lens, at)
  BY <1>6, <1>12, <1>13, <1>14 DEF Laid, n
<1> QED
  BY <1>15, <1>16

-----------------------------------------------------------------------------
(* Splitting what was laid out. *)

\* No start code begins within a unit.
LEMMA NoCodeInUnit ==
  ASSUME NEW data \in Seq(Nat), NEW u, Clean(u), NEW a \in Nat, a + Len(u) <= Len(data),
         \A k \in 1 .. Len(u) : data[a + k] = u[k],
         NEW p \in a + 1 .. a + Len(u)
  PROVE  annexBStartCodeLen(data, p) = 0
<1> DEFINE l == Len(u)
           q == p - a
<1>1. l \in Nat /\ l > 0 /\ Len(data) \in Nat
  BY DEF Clean
<1>2. u[l] # 0 /\ \A k \in 1 .. l : k + 2 <= l => ~(u[k] = 0 /\ u[k + 1] = 0 /\ u[k + 2] = 1)
  BY DEF Clean
<1> HIDE DEF l
<1>3. q \in 1 .. l /\ p = a + q /\ p \in Nat
  BY <1>1 DEF l
<1> HIDE DEF q
<1>4. \A k \in 1 .. l : data[a + k] = u[k]
  BY DEF l
<1>5. \A j \in 0 .. 3 : q + j \in 1 .. l => data[p + j] = u[q + j]
  <2> SUFFICES ASSUME NEW j \in 0 .. 3, q + j \in 1 .. l PROVE data[p + j] = u[q + j]
    OBVIOUS
  <2>1. p + j = a + (q + j)
    <3>1. p = a + q /\ a \in Int /\ q \in Int /\ j \in Int
      BY <1>1, <1>3
    <3> QED
      BY <3>1
  <2> QED
    BY <1>4, <2>1
<1>6. /\ data[p] = u[q]
      /\ q + 1 <= l => data[p + 1] = u[q + 1]
      /\ q + 2 <= l => data[p + 2] = u[q + 2]
      /\ q + 3 <= l => data[p + 3] = u[q + 3]
  <2>1. data[p] = u[q]
    BY <1>3, <1>4
  <2>2. q + 1 <= l => data[p + 1] = u[q + 1]
    <3>1. q + 1 <= l => q + 1 \in 1 .. l
      BY <1>1, <1>3
    <3> QED
      BY <3>1, <1>5
  <2>3. q + 2 <= l => data[p + 2] = u[q + 2]
    <3>1. q + 2 <= l => q + 2 \in 1 .. l
      BY <1>1, <1>3
    <3> QED
      BY <3>1, <1>5
  <2>4. q + 3 <= l => data[p + 3] = u[q + 3]
    <3>1. q + 3 <= l => q + 3 \in 1 .. l
      BY <1>1, <1>3
    <3> QED
      BY <3>1, <1>5
  <2> QED
    BY <2>1, <2>2, <2>3, <2>4
<1>7. ~(data[p] = 0 /\ data[p + 1] = 0 /\ data[p + 2] = 1)
  <2> SUFFICES ASSUME data[p] = 0, data[p + 1] = 0, data[p + 2] = 1 PROVE FALSE
    OBVIOUS
  <2>1. CASE q = l
    BY <2>1, <1>2, <1>6
  <2>2. CASE q + 1 = l
    <3>1. data[p + 1] = u[l]
      BY <2>2, <1>1, <1>6
    <3> QED
      BY <3>1, <1>2
  <2>3. CASE q + 2 <= l
    <3>1. q + 1 <= l
      BY <2>3, <1>1, <1>3
    <3>2. u[q] = 0 /\ u[q + 1] = 0 /\ u[q + 2] = 1
      BY <2>3, <3>1, <1>6
    <3> QED
      BY <3>2, <2>3, <1>2, <1>3
  <2> QED
    BY <2>1, <2>2, <2>3, <1>1, <1>3
<1>8. ~(data[p] = 0 /\ data[p + 1] = 0 /\ data[p + 2] = 0 /\ data[p + 3] = 1)
  <2> SUFFICES ASSUME data[p] = 0, data[p + 1] = 0, data[p + 2] = 0, data[p + 3] = 1 PROVE FALSE
    OBVIOUS
  <2>1. CASE q = l
    BY <2>1, <1>2, <1>6
  <2>2. CASE q + 1 = l
    <3>1. data[p + 1] = u[l]
      BY <2>2, <1>1, <1>6
    <3> QED
      BY <3>1, <1>2
  <2>3. CASE q + 2 = l
    <3>1. data[p + 2] = u[l]
      BY <2>3, <1>1, <1>6
    <3> QED
      BY <3>1, <1>2
  <2>4. CASE q + 3 <= l
    <3>1. q + 1 <= l /\ q + 2 <= l /\ q + 1 \in 1 .. l /\ (q + 1) + 1 = q + 2 /\ (q + 1) + 2 = q + 3
      BY <2>4, <1>1, <1>3
    <3>2. u[q + 1] = 0 /\ u[q + 2] = 0 /\ u[q + 3] = 1
      BY <2>4, <3>1, <1>6
    <3>3. (q + 1) + 2 <= l => ~(u[q + 1] = 0 /\ u[(q + 1) + 1] = 0 /\ u[(q + 1) + 2] = 1)
      BY <3>1, <1>2
    <3> QED
      BY <3>1, <3>2, <3>3, <2>4
  <2> QED
    BY <2>1, <2>2, <2>3, <2>4, <1>1, <1>3
<1> QED
  BY <1>7, <1>8 DEF annexBStartCodeLen

\* A start code is found where it begins.
LEMMA CodeFound ==
  ASSUME NEW data \in Seq(Nat), NEW l \in {3, 4}, NEW a \in Nat, a + l <= Len(data),
         \A k \in 1 .. l : data[a + k] = StartCode(l)[k]
  PROVE  annexBStartCodeLen(data, a + 1) = l
<1>1. Len(data) \in Nat
  OBVIOUS
<1>2. (a + 1) + 1 = a + 2 /\ (a + 1) + 2 = a + 3 /\ (a + 1) + 3 = a + 4
  OBVIOUS
<1>3. CASE l = 3
  <2>1. StartCode(l) = <<0, 0, 1>>
    BY <1>3 DEF StartCode
  <2>2. 1 \in 1 .. l /\ 2 \in 1 .. l /\ 3 \in 1 .. l
    BY <1>3
  <2>3. data[a + 1] = 0 /\ data[a + 2] = 0 /\ data[a + 3] = 1
    <3>1. StartCode(l)[1] = 0 /\ StartCode(l)[2] = 0 /\ StartCode(l)[3] = 1
      BY <2>1
    <3> QED
      BY <2>2, <3>1
  <2>4. a + 3 <= Len(data)
    BY <1>3
  <2> QED
    BY <1>1, <1>2, <1>3, <2>3, <2>4 DEF annexBStartCodeLen
<1>4. CASE l = 4
  <2>1. StartCode(l) = <<0, 0, 0, 1>>
    BY <1>4 DEF StartCode
  <2>2. 1 \in 1 .. l /\ 2 \in 1 .. l /\ 3 \in 1 .. l /\ 4 \in 1 .. l
    BY <1>4
  <2>3. data[a + 1] = 0 /\ data[a + 2] = 0 /\ data[a + 3] = 0 /\ data[a + 4] = 1
    <3>1. /\ StartCode(l)[1] = 0 /\ StartCode(l)[2] = 0
          /\ StartCode(l)[3] = 0 /\ StartCode(l)[4] = 1
      BY <2>1
    <3>2. data[a + 1] = 0 /\ data[a + 2] = 0
      BY <2>2, <3>1
    <3>3. data[a + 3] = 0 /\ data[a + 4] = 1
      BY <2>2, <3>1
    <3> QED
      BY <3>2, <3>3
  <2>4. a + 4 <= Len(data)
    BY <1>4
  <2> QED
    BY <1>1, <1>2, <1>4, <2>3, <2>4 DEF annexBStartCodeLen
<1> QED
  BY <1>3, <1>4

\* The bytes of a unit, cut out.
LEMMA UnitCut ==
  ASSUME NEW data \in Seq(Nat), NEW u \in Seq(Nat), NEW a \in Nat, Len(u) > 0, a + Len(u) <= Len(data),
         \A k \in 1 .. Len(u) : data[a + k] = u[k]
  PROVE  SubSeq(data, a + 1, a + Len(u)) = u
<1> DEFINE l == Len(u)
           s == SubSeq(data, a + 1, a + l)
<1>1. l \in Nat /\ l > 0 /\ a + 1 \in Int /\ a + l \in Int /\ Len(data) \in Nat
  OBVIOUS
<1>2. \A i \in a + 1 .. a + l : data[i] \in Nat
  <2> SUFFICES ASSUME NEW i \in a + 1 .. a + l PROVE data[i] \in Nat
    OBVIOUS
  <2>1. i \in 1 .. Len(data)
    BY <1>1
  <2> QED
    BY <2>1
<1>3. /\ s \in Seq(Nat) /\ Len(s) = IF a + 1 <= a + l THEN (a + l) - (a + 1) + 1 ELSE 0
      /\ \A i \in 1 .. (a + l) - (a + 1) + 1 : s[i] = data[(a + 1) + i - 1]
  <2> HIDE DEF l
  <2> QED
    BY <1>1, <1>2, SubSeqProperties
<1> HIDE DEF l, s
<1>4. (a + l) - (a + 1) + 1 = l /\ a + 1 <= a + l
  BY <1>1
<1>5. s \in Seq(Nat) /\ Len(s) = l /\ \A i \in 1 .. l : s[i] = data[(a + 1) + i - 1]
  BY <1>3, <1>4
<1>6. \A i \in 1 .. l : s[i] = u[i]
  <2> SUFFICES ASSUME NEW i \in 1 .. l PROVE s[i] = u[i]
    OBVIOUS
  <2>1. (a + 1) + i - 1 = a + i
    BY <1>1
  <2>2. data[a + i] = u[i]
    BY DEF l
  <2> QED
    BY <1>5, <2>1, <2>2
<1>7. Len(u) = l
  BY DEF l
<1>8. s = u
  BY <1>5, <1>6, <1>7, SeqEqual
<1> QED
  BY <1>8 DEF s, l

\* r holds the units from i on.
Rest(r, nals, i) ==
  /\ r \in Seq(Seq(Nat)) /\ Len(r) = Len(nals) - i + 1
  /\ \A k \in 1 .. Len(r) : r[k] = nals[i + k - 1]

LEMMA RestGrows ==
  ASSUME NEW nals \in Seq(Seq(Nat)), NEW i \in 1 .. Len(nals), NEW r, Rest(r, nals, i + 1)
  PROVE  Rest(<<nals[i]>> \o r, nals, i)
<1> DEFINE n == Len(nals)
           one == <<nals[i]>>
           s == one \o r
<1>1. n \in Nat /\ i \in 1 .. n /\ nals[i] \in Seq(Nat)
  OBVIOUS
<1>2. one \in Seq(Seq(Nat)) /\ Len(one) = 1 /\ one[1] = nals[i]
  BY <1>1
<1> HIDE DEF n, one
<1>3. r \in Seq(Seq(Nat)) /\ Len(r) \in Nat /\ Len(r) = n - (i + 1) + 1
  BY DEF Rest, n
<1>4. \A k \in 1 .. Len(r) : r[k] = nals[(i + 1) + k - 1]
  BY DEF Rest
<1>5. /\ s \in Seq(Seq(Nat)) /\ Len(s) = Len(one) + Len(r)
      /\ \A k \in 1 .. Len(one) + Len(r) : s[k] = IF k <= Len(one) THEN one[k] ELSE r[k - Len(one)]
  BY <1>2, <1>3, ConcatProperties
<1> HIDE DEF s
<1>6. /\ Len(s) = 1 + Len(r)
      /\ \A k \in 1 .. 1 + Len(r) : s[k] = IF k <= 1 THEN one[k] ELSE r[k - 1]
  BY <1>2, <1>5
<1>7. Len(s) = n - i + 1
  <2>1. Len(s) = 1 + Len(r)
    BY <1>6
  <2> QED
    BY <2>1, <1>1, <1>3
<1>8. ASSUME NEW k \in 1 .. Len(s) PROVE s[k] = nals[i + k - 1]
  <2>1. k \in 1 .. 1 + Len(r) /\ k \in Nat
    BY <1>3, <1>6
  <2>2. s[k] = IF k <= 1 THEN one[k] ELSE r[k - 1]
    BY <1>6, <2>1
  <2>3. CASE k = 1
    <3>1. i + k - 1 = i
      BY <2>3, <1>1
    <3> QED
      BY <2>2, <2>3, <3>1, <1>2
  <2>4. CASE k # 1
    <3>1. k - 1 \in 1 .. Len(r) /\ ~(k <= 1) /\ (i + 1) + (k - 1) - 1 = i + k - 1
      BY <2>1, <2>4, <1>1, <1>3
    <3>2. r[k - 1] = nals[(i + 1) + (k - 1) - 1]
      BY <3>1, <1>4
    <3> QED
      BY <2>2, <3>1, <3>2
  <2> QED
    BY <2>3, <2>4
<1>9. Rest(s, nals, i)
  BY <1>5, <1>7, <1>8 DEF Rest, n
<1> QED
  BY <1>9 DEF s, one

\* Splitting a payload gives back the units it was laid out from.
LEMMA SplitLaid ==
  ASSUME NEW nals, NEW lens, Units(nals), Coded(nals, lens), Len(nals) > 0,
         NEW data, NEW at, Laid(data, nals, lens, at)
  PROVE  splitAnnexB(data) = nals
<1> DEFINE n == Len(nals)
           w == Len(data)
<1>1. /\ nals \in Seq(Seq(Nat)) /\ n \in Nat /\ n > 0 /\ data \in Seq(Nat) /\ w \in Nat
      /\ at[1] = 0 /\ at[n + 1] = w
  BY DEF Units, Laid
<1>2. PICK f : /\ splitAnnexB(data) = f[1]
               /\ \A start \in 1 .. w + 1 : f[start] = Turn(data, f, start)
  BY <1>1, SplitWalks
<1> HIDE DEF n, w
\* The places of unit i and of what follows it.
<1>3. ASSUME NEW i \in 1 .. n
      PROVE  /\ at[i] \in Nat /\ lens[i] \in {0, 3, 4} /\ Clean(nals[i])
             /\ nals[i] \in Seq(Nat) /\ Len(nals[i]) \in Nat /\ Len(nals[i]) > 0
             /\ at[i + 1] \in Nat /\ at[i + 1] = at[i] + lens[i] + Len(nals[i]) /\ at[i + 1] <= w
  <2>1. i \in 1 .. n + 1 /\ i + 1 \in 1 .. n + 1
    BY <1>1
  <2>2. at[i] \in Nat /\ at[i + 1] \in Nat
    BY <2>1 DEF Laid, n
  <2>3. at[i + 1] = at[i] + lens[i] + Len(nals[i]) /\ at[i + 1] <= w
    BY DEF Laid, n, w
  <2>4. lens[i] \in {0, 3, 4}
    BY DEF Coded, n
  <2>5. Clean(nals[i])
    BY DEF Units, n
  <2>6. nals[i] \in Seq(Nat) /\ Len(nals[i]) \in Nat /\ Len(nals[i]) > 0
    BY <2>5 DEF Clean
  <2> QED
    BY <2>2, <2>3, <2>4, <2>5, <2>6
<1>4. ASSUME NEW i \in 1 .. n
      PROVE  \A k \in 1 .. Len(nals[i]) : data[at[i] + lens[i] + k] = nals[i][k]
  BY DEF Laid, n
<1>5. ASSUME NEW i \in 1 .. n, lens[i] # 0
      PROVE  annexBStartCodeLen(data, at[i] + 1) = lens[i]
  <2> DEFINE a == at[i]
             l == lens[i]
  <2>1. \A k \in 1 .. l : data[a + k] = StartCode(l)[k]
    BY DEF Laid, n
  <2>2. a \in Nat /\ l \in {3, 4} /\ a + l <= w
    <3>1. /\ a \in Nat /\ l \in {0, 3, 4} /\ Len(nals[i]) \in Nat /\ at[i + 1] \in Nat
          /\ at[i + 1] = a + l + Len(nals[i]) /\ at[i + 1] <= w
      BY <1>3
    <3>2. l # 0 /\ w \in Nat
      BY <1>1, <1>5
    <3> HIDE DEF a, l
    <3>3. l \in {3, 4}
      BY <3>1, <3>2
    <3> DEFINE e == at[i + 1]
               u == Len(nals[i])
    <3>4. a \in Nat /\ l \in Nat /\ u \in Nat /\ e = a + l + u /\ e <= w /\ w \in Nat
      <4>1. l \in Nat
        BY <3>3
      <4>2. a \in Nat /\ u \in Nat /\ w \in Nat
        BY <3>1, <3>2
      <4>3. e = a + l + u /\ e <= w
        BY <3>1
      <4> QED
        BY <4>1, <4>2, <4>3
    <3> HIDE DEF e, u
    <3>5. a + l <= w
      BY <3>4
    <3> QED
      BY <3>3, <3>4, <3>5
  <2> HIDE DEF a, l
  <2>3. annexBStartCodeLen(data, a + 1) = l
    BY <2>1, <2>2, <1>1, CodeFound DEF w
  <2> QED
    BY <2>3 DEF a, l
<1> DEFINE Start(i) == at[i] + lens[i] + 1
           G == {i \in 1 .. n : Rest(f[Start(i)], nals, i)}
\* The turn at a unit: nothing is found before the unit's end.
<1>6. ASSUME NEW i \in 1 .. n
      PROVE  /\ Start(i) \in 1 .. w + 1 /\ Start(i) <= w /\ Start(i) <= at[i + 1]
             /\ \A p \in Codes(data, Start(i)) : p > at[i + 1]
             /\ SubSeq(data, Start(i), at[i + 1]) = nals[i]
             /\ f[Start(i)] = Turn(data, f, Start(i))
  <2> DEFINE a == at[i] + lens[i]
             u == nals[i]
  <2>1. /\ a \in Nat /\ u \in Seq(Nat) /\ Clean(u) /\ Len(u) \in Nat /\ Len(u) > 0
        /\ at[i + 1] = a + Len(u) /\ a + Len(u) <= w /\ Start(i) = a + 1
    <3>1. /\ at[i] \in Nat /\ lens[i] \in {0, 3, 4} /\ Len(u) \in Nat /\ Len(u) > 0
          /\ at[i + 1] = at[i] + lens[i] + Len(u) /\ at[i + 1] <= w
      BY <1>3
    <3>2. u \in Seq(Nat) /\ Clean(u)
      BY <1>3
    <3> HIDE DEF u
    <3>3. a \in Nat
      BY <3>1
    <3> QED
      BY <3>1, <3>2, <3>3
  <2>2. \A k \in 1 .. Len(u) : data[a + k] = u[k]
    BY <1>4
  <2> HIDE DEF a, u, Start
  <2>3. Start(i) \in 1 .. w + 1 /\ Start(i) <= w /\ Start(i) <= at[i + 1]
    BY <2>1, <1>1
  <2>4. SubSeq(data, Start(i), at[i + 1]) = u
    <3>1. SubSeq(data, a + 1, a + Len(u)) = u
      BY <2>1, <2>2, <1>1, UnitCut DEF w
    <3> QED
      BY <3>1, <2>1
  <2>5. \A p \in Codes(data, Start(i)) : p > at[i + 1]
    <3> SUFFICES ASSUME NEW p \in Codes(data, Start(i)), ~(p > at[i + 1]) PROVE FALSE
      OBVIOUS
    <3>1. p \in Start(i) .. w /\ annexBStartCodeLen(data, p) > 0
      BY DEF Codes, w
    <3>2. p \in a + 1 .. a + Len(u)
      BY <3>1, <2>1, <1>1
    <3>3. annexBStartCodeLen(data, p) = 0
      BY <3>2, <2>1, <2>2, <1>1, NoCodeInUnit DEF w
    <3> QED
      BY <3>1, <3>3
  <2> QED
    BY <2>3, <2>4, <2>5, <1>2 DEF u
<1> HIDE DEF Start
<1>7. n \in G
  <2>1. n \in 1 .. n
    BY <1>1
  <2>2. /\ Start(n) <= w /\ f[Start(n)] = Turn(data, f, Start(n))
        /\ \A p \in Codes(data, Start(n)) : p > w
        /\ SubSeq(data, Start(n), w) = nals[n]
    BY <1>1, <1>6, <2>1
  <2>3. Codes(data, Start(n)) = {}
    <3> SUFFICES ASSUME NEW p \in Codes(data, Start(n)) PROVE FALSE
      OBVIOUS
    <3>1. p > w
      BY <2>2
    <3>2. p <= w /\ p \in Int
      BY DEF Codes, w
    <3> QED
      BY <3>1, <3>2, <1>1
  <2>4. f[Start(n)] = <<nals[n]>>
    BY <2>2, <2>3 DEF Turn, Codes, w
  <2>5. Rest(<<nals[n]>>, nals, n)
    <3>1. nals[n] \in Seq(Nat)
      BY <1>3, <2>1
    <3>2. <<nals[n]>> \in Seq(Seq(Nat)) /\ Len(<<nals[n]>>) = 1
      BY <3>1
    <3>3. n - n + 1 = 1 /\ n + 1 - 1 = n
      BY <1>1
    <3> QED
      BY <3>2, <3>3 DEF Rest, n
  <2> QED
    BY <2>1, <2>4, <2>5
<1>8. ASSUME NEW i \in 1 .. n - 1, i + 1 \in G PROVE i \in G
  <2> DEFINE j == i + 1
             b == at[j]
             C == Codes(data, Start(i))
  <2>1. i \in 1 .. n /\ j \in 1 .. n /\ j \in 2 .. n
    BY <1>1
  <2>2. lens[j] \in {3, 4}
    <3>1. lens[j] \in {0, 3, 4}
      BY <1>3, <2>1
    <3>2. lens[j] # 0
      BY <2>1 DEF Coded, n
    <3> QED
      BY <3>1, <3>2
  <2>3. /\ b \in Nat /\ at[j + 1] \in Nat /\ Len(nals[j]) \in Nat /\ at[j + 1] = b + lens[j] + Len(nals[j]) /\ at[j + 1] <= w
        /\ nals[i] \in Seq(Nat)
    BY <1>3, <2>1
  <2>4. annexBStartCodeLen(data, b + 1) = lens[j]
    BY <1>5, <2>1, <2>2
  <2>5. /\ Start(i) \in 1 .. w + 1 /\ Start(i) <= b /\ f[Start(i)] = Turn(data, f, Start(i))
        /\ SubSeq(data, Start(i), b) = nals[i]
    BY <1>6, <2>1
  <2>6. \A p \in C : p > b
    BY <1>6, <2>1
  <2>7. Start(j) = b + 1 + lens[j]
    <3>1. Start(j) = b + lens[j] + 1
      BY DEF Start
    <3>2. b \in Nat /\ lens[j] \in Nat
      BY <2>2, <2>3
    <3> QED
      BY <3>1, <3>2
  <2>8. Rest(f[Start(j)], nals, j)
    BY <1>8
  <2> HIDE DEF j, b
  <2>9. b + 1 \in C
    <3>1. b + 1 \in Start(i) .. w
      <4>1. w \in Nat /\ b \in Nat /\ Start(i) \in 1 .. w + 1 /\ Start(i) <= b
        BY <1>1, <2>3, <2>5
      <4>2. b + lens[j] + Len(nals[j]) <= w /\ Len(nals[j]) \in Nat
        <5>1. at[j + 1] = b + lens[j] + Len(nals[j]) /\ at[j + 1] <= w /\ Len(nals[j]) \in Nat
          BY <2>3
        <5> QED
          BY <5>1
      <4>3. b + 1 <= w
        <5>1. lens[j] \in Nat /\ lens[j] > 0
          BY <2>2
        <5> QED
          BY <4>1, <4>2, <5>1
      <4> QED
        BY <4>1, <4>3
    <3>2. annexBStartCodeLen(data, b + 1) > 0
      BY <2>2, <2>4
    <3> QED
      BY <3>1, <3>2 DEF Codes, w
  <2>10. Min(C) = b + 1
    <3>1. C # {}
      BY <2>9
    <3>2. Min(C) \in C /\ \A p \in C : Min(C) <= p
      BY <3>1, <2>5, <1>1, FirstCode DEF w
    <3>3. Min(C) \in Int
      BY <3>2 DEF Codes
    <3>4. Min(C) > b /\ Min(C) <= b + 1
      BY <3>2, <2>6, <2>9
    <3> QED
      BY <3>3, <3>4, <2>3
  <2>11. Turn(data, f, Start(i)) = <<SubSeq(data, Start(i), (b + 1) - 1)>> \o f[b + 1 + lens[j]]
    <3>1. b + 1 > Start(i)
      BY <2>3, <2>5
    <3>2. C # {}
      BY <2>9
    <3>3. Turn(data, f, Start(i)) =
            (IF Min(C) > Start(i) THEN <<SubSeq(data, Start(i), Min(C) - 1)>> ELSE <<>>)
              \o f[Min(C) + annexBStartCodeLen(data, Min(C))]
      BY <3>2 DEF Turn, Codes
    <3> QED
      BY <3>1, <3>3, <2>4, <2>10
  <2>12. (b + 1) - 1 = b
    BY <2>3
  <2>13. f[Start(i)] = <<nals[i]>> \o f[Start(j)]
    BY <2>5, <2>7, <2>11, <2>12
  <2>14. Rest(f[Start(i)], nals, i)
    BY <2>1, <2>8, <2>13, <1>1, RestGrows DEF j, n
  <2> QED
    BY <2>1, <2>14
<1>9. \A i \in 1 .. n : i \in G
  <2> HIDE DEF G
  <2> QED
    BY <1>1, <1>7, <1>8, CountingDown
<1>10. Rest(f[Start(1)], nals, 1) /\ 1 \in 1 .. n
  BY <1>1, <1>9
<1>11. f[Start(1)] = nals
  <2> DEFINE r == f[Start(1)]
  <2>1. r \in Seq(Seq(Nat)) /\ Len(r) = n - 1 + 1 /\ \A k \in 1 .. Len(r) : r[k] = nals[1 + k - 1]
    BY <1>10 DEF Rest, n
  <2> HIDE DEF r
  <2>2. Len(r) = Len(nals)
    BY <1>1, <2>1 DEF n
  <2>3. \A k \in 1 .. Len(r) : r[k] = nals[k]
    BY <2>1
  <2>4. r = nals
    BY <1>1, <2>1, <2>2, <2>3, SeqEqual
  <2> QED
    BY <2>4 DEF r
<1>12. f[1] = f[Start(1)]
  <2>1. CASE lens[1] = 0
    <3>1. Start(1) = 1
      BY <2>1, <1>1 DEF Start
    <3> QED
      BY <3>1
  <2>2. CASE lens[1] # 0
    <3> DEFINE C == Codes(data, 1)
    <3>1. lens[1] \in {3, 4} /\ Start(1) = 1 + lens[1]
      BY <2>2, <1>1, <1>3, <1>10 DEF Start
    <3>2. annexBStartCodeLen(data, 0 + 1) = lens[1]
      BY <2>2, <1>1, <1>5, <1>10
    <3>3. annexBStartCodeLen(data, 1) = lens[1]
      BY <3>2
    <3>4. w >= 1 /\ 1 \in 1 .. w + 1 /\ 1 \in 1 .. w
      <4>1. Start(1) <= w
        BY <1>6, <1>10
      <4> QED
        BY <4>1, <3>1, <1>1
    <3>5. 1 \in C
      BY <3>1, <3>3, <3>4 DEF Codes, w
    <3>6. Min(C) = 1
      <4>1. C # {}
        BY <3>5
      <4>2. Min(C) \in C /\ \A p \in C : Min(C) <= p
        BY <4>1, <3>4, <1>1, FirstCode DEF w
      <4>3. Min(C) \in 1 .. w /\ Min(C) <= 1
        BY <4>2, <3>5 DEF Codes, w
      <4> QED
        BY <4>3, <1>1
    <3>7. Turn(data, f, 1) = <<>> \o f[1 + lens[1]]
      <4>1. C # {}
        BY <3>5
      <4>2. Turn(data, f, 1) =
              (IF Min(C) > 1 THEN <<SubSeq(data, 1, Min(C) - 1)>> ELSE <<>>)
                \o f[Min(C) + annexBStartCodeLen(data, Min(C))]
        BY <4>1 DEF Turn, Codes
      <4>3. ~(Min(C) > 1) /\ Min(C) + annexBStartCodeLen(data, Min(C)) = 1 + lens[1]
        BY <3>3, <3>6
      <4> HIDE DEF C
      <4> QED
        BY <4>2, <4>3, Zenon
    <3>8. f[1 + lens[1]] \in Seq(Seq(Nat))
      BY <1>1, <1>11, <3>1
    <3>9. f[1] = <<>> \o f[1 + lens[1]]
      BY <1>2, <3>4, <3>7
    <3> QED
      BY <3>1, <3>8, <3>9, ConcatEmptySeq
  <2> QED
    BY <2>1, <2>2
<1> QED
  BY <1>2, <1>11, <1>12

\* Whatever the units of a frame, as long as none is empty, holds a start code or ends
\* with a zero byte, and whichever start codes the camera puts before them, with or
\* without the first: splitAnnexB gives back exactly these units.
THEOREM SplitRoundTrip ==
  ASSUME NEW nals, NEW lens, Units(nals), Coded(nals, lens), Len(nals) > 0
  PROVE  splitAnnexB(AnnexBOf(nals, lens)) = nals
BY PayloadLaid, SplitLaid

-----------------------------------------------------------------------------
(* Packing units as AVCC. *)

LEMMA PrefixedType ==
  ASSUME NEW u \in Seq(Nat)
  PROVE  Prefixed(u) \in Seq(Nat)
<1>1. <<0, 0, 0, Len(u)>> \in Seq(Nat)
  OBVIOUS
<1> QED
  BY <1>1, ConcatProperties DEF Prefixed

\* f[i] is what the units from i on are packed to.
PackedFrom(f, nals, skip) ==
  /\ Packed(nals, skip) = f[1]
  /\ f[Len(nals) + 1] = <<>>
  /\ \A i \in 1 .. Len(nals) : f[i] = (IF i \in skip THEN <<>> ELSE Prefixed(nals[i])) \o f[i + 1]
  /\ \A i \in 1 .. Len(nals) + 1 : f[i] \in Seq(Nat)

LEMMA PackedJoins ==
  ASSUME NEW nals \in Seq(Seq(Nat)), NEW skip
  PROVE  \E f : PackedFrom(f, nals, skip)
<1> DEFINE n == Len(nals)
           Out(i) == IF i \in skip THEN <<>> ELSE Prefixed(nals[i])
           h == [i \in 1 .. n |-> Out(i)]
           Packs(f) == f = [i \in 1 .. n + 1 |-> IF i > n THEN <<>> ELSE Out(i) \o f[i + 1]]
           f == CHOOSE f : Packs(f)
<1>1. n \in Nat
  OBVIOUS
<1>2. \A i \in 1 .. n : h[i] = Out(i) /\ Out(i) \in Seq(Nat)
  <2> SUFFICES ASSUME NEW i \in 1 .. n PROVE h[i] = Out(i) /\ Out(i) \in Seq(Nat)
    OBVIOUS
  <2>1. Prefixed(nals[i]) \in Seq(Nat)
    BY PrefixedType
  <2>2. <<>> \in Seq(Nat)
    OBVIOUS
  <2>3. Out(i) \in Seq(Nat)
    BY <2>1, <2>2
  <2> HIDE DEF Out
  <2> QED
    BY <2>3
<1>3. Packed(nals, skip) = f[1]
  BY DEF Packed
<1> HIDE DEF n, h, Out
<1>4. \A g : Joins(g, h, n) <=> Packs(g)
  <2> SUFFICES ASSUME NEW g PROVE Joins(g, h, n) <=> Packs(g)
    OBVIOUS
  <2>1. \A i \in 1 .. n + 1 : Join(g, h, n, i) = IF i > n THEN <<>> ELSE Out(i) \o g[i + 1]
    <3> SUFFICES ASSUME NEW i \in 1 .. n + 1
                 PROVE  Join(g, h, n, i) = IF i > n THEN <<>> ELSE Out(i) \o g[i + 1]
      OBVIOUS
    <3>1. i > n \/ i \in 1 .. n
      BY <1>1
    <3> QED
      BY <3>1, <1>2 DEF Join
  <2>2. [i \in 1 .. n + 1 |-> Join(g, h, n, i)] = [i \in 1 .. n + 1 |-> IF i > n THEN <<>> ELSE Out(i) \o g[i + 1]]
    BY <2>1
  <2> QED
    BY <2>2 DEF Joins
<1>5. Packs(f)
  <2>1. \E g : Packs(g)
    BY <1>1, <1>4, JoinExists
  <2> QED
    BY <2>1, Zenon
<1> HIDE DEF f
<1>6. Joins(f, h, n)
  BY <1>4, <1>5
<1>7. /\ f[n + 1] = <<>>
      /\ \A i \in 1 .. n : f[i] = h[i] \o f[i + 1]
      /\ \A i \in 1 .. n + 1 : f[i] \in Seq(Nat)
  BY <1>1, <1>2, <1>6, JoinFacts
<1>8. \A i \in 1 .. n : f[i] = Out(i) \o f[i + 1]
  BY <1>2, <1>7
<1>9. PackedFrom(f, nals, skip)
  BY <1>3, <1>7, <1>8 DEF n, Out, PackedFrom
<1> QED
  BY <1>9

\* Units that are skipped leave no trace.
LEMMA PackedTail ==
  ASSUME NEW a \in Seq(Seq(Nat)), NEW b \in Seq(Seq(Nat))
  PROVE  Packed(a \o b, 1 .. Len(a)) = Packed(b, {})
<1> DEFINE m == Len(a)
           n == Len(b)
           c == a \o b
<1>1. m \in Nat /\ n \in Nat
  OBVIOUS
<1>2. c \in Seq(Seq(Nat)) /\ Len(c) = m + n /\ \A i \in 1 .. m + n : c[i] = IF i <= m THEN a[i] ELSE b[i - m]
  BY ConcatProperties
<1> HIDE DEF c, m, n
<1>3. PICK f : /\ Packed(c, 1 .. m) = f[1]
               /\ f[Len(c) + 1] = <<>>
               /\ \A i \in 1 .. Len(c) : f[i] = (IF i \in 1 .. m THEN <<>> ELSE Prefixed(c[i])) \o f[i + 1]
               /\ \A i \in 1 .. Len(c) + 1 : f[i] \in Seq(Nat)
  <2>1. PICK f : PackedFrom(f, c, 1 .. m)
    BY <1>2, PackedJoins
  <2> QED
    BY <2>1 DEF PackedFrom
<1>4. PICK g : /\ Packed(b, {}) = g[1]
               /\ g[n + 1] = <<>>
               /\ \A i \in 1 .. n : g[i] = (IF i \in {} THEN <<>> ELSE Prefixed(b[i])) \o g[i + 1]
               /\ \A i \in 1 .. n + 1 : g[i] \in Seq(Nat)
  <2>1. PICK g : PackedFrom(g, b, {})
    BY PackedJoins
  <2> QED
    BY <2>1 DEF PackedFrom, n
<1> DEFINE H == {i \in 1 .. n + 1 : f[m + i] = g[i]}
<1>5. n + 1 \in H /\ n + 1 \in Nat
  <2>1. m + (n + 1) = Len(c) + 1 /\ n + 1 \in 1 .. n + 1 /\ n + 1 \in Nat
    BY <1>1, <1>2
  <2> QED
    BY <2>1, <1>3, <1>4
<1>6. ASSUME NEW i \in 1 .. (n + 1) - 1, i + 1 \in H PROVE i \in H
  <2>1. /\ i \in 1 .. n /\ i \in 1 .. n + 1 /\ m + i \in 1 .. m + n /\ m + i \notin 1 .. m /\ ~(m + i <= m)
        /\ (m + i) - m = i /\ (m + i) + 1 = m + (i + 1)
    BY <1>1
  <2>2. m + i \in 1 .. Len(c)
    BY <1>2, <2>1
  <2>3. c[m + i] = b[i]
    BY <1>2, <2>1
  <2>4. f[m + i] = Prefixed(b[i]) \o f[m + (i + 1)]
    BY <1>3, <2>1, <2>2, <2>3
  <2>5. g[i] = Prefixed(b[i]) \o g[i + 1]
    BY <1>4, <2>1
  <2>6. f[m + (i + 1)] = g[i + 1]
    BY <1>6
  <2> QED
    BY <2>1, <2>4, <2>5, <2>6
<1>7. \A i \in 1 .. n + 1 : i \in H
  <2> HIDE DEF H
  <2> QED
    BY <1>5, <1>6, CountingDown
<1>8. f[m + 1] = g[1]
  BY <1>1, <1>7
<1> DEFINE G == {i \in 1 .. m + 1 : f[i] = f[m + 1]}
<1>9. m + 1 \in G /\ m + 1 \in Nat
  BY <1>1
<1>10. ASSUME NEW i \in 1 .. (m + 1) - 1, i + 1 \in G PROVE i \in G
  <2>1. i \in 1 .. m /\ i \in 1 .. m + 1 /\ i \in 1 .. m + n /\ i + 1 \in 1 .. m + n + 1
    BY <1>1
  <2>2. i \in 1 .. Len(c) /\ i + 1 \in 1 .. Len(c) + 1
    BY <1>2, <2>1
  <2>3. f[i] = <<>> \o f[i + 1]
    BY <1>3, <2>1, <2>2
  <2>4. f[i + 1] \in Seq(Nat)
    BY <1>3, <2>2
  <2>5. f[i] = f[i + 1]
    BY <2>3, <2>4, ConcatEmptySeq
  <2> QED
    BY <2>1, <2>5, <1>10
<1>11. \A i \in 1 .. m + 1 : i \in G
  <2> HIDE DEF G
  <2> QED
    BY <1>9, <1>10, CountingDown
<1>12. f[1] = f[m + 1]
  BY <1>1, <1>11
<1>13. Packed(c, 1 .. m) = Packed(b, {})
  BY <1>3, <1>4, <1>8, <1>12
<1> QED
  BY <1>13 DEF c, m

\* The sample of a frame holds its units but the parameter sets, each behind its length.
LEMMA SampleOfUnits ==
  ASSUME NEW nals, NEW lens, Units(nals), Coded(nals, lens), Len(nals) > 0, NEW c
  PROVE  videoPayloadToAVCC(AnnexBOf(nals, lens), c) =
           Packed(nals, {i \in DOMAIN nals : isParamSetNALU(nals[i], c)})
<1>1. splitAnnexB(AnnexBOf(nals, lens)) = nals
  BY SplitRoundTrip
<1>2. nals # <<>>
  BY DEF Units
<1> QED
  BY <1>1, <1>2 DEF videoPayloadToAVCC

-----------------------------------------------------------------------------
(* The camera's units. *)

\* A unit of two bytes that ends with a version.
LEMMA CleanPair ==
  ASSUME NEW x \in Nat, NEW v \in Versions
  PROVE  Clean(<<x, v>>)
<1>1. v \in Nat \ {0}
  BY VersionAssumption
<1>2. <<x, v>> \in Seq(Nat) /\ Len(<<x, v>>) = 2 /\ <<x, v>>[2] = v
  BY <1>1
<1> QED
  BY <1>1, <1>2 DEF Clean

LEMMA CleanUnits ==
  /\ \A v \in Versions : Clean(<<103, v>>) /\ Clean(<<104, v>>)
  /\ \A v \in Versions : Clean(<<64, v>>) /\ Clean(<<66, v>>) /\ Clean(<<68, v>>)
  /\ Clean(<<6, 5>>) /\ Clean(<<101, 136>>) /\ Clean(<<78, 5>>) /\ Clean(<<38, 1>>)
  /\ Clean(<<65, 0, 1>>) /\ Clean(<<2, 1>>)
<1>1. ASSUME NEW x \in Nat, NEW y \in Nat \ {0} PROVE Clean(<<x, y>>)
  <2>1. <<x, y>> \in Seq(Nat) /\ Len(<<x, y>>) = 2 /\ <<x, y>>[2] = y
    OBVIOUS
  <2> QED
    BY <2>1 DEF Clean
<1>2. \A v \in Versions : v \in Nat \ {0}
  BY VersionAssumption
<1>3. Clean(<<65, 0, 1>>)
  <2> DEFINE u == <<65, 0, 1>>
  <2>1. u \in Seq(Nat) /\ Len(u) = 3 /\ u[1] = 65 /\ u[3] = 1
    OBVIOUS
  <2> HIDE DEF u
  <2>2. \A k \in 1 .. 3 : k + 2 <= 3 => k = 1
    OBVIOUS
  <2>3. Clean(u)
    BY <2>1, <2>2 DEF Clean
  <2> QED
    BY <2>3 DEF u
<1> QED
  BY <1>1, <1>2, <1>3

LEMMA UnitsOfOne ==
  ASSUME NEW x, Clean(x)
  PROVE  Units(<<x>>)
<1>1. x \in Seq(Nat)
  BY DEF Clean
<1>2. <<x>> \in Seq(Seq(Nat)) /\ Len(<<x>>) = 1 /\ <<x>>[1] = x
  BY <1>1
<1>3. \A i \in 1 .. Len(<<x>>) : Clean(<<x>>[i])
  BY <1>2
<1> QED
  BY <1>2, <1>3 DEF Units

LEMMA UnitsOfTwo ==
  ASSUME NEW x, NEW y, Clean(x), Clean(y)
  PROVE  Units(<<x, y>>)
<1>1. x \in Seq(Nat) /\ y \in Seq(Nat)
  BY DEF Clean
<1>2. <<x, y>> \in Seq(Seq(Nat)) /\ Len(<<x, y>>) = 2 /\ <<x, y>>[1] = x /\ <<x, y>>[2] = y
  BY <1>1
<1>3. \A i \in 1 .. Len(<<x, y>>) : Clean(<<x, y>>[i])
  <2>1. \A i \in 1 .. 2 : i = 1 \/ i = 2
    OBVIOUS
  <2> QED
    BY <2>1, <1>2
<1> QED
  BY <1>2, <1>3 DEF Units

LEMMA UnitsOfThree ==
  ASSUME NEW x, NEW y, NEW z, Clean(x), Clean(y), Clean(z)
  PROVE  Units(<<x, y, z>>)
<1> DEFINE s == <<x, y, z>>
<1>1. x \in Seq(Nat) /\ y \in Seq(Nat) /\ z \in Seq(Nat)
  BY DEF Clean
<1>2. s \in Seq(Seq(Nat)) /\ Len(s) = 3 /\ s[1] = x /\ s[2] = y /\ s[3] = z
  BY <1>1
<1> HIDE DEF s
<1>3. \A i \in 1 .. 3 : i = 1 \/ i = 2 \/ i = 3
  OBVIOUS
<1>4. \A i \in 1 .. Len(s) : Clean(s[i])
  BY <1>2, <1>3
<1>5. Units(s)
  BY <1>2, <1>4 DEF Units
<1> QED
  BY <1>5 DEF s

LEMMA UnitsJoined ==
  ASSUME NEW a, NEW b, Units(a), Units(b)
  PROVE  Units(a \o b) /\ Len(a \o b) = Len(a) + Len(b)
<1> DEFINE c == a \o b
<1>1. a \in Seq(Seq(Nat)) /\ b \in Seq(Seq(Nat)) /\ Len(a) \in Nat /\ Len(b) \in Nat
  BY DEF Units
<1>2. /\ c \in Seq(Seq(Nat)) /\ Len(c) = Len(a) + Len(b)
      /\ \A i \in 1 .. Len(a) + Len(b) : c[i] = IF i <= Len(a) THEN a[i] ELSE b[i - Len(a)]
  BY <1>1, ConcatProperties
<1> HIDE DEF c
<1>3. ASSUME NEW i \in 1 .. Len(c) PROVE Clean(c[i])
  <2>1. i \in 1 .. Len(a) + Len(b)
    BY <1>2
  <2>2. CASE i <= Len(a)
    <3>1. i \in 1 .. Len(a) /\ c[i] = a[i]
      BY <1>1, <1>2, <2>1, <2>2
    <3> QED
      BY <3>1 DEF Units
  <2>3. CASE ~(i <= Len(a))
    <3>1. i - Len(a) \in 1 .. Len(b)
      BY <1>1, <2>1, <2>3
    <3>2. c[i] = b[i - Len(a)]
      BY <1>2, <2>1, <2>3
    <3> QED
      BY <3>1, <3>2 DEF Units
  <2> QED
    BY <2>2, <2>3
<1>4. Units(c) /\ Len(c) = Len(a) + Len(b)
  BY <1>2, <1>3 DEF Units
<1> QED
  BY <1>4 DEF c

\* The type of a unit of two bytes is in the first.
LEMMA TypeOfTwo ==
  ASSUME NEW x \in Nat, NEW y \in Nat
  PROVE  /\ Len(<<x, y>>) = 2
         /\ nalType(<<x, y>>, "h264") = x % 32
         /\ nalType(<<x, y>>, "h265") = (x % 128) \div 2
<1>1. Len(<<x, y>>) = 2 /\ <<x, y>>[1] = x
  OBVIOUS
<1> QED
  BY <1>1 DEF nalType

\* The types of the camera's units.
LEMMA TypesOfUnits ==
  ASSUME NEW v \in Versions
  PROVE  /\ nalType(<<103, v>>, "h264") = 7 /\ nalType(<<104, v>>, "h264") = 8
         /\ nalType(<<64, v>>, "h265") = 32 /\ nalType(<<66, v>>, "h265") = 33
         /\ nalType(<<68, v>>, "h265") = 34
         /\ nalType(<<6, 5>>, "h264") = 6 /\ nalType(<<101, 136>>, "h264") = 5
         /\ nalType(<<65, 0, 1>>, "h264") = 1
         /\ nalType(<<78, 5>>, "h265") = 39 /\ nalType(<<38, 1>>, "h265") = 19
         /\ nalType(<<2, 1>>, "h265") = 1
<1>1. v \in Nat
  BY VersionAssumption
<1>2. /\ 103 % 32 = 7 /\ 104 % 32 = 8 /\ 6 % 32 = 6 /\ 101 % 32 = 5 /\ 65 % 32 = 1
      /\ (64 % 128) \div 2 = 32 /\ (66 % 128) \div 2 = 33 /\ (68 % 128) \div 2 = 34
      /\ (78 % 128) \div 2 = 39 /\ (38 % 128) \div 2 = 19 /\ (2 % 128) \div 2 = 1
  OBVIOUS
<1>3. nalType(<<65, 0, 1>>, "h264") = 65 % 32
  BY DEF nalType
<1>4. nalType(<<103, v>>, "h264") = 103 % 32 /\ nalType(<<104, v>>, "h264") = 104 % 32
  BY <1>1, TypeOfTwo
<1>5. /\ nalType(<<64, v>>, "h265") = (64 % 128) \div 2 /\ nalType(<<66, v>>, "h265") = (66 % 128) \div 2
      /\ nalType(<<68, v>>, "h265") = (68 % 128) \div 2
  BY <1>1, TypeOfTwo
<1>6. nalType(<<6, 5>>, "h264") = 6 % 32 /\ nalType(<<101, 136>>, "h264") = 101 % 32
  BY TypeOfTwo
<1>7. /\ nalType(<<78, 5>>, "h265") = (78 % 128) \div 2 /\ nalType(<<38, 1>>, "h265") = (38 % 128) \div 2
      /\ nalType(<<2, 1>>, "h265") = (2 % 128) \div 2
  BY TypeOfTwo
<1> QED
  BY <1>2, <1>3, <1>4, <1>5, <1>6, <1>7

\* The camera sends one of two codecs.
CodecType == codec \in {"h264", "h265"}

LEMMA UnitsSent ==
  ASSUME CodecType, NEW v \in Versions
  PROVE  /\ Units(ParamNals(v)) /\ Len(ParamNals(v)) > 0
         /\ Units(KeyNals) /\ Len(KeyNals) > 0
         /\ Units(DeltaNals) /\ Len(DeltaNals) > 0
<1>1. CASE codec = "h264"
  <2> DEFINE p == <<103, v>>
             q == <<104, v>>
             r == <<6, 5>>
             s == <<101, 136>>
             t == <<65, 0, 1>>
  <2>1. ParamNals(v) = <<p, q>> /\ KeyNals = <<r, s>> /\ DeltaNals = <<t>>
    BY <1>1 DEF ParamNals, KeyNals, DeltaNals
  <2>2. Clean(p) /\ Clean(q) /\ Clean(r) /\ Clean(s) /\ Clean(t)
    BY CleanUnits
  <2> HIDE DEF p, q, r, s, t
  <2>3. Units(<<p, q>>) /\ Units(<<r, s>>)
    BY <2>2, UnitsOfTwo
  <2>4. Units(<<t>>)
    BY <2>2, UnitsOfOne
  <2>5. Len(<<p, q>>) > 0 /\ Len(<<r, s>>) > 0 /\ Len(<<t>>) > 0
    OBVIOUS
  <2> QED
    BY <2>1, <2>3, <2>4, <2>5
<1>2. CASE codec = "h265"
  <2> DEFINE o == <<64, v>>
             p == <<66, v>>
             q == <<68, v>>
             r == <<78, 5>>
             s == <<38, 1>>
             t == <<2, 1>>
  <2>1. ParamNals(v) = <<o, p, q>> /\ KeyNals = <<r, s>> /\ DeltaNals = <<t>>
    BY <1>2 DEF ParamNals, KeyNals, DeltaNals
  <2>2. Clean(o) /\ Clean(p) /\ Clean(q) /\ Clean(r) /\ Clean(s) /\ Clean(t)
    BY CleanUnits
  <2> HIDE DEF o, p, q, r, s, t
  <2>3. Units(<<r, s>>)
    BY <2>2, UnitsOfTwo
  <2>4. Units(<<t>>)
    BY <2>2, UnitsOfOne
  <2>5. Units(<<o, p, q>>)
    BY <2>2, UnitsOfThree
  <2>6. Len(<<o, p, q>>) > 0 /\ Len(<<r, s>>) > 0 /\ Len(<<t>>) > 0
    OBVIOUS
  <2> QED
    BY <2>1, <2>3, <2>4, <2>5, <2>6
<1> QED
  BY <1>1, <1>2 DEF CodecType

\* The parameter sets are told from the slices by their types.
LEMMA ParamUnits ==
  ASSUME CodecType, NEW v \in Versions
  PROVE  /\ \A i \in 1 .. Len(ParamNals(v)) : isParamSetNALU(ParamNals(v)[i], codec)
         /\ \A i \in 1 .. Len(KeyNals) : ~isParamSetNALU(KeyNals[i], codec)
         /\ \A i \in 1 .. Len(DeltaNals) : ~isParamSetNALU(DeltaNals[i], codec)
<1>1. ASSUME NEW x, NEW y, NEW i \in 1 .. 2 PROVE <<x, y>>[i] = x \/ <<x, y>>[i] = y
  OBVIOUS
<1>2. ASSUME NEW x, NEW y, NEW z, NEW i \in 1 .. 3
      PROVE  <<x, y, z>>[i] = x \/ <<x, y, z>>[i] = y \/ <<x, y, z>>[i] = z
  OBVIOUS
<1>3. ASSUME NEW x, NEW i \in 1 .. 1 PROVE <<x>>[i] = x
  OBVIOUS
<1>4. v \in Nat
  BY VersionAssumption
<1>5. ASSUME NEW u, Len(u) > 0
      PROVE  /\ isParamSetNALU(u, "h264") <=> nalType(u, "h264") \in {7, 8}
             /\ isParamSetNALU(u, "h265") <=> nalType(u, "h265") \in {32, 33, 34}
  BY <1>5 DEF isParamSetNALU, ParamTypes
<1>6. ASSUME NEW x, NEW y PROVE Len(<<x, y>>) > 0
  OBVIOUS
<1>7. CASE codec = "h264"
  <2>1. /\ ParamNals(v) = <<<<103, v>>, <<104, v>>>> /\ KeyNals = <<<<6, 5>>, <<101, 136>>>>
        /\ DeltaNals = <<<<65, 0, 1>>>>
    BY <1>7 DEF ParamNals, KeyNals, DeltaNals
  <2>2. isParamSetNALU(<<103, v>>, codec) /\ isParamSetNALU(<<104, v>>, codec)
    <3>1. Len(<<103, v>>) > 0 /\ Len(<<104, v>>) > 0
      BY <1>6
    <3>2. nalType(<<103, v>>, "h264") = 7 /\ nalType(<<104, v>>, "h264") = 8
      BY TypesOfUnits
    <3> QED
      BY <1>5, <1>7, <3>1, <3>2
  <2>3. ~isParamSetNALU(<<6, 5>>, codec) /\ ~isParamSetNALU(<<101, 136>>, codec)
    <3>1. nalType(<<6, 5>>, "h264") = 6 /\ nalType(<<101, 136>>, "h264") = 5
      BY TypesOfUnits
    <3> QED
      BY <1>5, <1>6, <1>7, <3>1
  <2>4. ~isParamSetNALU(<<65, 0, 1>>, codec)
    <3>1. nalType(<<65, 0, 1>>, "h264") = 1
      BY TypesOfUnits
    <3>2. Len(<<65, 0, 1>>) > 0
      OBVIOUS
    <3> QED
      BY <1>5, <1>7, <3>1, <3>2
  <2>5. Len(ParamNals(v)) = 2 /\ Len(KeyNals) = 2 /\ Len(DeltaNals) = 1
    BY <2>1
  <2>6. \A i \in 1 .. 2 : ParamNals(v)[i] \in {<<103, v>>, <<104, v>>} /\ KeyNals[i] \in {<<6, 5>>, <<101, 136>>}
    BY <2>1, <1>1
  <2>7. \A i \in 1 .. 1 : DeltaNals[i] = <<65, 0, 1>>
    BY <2>1, <1>3
  <2> QED
    BY <2>2, <2>3, <2>4, <2>5, <2>6, <2>7
<1>8. CASE codec = "h265"
  <2>1. /\ ParamNals(v) = <<<<64, v>>, <<66, v>>, <<68, v>>>> /\ KeyNals = <<<<78, 5>>, <<38, 1>>>>
        /\ DeltaNals = <<<<2, 1>>>>
    BY <1>8 DEF ParamNals, KeyNals, DeltaNals
  <2>2. isParamSetNALU(<<64, v>>, codec) /\ isParamSetNALU(<<66, v>>, codec) /\ isParamSetNALU(<<68, v>>, codec)
    <3>1. Len(<<64, v>>) > 0 /\ Len(<<66, v>>) > 0 /\ Len(<<68, v>>) > 0
      BY <1>6
    <3>2. /\ nalType(<<64, v>>, "h265") = 32 /\ nalType(<<66, v>>, "h265") = 33
          /\ nalType(<<68, v>>, "h265") = 34
      BY TypesOfUnits
    <3> QED
      BY <1>8, <1>5, <3>1, <3>2
  <2>3. ~isParamSetNALU(<<78, 5>>, codec) /\ ~isParamSetNALU(<<38, 1>>, codec)
    <3>1. nalType(<<78, 5>>, "h265") = 39 /\ nalType(<<38, 1>>, "h265") = 19
      BY TypesOfUnits
    <3> QED
      BY <1>8, <1>5, <1>6, <3>1
  <2>4. ~isParamSetNALU(<<2, 1>>, codec)
    <3>1. nalType(<<2, 1>>, "h265") = 1
      BY TypesOfUnits
    <3> QED
      BY <1>8, <1>5, <1>6, <3>1
  <2>5. Len(ParamNals(v)) = 3 /\ Len(KeyNals) = 2 /\ Len(DeltaNals) = 1
    BY <2>1
  <2>6. /\ \A i \in 1 .. 3 : ParamNals(v)[i] \in {<<64, v>>, <<66, v>>, <<68, v>>}
        /\ \A i \in 1 .. 2 : KeyNals[i] \in {<<78, 5>>, <<38, 1>>}
    BY <2>1, <1>1, <1>2
  <2>7. \A i \in 1 .. 1 : DeltaNals[i] = <<2, 1>>
    BY <2>1, <1>3
  <2> QED
    BY <2>2, <2>3, <2>4, <2>5, <2>6, <2>7
<1> QED
  BY <1>7, <1>8 DEF CodecType

\* A payload of units reads back as these.
LEMMA PayloadReads ==
  ASSUME NEW nals, Units(nals), Len(nals) > 0, NEW data \in Payloads(nals)
  PROVE  \E lens : Coded(nals, lens) /\ data = AnnexBOf(nals, lens) /\ splitAnnexB(data) = nals
<1>1. PICK lens \in {l \in [1 .. Len(nals) -> {0, 3, 4}] : \A i \in 2 .. Len(nals) : l[i] # 0} :
        data = AnnexBOf(nals, lens)
  BY DEF Payloads
<1>2. Coded(nals, lens)
  BY <1>1 DEF Coded
<1> QED
  BY <1>1, <1>2, SplitRoundTrip

\* A whole parameter set is found, and none in a part of one.
LEMMA SetFound ==
  ASSUME CodecType, NEW v \in Versions, NEW data, splitAnnexB(data) = ParamNals(v)
  PROVE  ParamSetIn(data) = ParamNals(v)
<1> DEFINE nals == ParamNals(v)
           of(t) == {i \in 1 .. Len(nals) : nalType(nals[i], codec) = t}
           last(t) == nals[CHOOSE i \in of(t) : \A j \in of(t) : j <= i]
<1>1. ParamSetIn(data) = IF \E t \in ParamTypes(codec) : of(t) = {} THEN <<>>
                         ELSE IF codec = "h264" THEN <<last(7), last(8)>> ELSE <<last(32), last(33), last(34)>>
  BY DEF ParamSetIn
<1>2. ASSUME NEW t, NEW k \in Nat, of(t) = {k} PROVE last(t) = nals[k]
  <2>1. (CHOOSE i \in of(t) : \A j \in of(t) : j <= i) = k
    BY <1>2
  <2> QED
    BY <2>1
<1>3. CASE codec = "h264"
  <2>1. nals = <<<<103, v>>, <<104, v>>>>
    BY <1>3 DEF ParamNals
  <2>2. Len(nals) = 2 /\ nals[1] = <<103, v>> /\ nals[2] = <<104, v>>
    BY <2>1
  <2>3. nalType(nals[1], codec) = 7 /\ nalType(nals[2], codec) = 8
    <3>1. nalType(<<103, v>>, "h264") = 7 /\ nalType(<<104, v>>, "h264") = 8
      BY TypesOfUnits
    <3> QED
      BY <1>3, <2>2, <3>1
  <2>4. of(7) = {1} /\ of(8) = {2}
    <3>1. \A i \in 1 .. 2 : i = 1 \/ i = 2
      OBVIOUS
    <3> QED
      BY <2>2, <2>3, <3>1
  <2>5. ParamTypes(codec) = {7, 8}
    BY <1>3 DEF ParamTypes
  <2> HIDE DEF nals, of, last
  <2>6. last(7) = nals[1] /\ last(8) = nals[2]
    BY <1>2, <2>4
  <2>7. ~\E t \in ParamTypes(codec) : of(t) = {}
    BY <2>4, <2>5
  <2>8. ParamSetIn(data) = <<nals[1], nals[2]>>
    BY <1>1, <1>3, <2>6, <2>7
  <2>9. ParamSetIn(data) = nals
    BY <2>1, <2>2, <2>8
  <2> QED
    BY <2>9 DEF nals
<1>4. CASE codec = "h265"
  <2>1. nals = <<<<64, v>>, <<66, v>>, <<68, v>>>>
    BY <1>4 DEF ParamNals
  <2>2. Len(nals) = 3 /\ nals[1] = <<64, v>> /\ nals[2] = <<66, v>> /\ nals[3] = <<68, v>>
    BY <2>1
  <2>3. nalType(nals[1], codec) = 32 /\ nalType(nals[2], codec) = 33 /\ nalType(nals[3], codec) = 34
    <3>1. /\ nalType(<<64, v>>, "h265") = 32 /\ nalType(<<66, v>>, "h265") = 33
          /\ nalType(<<68, v>>, "h265") = 34
      BY TypesOfUnits
    <3> QED
      BY <1>4, <2>2, <3>1
  <2>4. of(32) = {1} /\ of(33) = {2} /\ of(34) = {3}
    <3>1. \A i \in 1 .. 3 : i = 1 \/ i = 2 \/ i = 3
      OBVIOUS
    <3> QED
      BY <2>2, <2>3, <3>1
  <2>5. ParamTypes(codec) = {32, 33, 34}
    BY <1>4 DEF ParamTypes
  <2> HIDE DEF nals, of, last
  <2>6. last(32) = nals[1] /\ last(33) = nals[2] /\ last(34) = nals[3]
    BY <1>2, <2>4
  <2>7. ~\E t \in ParamTypes(codec) : of(t) = {}
    BY <2>4, <2>5
  <2>8. ParamSetIn(data) = <<nals[1], nals[2], nals[3]>>
    BY <1>1, <1>4, <2>6, <2>7
  <2>9. ParamSetIn(data) = nals
    BY <2>1, <2>2, <2>8
  <2> QED
    BY <2>9 DEF nals
<1> QED
  BY <1>3, <1>4 DEF CodecType

\* A part of a parameter set lacks its first type.
LEMMA PartOfSet ==
  ASSUME CodecType, NEW v \in Versions
  PROVE  /\ Units(Tail(ParamNals(v))) /\ Len(Tail(ParamNals(v))) > 0
         /\ \E t \in ParamTypes(codec) :
              \A i \in 1 .. Len(Tail(ParamNals(v))) : nalType(Tail(ParamNals(v))[i], codec) # t
<1>1. Units(<<<<104, v>>>>) /\ Units(<<<<66, v>>, <<68, v>>>>)
  <2> DEFINE x == <<104, v>>
             y == <<66, v>>
             z == <<68, v>>
  <2>1. \A n \in Nat : Clean(<<n, v>>)
    BY CleanPair
  <2>2. Clean(x)
    BY <2>1
  <2>3. Clean(y) /\ Clean(z)
    BY <2>1
  <2> HIDE DEF x, y, z
  <2>4. Units(<<x>>)
    BY <2>2, UnitsOfOne
  <2>5. Units(<<y, z>>)
    BY <2>3, UnitsOfTwo
  <2> QED
    BY <2>4, <2>5 DEF x, y, z
<1> DEFINE s == Tail(ParamNals(v))
<1>2. CASE codec = "h264"
  <2>1. ParamNals(v) = <<<<103, v>>, <<104, v>>>>
    BY <1>2 DEF ParamNals
  <2>2. s = <<<<104, v>>>>
    BY <2>1
  <2> HIDE DEF s
  <2>3. Len(s) = 1 /\ s[1] = <<104, v>>
    BY <2>2
  <2>4. 7 \in ParamTypes(codec) /\ nalType(<<104, v>>, codec) = 8
    BY <1>2, TypesOfUnits DEF ParamTypes
  <2>5. \A i \in 1 .. 1 : i = 1
    OBVIOUS
  <2>6. Units(s)
    BY <1>1, <2>2
  <2>7. \A i \in 1 .. Len(s) : nalType(s[i], codec) # 7
    BY <2>3, <2>4, <2>5
  <2>8. Units(s) /\ Len(s) > 0 /\ \E t \in ParamTypes(codec) : \A i \in 1 .. Len(s) : nalType(s[i], codec) # t
    BY <2>3, <2>4, <2>6, <2>7
  <2> QED
    BY <2>8 DEF s
<1>3. CASE codec = "h265"
  <2>1. ParamNals(v) = <<<<64, v>>, <<66, v>>, <<68, v>>>>
    BY <1>3 DEF ParamNals
  <2>2. s = <<<<66, v>>, <<68, v>>>>
    BY <2>1
  <2> HIDE DEF s
  <2>3. Len(s) = 2 /\ s[1] = <<66, v>> /\ s[2] = <<68, v>>
    BY <2>2
  <2>4. 32 \in ParamTypes(codec) /\ nalType(<<66, v>>, codec) = 33 /\ nalType(<<68, v>>, codec) = 34
    BY <1>3, TypesOfUnits DEF ParamTypes
  <2>5. \A i \in 1 .. 2 : i = 1 \/ i = 2
    OBVIOUS
  <2>6. Units(s)
    BY <1>1, <2>2
  <2>7. \A i \in 1 .. Len(s) : nalType(s[i], codec) # 32
    BY <2>3, <2>4, <2>5
  <2>8. Units(s) /\ Len(s) > 0 /\ \E t \in ParamTypes(codec) : \A i \in 1 .. Len(s) : nalType(s[i], codec) # t
    BY <2>3, <2>4, <2>6, <2>7
  <2> QED
    BY <2>8 DEF s
<1> QED
  BY <1>2, <1>3 DEF CodecType

LEMMA PartNotFound ==
  ASSUME NEW data, NEW nals, splitAnnexB(data) = nals, NEW t \in ParamTypes(codec),
         \A i \in 1 .. Len(nals) : nalType(nals[i], codec) # t
  PROVE  ParamSetIn(data) = <<>>
<1>1. {i \in 1 .. Len(nals) : nalType(nals[i], codec) = t} = {}
  OBVIOUS
<1> QED
  BY <1>1 DEF ParamSetIn

\* The reading of Annex-B gives the encoder's parameter sets back and finds none where a
\* unit is missing.
SetsRead ==
  \A v \in Versions :
    /\ ParamNals(v) # <<>>
    /\ \A data \in Payloads(ParamNals(v)) : ParamSetIn(data) = ParamNals(v)
    /\ \A data \in Payloads(Tail(ParamNals(v))) : ParamSetIn(data) = <<>>

LEMMA SetsAreRead == CodecType => SetsRead
<1> SUFFICES ASSUME CodecType, NEW v \in Versions
             PROVE  /\ ParamNals(v) # <<>>
                    /\ \A data \in Payloads(ParamNals(v)) : ParamSetIn(data) = ParamNals(v)
                    /\ \A data \in Payloads(Tail(ParamNals(v))) : ParamSetIn(data) = <<>>
  BY DEF SetsRead
<1>1. ParamNals(v) # <<>>
  BY DEF ParamNals
<1>2. ASSUME NEW data \in Payloads(ParamNals(v)) PROVE ParamSetIn(data) = ParamNals(v)
  <2>1. splitAnnexB(data) = ParamNals(v)
    BY UnitsSent, PayloadReads
  <2> QED
    BY <2>1, SetFound
<1>3. ASSUME NEW data \in Payloads(Tail(ParamNals(v))) PROVE ParamSetIn(data) = <<>>
  <2>1. splitAnnexB(data) = Tail(ParamNals(v))
    BY PartOfSet, PayloadReads
  <2> QED
    BY <2>1, PartOfSet, PartNotFound
<1> QED
  BY <1>1, <1>2, <1>3

\* The sample of a key frame is the frame's own units, whether or not its parameter
\* sets come in it; that of another frame too.
LEMMA KeySample ==
  ASSUME CodecType, version \in Versions, NEW data \in KeyPayloads
  PROVE  videoPayloadToAVCC(data, codec) = Packed(KeyNals, {})
<1>1. /\ Units(ParamNals(version)) /\ Units(KeyNals) /\ Len(ParamNals(version)) > 0 /\ Len(KeyNals) > 0
  BY UnitsSent
<1>2. /\ \A i \in 1 .. Len(ParamNals(version)) : isParamSetNALU(ParamNals(version)[i], codec)
      /\ \A i \in 1 .. Len(KeyNals) : ~isParamSetNALU(KeyNals[i], codec)
  BY ParamUnits
<1>3. ParamNals(version) \in Seq(Seq(Nat)) /\ KeyNals \in Seq(Seq(Nat))
  BY <1>1 DEF Units
<1>4. CASE data \in Payloads(KeyNals)
  <2>1. PICK lens : Coded(KeyNals, lens) /\ data = AnnexBOf(KeyNals, lens)
    BY <1>1, <1>4, PayloadReads
  <2>2. videoPayloadToAVCC(data, codec) = Packed(KeyNals, {i \in DOMAIN KeyNals : isParamSetNALU(KeyNals[i], codec)})
    BY <1>1, <2>1, SampleOfUnits
  <2>3. DOMAIN KeyNals = 1 .. Len(KeyNals)
    BY <1>3
  <2>4. {i \in DOMAIN KeyNals : isParamSetNALU(KeyNals[i], codec)} = {}
    BY <1>2, <2>3
  <2> QED
    BY <2>2, <2>4
<1>5. CASE data \notin Payloads(KeyNals)
  <2> DEFINE a == ParamNals(version)
             b == KeyNals
             nals == a \o b
             lens == [i \in 1 .. Len(nals) |-> 4]
             skip == {i \in DOMAIN nals : isParamSetNALU(nals[i], codec)}
  <2>1. data = AnnexBOf(nals, lens)
    BY <1>5 DEF KeyPayloads
  <2>2. Units(nals) /\ Len(nals) = Len(a) + Len(b)
    BY <1>1, UnitsJoined
  <2>3. Coded(nals, lens)
    BY DEF Coded
  <2>4. Len(a) \in Nat /\ Len(b) \in Nat /\ Len(a) > 0 /\ Len(b) > 0
    BY <1>1, <1>3
  <2>5. /\ DOMAIN nals = 1 .. Len(a) + Len(b)
        /\ \A i \in 1 .. Len(a) + Len(b) : nals[i] = IF i <= Len(a) THEN a[i] ELSE b[i - Len(a)]
    <3>1. a \in Seq(Seq(Nat)) /\ b \in Seq(Seq(Nat))
      BY <1>3
    <3> HIDE DEF a, b
    <3> QED
      BY <3>1, ConcatProperties
  <2>6. skip = 1 .. Len(a)
    <3>1. \A i \in 1 .. Len(a) : isParamSetNALU(a[i], codec)
      BY <1>2
    <3>2. \A i \in 1 .. Len(b) : ~isParamSetNALU(b[i], codec)
      BY <1>2
    <3>3. \A i \in 1 .. Len(a) + Len(b) : i <= Len(a) => i \in 1 .. Len(a)
      BY <2>4
    <3>4. \A i \in 1 .. Len(a) + Len(b) : ~(i <= Len(a)) => i - Len(a) \in 1 .. Len(b)
      BY <2>4
    <3>5. \A i \in 1 .. Len(a) : i \in 1 .. Len(a) + Len(b) /\ i <= Len(a)
      BY <2>4
    <3> HIDE DEF a, b, nals
    <3>6. \A i \in 1 .. Len(a) + Len(b) : isParamSetNALU(nals[i], codec) => i \in 1 .. Len(a)
      BY <2>5, <3>2, <3>3, <3>4
    <3>7. \A i \in 1 .. Len(a) : i \in 1 .. Len(a) + Len(b) /\ isParamSetNALU(nals[i], codec)
      BY <2>5, <3>1, <3>5
    <3> QED
      BY <2>5, <3>6, <3>7
  <2>7. Len(nals) > 0
    BY <2>2, <2>4
  <2>8. Packed(a \o b, 1 .. Len(a)) = Packed(b, {})
    BY <1>3, PackedTail
  <2>9. videoPayloadToAVCC(AnnexBOf(nals, lens), codec) = Packed(nals, skip)
    <3> HIDE DEF nals, lens
    <3> QED
      BY <2>2, <2>3, <2>7, SampleOfUnits
  <2> QED
    BY <2>1, <2>6, <2>8, <2>9
<1> QED
  BY <1>4, <1>5

LEMMA DeltaSample ==
  ASSUME CodecType, Versions # {}, NEW data \in Payloads(DeltaNals)
  PROVE  videoPayloadToAVCC(data, codec) = Packed(DeltaNals, {})
<1>1. Units(DeltaNals) /\ Len(DeltaNals) > 0
  BY UnitsSent
<1>2. \A i \in 1 .. Len(DeltaNals) : ~isParamSetNALU(DeltaNals[i], codec)
  BY ParamUnits
<1>3. DOMAIN DeltaNals = 1 .. Len(DeltaNals)
  BY <1>1 DEF Units
<1>4. PICK lens : Coded(DeltaNals, lens) /\ data = AnnexBOf(DeltaNals, lens)
  BY <1>1, PayloadReads
<1>5. videoPayloadToAVCC(data, codec) = Packed(DeltaNals, {i \in DOMAIN DeltaNals : isParamSetNALU(DeltaNals[i], codec)})
  BY <1>1, <1>4, SampleOfUnits
<1>6. {i \in DOMAIN DeltaNals : isParamSetNALU(DeltaNals[i], codec)} = {}
  BY <1>2, <1>3
<1> QED
  BY <1>5, <1>6

\* What the samples rest on: one codec, and the parameter set is one of the camera's.
SampleInv == CodecType /\ version \in Versions /\ SampleWhole

LEMMA SampleStep == SampleInv /\ [Next]_vars => SampleInv'
<1> SUFFICES ASSUME SampleInv, [Next]_vars PROVE SampleInv'
  OBVIOUS
<1>1. CodecType /\ version \in Versions /\ SampleWhole
  BY DEF SampleInv
<1>2. ASSUME codec' = codec, version' \in Versions, pkt' = NoPkt \/ pkt' = pkt \/ pkt'.idx # 0
      PROVE  SampleInv'
  BY <1>1, <1>2 DEF SampleInv, CodecType, SampleWhole
<1>3. ASSUME NEW v \in Versions, GetCodecsParamSet(v) \/ ReadParamSet(v) PROVE SampleInv'
  <2>1. codec' = codec /\ version' = v /\ pkt' = NoPkt
    BY <1>3 DEF GetCodecsParamSet, ReadParamSet, InGetCodecs, SendsParamSet
  <2> QED
    BY <1>2, <2>1
<1>4. CASE GetCodecsOther \/ ReadAudio \/ ReadUnknown
  <2>1. codec' = codec /\ version' = version
    BY <1>4 DEF GetCodecsOther, ReadAudio, ReadUnknown, SendsAudio, SendsUnknown, SendsKey, SendsDelta
  <2>2. pkt' = NoPkt \/ pkt'.idx = 1
    BY <1>4 DEF GetCodecsOther, ReadAudio, ReadUnknown, InGetCodecs
  <2> QED
    BY <1>1, <1>2, <2>1, <2>2
<1>5. ASSUME NEW disc \in BOOLEAN, ReadKey(disc) PROVE SampleInv'
  <2>1. codec' = codec /\ version' = version
    BY <1>5 DEF ReadKey, SendsKey
  <2>2. PICK data \in KeyPayloads : VideoPacket(TRUE, disc, KeyNals, data)
    BY <1>5 DEF ReadKey
  <2>3. pkt'.of = KeyNals /\ pkt'.data = videoPayloadToAVCC(data, codec)
    BY <2>2 DEF VideoPacket
  <2>4. pkt'.data = Packed(pkt'.of, {})
    BY <1>1, <2>3, KeySample
  <2> QED
    BY <1>1, <2>1, <2>4 DEF SampleInv, CodecType, SampleWhole
<1>6. ASSUME NEW disc \in BOOLEAN, ReadDelta(disc) PROVE SampleInv'
  <2>1. codec' = codec /\ version' = version
    BY <1>6 DEF ReadDelta, SendsDelta
  <2>2. PICK data \in Payloads(DeltaNals) : VideoPacket(FALSE, disc, DeltaNals, data)
    BY <1>6 DEF ReadDelta
  <2>3. pkt'.of = DeltaNals /\ pkt'.data = videoPayloadToAVCC(data, codec)
    BY <2>2 DEF VideoPacket
  <2>4. pkt'.data = Packed(pkt'.of, {})
    BY <1>1, <2>3, DeltaSample
  <2> QED
    BY <1>1, <2>1, <2>4 DEF SampleInv, CodecType, SampleWhole
<1>7. CASE Poll \/ NotReady \/ ContextDone \/ SessionError
  <2>1. codec' = codec /\ version' = version /\ (pkt' = NoPkt \/ pkt' = pkt)
    BY <1>7 DEF Poll, NotReady, ContextDone, SessionError, Ends, camVars, outVars
  <2> QED
    BY <1>1, <1>2, <2>1
<1>8. CASE Cancel \/ Pause \/ Resume \/ Refused \/ Close \/ UNCHANGED vars
  <2>1. codec' = codec /\ version' = version /\ pkt' = pkt
    BY <1>8 DEF Cancel, Pause, Resume, Refused, Close, SetSession, vars, camVars, outVars
  <2> QED
    BY <1>1, <1>2, <2>1
<1> QED
  BY <1>3, <1>4, <1>5, <1>6, <1>7, <1>8 DEF Next

LEMMA SamplesSound == Spec => []SampleInv
<1>1. Init => SampleInv
  BY DEF Init, SampleInv, CodecType, SampleWhole
<1> QED
  BY <1>1, SampleStep, PTL DEF Spec

\* Every video packet's sample holds the frame's units but its parameter sets, in order,
\* each behind its length: for any parameter sets, whichever start codes the camera uses.
THEOREM SamplesAreWhole == Spec => []SampleWhole
<1>1. SampleInv => SampleWhole
  BY DEF SampleInv
<1> QED
  BY <1>1, SamplesSound, PTL

-----------------------------------------------------------------------------
(* What is announced, and when. *)

\* Audio that is known when a parameter set comes stays to be announced until its key
\* frame; a key frame announces what may have changed.
AudioInv ==
  /\ told \in {0, 1, 2}
  /\ told # 0 => audioReady
  /\ told # 0 => phase # "codecs"
  /\ told = 1 => codecDirty
  /\ told = 2 => announced.audio

LEMMA AudioInit == Init => AudioInv
  BY DEF Init, AudioInv

LEMMA AudioStep == AudioInv /\ [Next]_vars => AudioInv'
<1> SUFFICES ASSUME AudioInv, [Next]_vars PROVE AudioInv'
  OBVIOUS
<1> USE DEF AudioInv
<1>1. ASSUME NEW v \in Versions, GetCodecsParamSet(v) PROVE AudioInv'
  BY <1>1 DEF GetCodecsParamSet, InGetCodecs
<1>2. ASSUME NEW v \in Versions, ReadParamSet(v) PROVE AudioInv'
  BY <1>2 DEF ReadParamSet, InReadPacket, applyParamSet
<1>3. CASE GetCodecsOther
  BY <1>3 DEF GetCodecsOther, InGetCodecs
<1>4. CASE ReadAudio
  BY <1>4 DEF ReadAudio, InReadPacket
<1>5. CASE ReadUnknown
  BY <1>5 DEF ReadUnknown, InReadPacket, demVars
<1>6. ASSUME NEW disc \in BOOLEAN, ReadKey(disc) PROVE AudioInv'
  BY <1>6 DEF ReadKey, InReadPacket, buildStreams
<1>7. ASSUME NEW disc \in BOOLEAN, ReadDelta(disc) PROVE AudioInv'
  BY <1>7 DEF ReadDelta, InReadPacket
<1>8. CASE Poll \/ NotReady \/ ContextDone \/ SessionError
  BY <1>8 DEF Poll, NotReady, ContextDone, SessionError, Ends, demVars, outVars
<1>9. CASE Cancel \/ Pause \/ Resume \/ Refused \/ Close
  BY <1>9 DEF Cancel, Pause, Resume, Refused, Close, SetSession, demVars, outVars
<1>10. CASE UNCHANGED vars
  BY <1>10 DEF vars, demVars, outVars
<1> HIDE DEF AudioInv
<1> QED
  BY <1>1, <1>2, <1>3, <1>4, <1>5, <1>6, <1>7, <1>8, <1>9, <1>10 DEF Next

\* Audio that is learnt after GetCodecs returned is announced with the key frame of the
\* next parameter set, changed or not, whatever frames and pauses come between.
THEOREM LateAudioIsAnnounced == Spec => []LateAudioAnnounced
<1>1. AudioInv => LateAudioAnnounced
  BY DEF AudioInv, LateAudioAnnounced
<1> QED
  BY <1>1, AudioInit, AudioStep, PTL DEF Spec

\* The parameter set of the coming key frame is the one the demuxer has, unless it was
\* sent in part; what it has is announced or will be with the key frame.
CodecInv ==
  /\ phase = "codecs" => ~paramSent
  /\ phase = "codecs" => videoCodec = <<>>
  /\ phase = "reading" /\ paramSent => videoCodec = ParamNals(version)
  /\ phase = "reading" => codecDirty \/ announced.video = videoCodec
  /\ phase \in {"codecs", "reading", "failed", "closed"}
  /\ KeyDecodable

LEMMA CodecInit == Init => CodecInv
  BY DEF Init, CodecInv, KeyDecodable, NoPkt

LEMMA CodecStep == CodecInv /\ SetsRead /\ [Next]_vars => CodecInv'
<1> SUFFICES ASSUME CodecInv, SetsRead, [Next]_vars PROVE CodecInv'
  OBVIOUS
<1> USE DEF CodecInv, KeyDecodable
<1>1. ASSUME NEW v \in Versions, NEW nals \in {ParamNals(v), Tail(ParamNals(v))}, SendsParamSet(v, nals)
      PROVE  /\ codec' = codec /\ version' = v /\ ParamNals(version)' = ParamNals(v)
             /\ \A data \in Payloads(nals) : paramSent' => ParamSetIn(data) = ParamNals(v) /\ ParamNals(v) # <<>>
  <2>1. codec' = codec /\ version' = v /\ ParamNals(version)' = ParamNals(v)
    BY <1>1 DEF SendsParamSet, ParamNals
  <2>2. paramSent' => nals = ParamNals(v)
    BY <1>1 DEF SendsParamSet
  <2> QED
    BY <2>1, <2>2 DEF SetsRead
<1>2. ASSUME UNCHANGED <<codec, version>> PROVE ParamNals(version)' = ParamNals(version)
  BY <1>2 DEF ParamNals
<1>3. ASSUME NEW v \in Versions, GetCodecsParamSet(v) PROVE CodecInv'
  <2>1. PICK nals \in {ParamNals(v), Tail(ParamNals(v))} : \E data \in Payloads(nals) :
       /\ SendsParamSet(v, nals)
       /\ \/ /\ applyParamSet(data)
             /\ IF audioReady THEN UNCHANGED <<audioClk, audioReady>> ELSE tryAudioFromStreamInfo
             /\ phase' = IF videoCodec' = <<>> THEN "codecs" ELSE "reading"
             /\ announced' = IF videoCodec' = <<>> THEN announced ELSE buildStreams(videoCodec', audioReady')
          \/ /\ ParamSetIn(data) # <<>>
             /\ phase' = "failed"
             /\ UNCHANGED <<videoCodec, codecDirty, audioClk, audioReady, announced>>
    BY <1>3 DEF GetCodecsParamSet
  <2>2. PICK data \in Payloads(nals) :
       /\ SendsParamSet(v, nals)
       /\ \/ /\ applyParamSet(data)
             /\ phase' = IF videoCodec' = <<>> THEN "codecs" ELSE "reading"
             /\ announced' = IF videoCodec' = <<>> THEN announced ELSE buildStreams(videoCodec', audioReady')
          \/ phase' = "failed"
    BY <2>1
  <2>3. pkt' = NoPkt /\ phase = "codecs"
    BY <1>3 DEF GetCodecsParamSet, InGetCodecs
  <2>4. /\ ParamNals(version)' = ParamNals(v)
        /\ paramSent' => ParamSetIn(data) = ParamNals(v) /\ ParamNals(v) # <<>>
    BY <1>1, <2>2
  <2>5. CASE phase' = "failed"
    BY <2>3, <2>5
  <2>6. CASE /\ applyParamSet(data)
             /\ phase' = IF videoCodec' = <<>> THEN "codecs" ELSE "reading"
             /\ announced' = IF videoCodec' = <<>> THEN announced ELSE buildStreams(videoCodec', audioReady')
    BY <2>3, <2>4, <2>6 DEF applyParamSet, buildStreams
  <2> QED
    BY <2>2, <2>5, <2>6
<1>4. ASSUME NEW v \in Versions, ReadParamSet(v) PROVE CodecInv'
  <2>1. PICK nals \in {ParamNals(v), Tail(ParamNals(v))} : \E data \in Payloads(nals) :
       /\ SendsParamSet(v, nals)
       /\ \/ applyParamSet(data) /\ UNCHANGED phase
          \/ phase' = "failed"
    BY <1>4 DEF ReadParamSet
  <2>2. PICK data \in Payloads(nals) :
       /\ SendsParamSet(v, nals)
       /\ \/ applyParamSet(data) /\ UNCHANGED phase
          \/ phase' = "failed"
    BY <2>1
  <2>3. pkt' = NoPkt /\ phase = "reading" /\ announced' = announced
    BY <1>4 DEF ReadParamSet, InReadPacket
  <2>4. /\ ParamNals(version)' = ParamNals(v)
        /\ paramSent' => ParamSetIn(data) = ParamNals(v) /\ ParamNals(v) # <<>>
    BY <1>1, <2>2
  <2>5. CASE phase' = "failed"
    BY <2>3, <2>5
  <2>6. CASE applyParamSet(data) /\ UNCHANGED phase
    BY <2>3, <2>4, <2>6 DEF applyParamSet
  <2> QED
    BY <2>2, <2>5, <2>6
<1>5. CASE GetCodecsOther
  <2>1. /\ pkt' = NoPkt /\ UNCHANGED <<phase, videoCodec, paramSent, announced>> /\ phase = "codecs"
    BY <1>5 DEF GetCodecsOther, InGetCodecs, SendsAudio, SendsUnknown, SendsKey, SendsDelta
  <2> QED
    BY <2>1
<1>6. CASE ReadAudio \/ ReadUnknown
  <2>1. /\ pkt' = NoPkt \/ pkt'.idx = 1
        /\ UNCHANGED <<phase, videoCodec, codecDirty, paramSent, announced, codec, version>>
    BY <1>6 DEF ReadAudio, ReadUnknown, InReadPacket, SendsAudio, SendsUnknown, demVars
  <2> QED
    BY <1>2, <2>1
<1>7. ASSUME NEW disc \in BOOLEAN, ReadKey(disc) PROVE CodecInv'
  <2>1. /\ phase = "reading" /\ UNCHANGED <<phase, videoCodec, paramSent, codec, version>> /\ codecDirty' = FALSE
        /\ announced' = IF codecDirty THEN buildStreams(videoCodec, audioReady) ELSE announced
    BY <1>7 DEF ReadKey, InReadPacket, SendsKey
  <2>2. announced'.video = videoCodec
    BY <2>1 DEF buildStreams
  <2> QED
    BY <1>2, <2>1, <2>2
<1>8. ASSUME NEW disc \in BOOLEAN, ReadDelta(disc) PROVE CodecInv'
  <2>1. UNCHANGED <<phase, videoCodec, codecDirty, paramSent, announced, codec, version>>
    BY <1>8 DEF ReadDelta, InReadPacket, SendsDelta
  <2>2. ~pkt'.key
    BY <1>8 DEF ReadDelta, VideoPacket
  <2> QED
    BY <1>2, <2>1, <2>2
<1>9. CASE Poll \/ NotReady \/ ContextDone \/ SessionError
  <2>1. CASE Poll \/ NotReady
    <3>1. /\ UNCHANGED <<videoCodec, codecDirty, paramSent, announced, codec, version, phase>>
          /\ pkt' = NoPkt \/ pkt' = pkt
      BY <2>1 DEF Poll, NotReady, camVars, demVars, outVars
    <3> QED
      BY <1>2, <3>1
  <2>2. CASE ContextDone \/ SessionError
    BY <2>2 DEF ContextDone, SessionError, Ends
  <2> QED
    BY <1>9, <2>1, <2>2
<1>10. CASE Cancel \/ Pause \/ Resume \/ Refused \/ Close \/ UNCHANGED vars
  <2>1. /\ UNCHANGED <<videoCodec, codecDirty, paramSent, announced, codec, version, pkt>>
        /\ phase' = phase \/ phase' = "closed"
    BY <1>10 DEF Cancel, Pause, Resume, Refused, Close, SetSession, vars, camVars, demVars, outVars
  <2> QED
    BY <1>2, <2>1
<1> HIDE DEF CodecInv, KeyDecodable
<1> QED
  BY <1>3, <1>4, <1>5, <1>6, <1>7, <1>8, <1>9, <1>10 DEF Next

\* The reader has been told the parameter set of every key frame it gets, whichever sets
\* were sent in part, repeated, changed or dropped before it.
THEOREM KeysAreDecodable == Spec => []KeyDecodable
<1>1. CodecInv => KeyDecodable
  BY DEF CodecInv
<1>2. SampleInv => SetsRead
  BY SetsAreRead DEF SampleInv
<1>3. CodecInv /\ SampleInv /\ [Next]_vars => CodecInv'
  BY <1>2, CodecStep
<1> QED
  BY <1>1, <1>3, CodecInit, SamplesSound, PTL DEF Spec

-----------------------------------------------------------------------------
(* Time stamps. *)

\* The products of ticks and time.Second stay within a time.Duration.
NoOverflow == MaxTicks * Second < Width \div 2

\* One more tick is at least one more second's units, and these at least one more unit
\* of the quotient.
LEMMA TicksToUnits ==
  ASSUME NEW a \in Nat, NEW b \in Nat, a < b, NEW s \in Nat
  PROVE  a * s \in Nat /\ b * s \in Nat /\ a * s + s <= b * s
<1>1. b - a - 1 \in Nat
  OBVIOUS
<1>2. PICK d \in Nat : b = a + 1 + d
  BY <1>1
<1>3. b * s = a * s + s + d * s /\ d * s \in Nat /\ a * s \in Nat
  BY <1>2
<1> QED
  BY <1>3

LEMMA UnitsToQuotient ==
  ASSUME NEW x \in Nat, NEW y \in Nat, NEW c \in Nat \ {0}, x + c <= y
  PROVE  x \div c < y \div c
OBVIOUS

\* Without overflow, more ticks are a later DTS.
LEMMA TicksAdvance ==
  ASSUME NoOverflow, NEW a \in 0 .. MaxTicks, NEW b \in 0 .. MaxTicks, a < b
  PROVE  ticksToDTS(a, VideoClk) < ticksToDTS(b, VideoClk)
<1>1. /\ Second \in Nat /\ VideoClk \in Nat \ {0} /\ VideoClk <= Second /\ Width \in Nat \ {0}
      /\ MaxTicks \in Nat /\ a \in Nat /\ b \in Nat /\ b <= MaxTicks
  BY ClockAssumption
<1>2. a * Second \in Nat /\ b * Second \in Nat /\ a * Second + Second <= b * Second
  BY <1>1, TicksToUnits
<1>3. b * Second <= MaxTicks * Second
  <2>1. CASE b = MaxTicks
    BY <1>1, <1>2, <2>1
  <2>2. CASE b < MaxTicks
    <3>1. MaxTicks * Second \in Nat /\ b * Second + Second <= MaxTicks * Second
      BY <1>1, <2>2, TicksToUnits
    <3> QED
      BY <1>1, <1>2, <3>1
  <2> QED
    BY <1>1, <2>1, <2>2
<1>4. MaxTicks * Second \in Nat /\ Width \div 2 \in Nat
  BY <1>1
<1> DEFINE h == Width \div 2
           x == a * Second
           y == b * Second
<1>5. h \in Nat /\ h + h <= Width /\ x \in Nat /\ y \in Nat /\ x + Second <= y /\ y < h
  BY <1>1, <1>2, <1>3, <1>4 DEF NoOverflow
<1>6. Wrap(x) = ((x + h) % Width) - h /\ Wrap(y) = ((y + h) % Width) - h
  BY DEF Wrap
<1>7. ticksToDTS(a, VideoClk) = Quotient(Wrap(x), VideoClk) /\ ticksToDTS(b, VideoClk) = Quotient(Wrap(y), VideoClk)
  BY <1>1 DEF ticksToDTS
<1> HIDE DEF h, x, y
<1>8. (x + h) % Width = x + h /\ (y + h) % Width = y + h
  BY <1>1, <1>5
<1>9. Wrap(x) = x /\ Wrap(y) = y
  BY <1>5, <1>6, <1>8
<1>10. Quotient(x, VideoClk) = x \div VideoClk /\ Quotient(y, VideoClk) = y \div VideoClk
  BY <1>5 DEF Quotient
<1>11. x + VideoClk <= y
  BY <1>1, <1>5
<1> QED
  BY <1>1, <1>5, <1>7, <1>9, <1>10, <1>11, UnitsToQuotient

\* The last video packet's DTS is that of the camera's ticks: no video frame of a reader
\* passes without a packet, and no reader is without a parameter set and its clock.
DTSInv ==
  /\ videoTicks \in 0 .. MaxTicks
  /\ phase = "reading" => videoCodec # <<>>
  /\ lastVideoDTS # NoDTS =>
       phase # "codecs" /\ lastVideoDTS = DTS(ticksToDTS(videoTicks, VideoClk))

LEMMA DTSInit == Init => DTSInv
  BY ClockAssumption DEF Init, DTSInv

\* The ticks of a video frame, and its packet.
LEMMA VideoFrame ==
  ASSUME DTSInv, NEW disc \in BOOLEAN, ReadKey(disc) \/ ReadDelta(disc)
  PROVE  /\ videoTicks' \in 0 .. MaxTicks /\ (~disc => videoTicks < videoTicks')
         /\ lastVideoDTS' = DTS(ticksToDTS(videoTicks', VideoClk))
         /\ pkt'.dts = ticksToDTS(videoTicks', VideoClk) /\ pkt'.disc = disc
         /\ phase' = "reading" /\ videoCodec' # <<>>
<1>1. VideoTicks(disc) /\ phase = "reading" /\ phase' = "reading" /\ videoCodec' = videoCodec
  BY DEF ReadKey, ReadDelta, SendsKey, SendsDelta, InReadPacket
<1>2. \E key \in BOOLEAN : \E nals, data : VideoPacket(key, disc, nals, data)
  BY DEF ReadKey, ReadDelta
<1>3. PICK key \in BOOLEAN : \E nals, data : VideoPacket(key, disc, nals, data)
  BY <1>2
<1>4. PICK nals : \E data : VideoPacket(key, disc, nals, data)
  BY <1>3
<1>5. PICK data : VideoPacket(key, disc, nals, data)
  BY <1>4
<1>6. /\ lastVideoDTS' = DTS(ticksToDTS(videoTicks', VideoClk))
      /\ pkt'.dts = ticksToDTS(videoTicks', VideoClk) /\ pkt'.disc = disc
  <2>1. videoClk = VideoClk
    BY <1>1 DEF DTSInv, videoClk
  <2> QED
    BY <1>5, <2>1 DEF VideoPacket
<1>7. videoTicks' \in 0 .. MaxTicks /\ (~disc => videoTicks < videoTicks')
  BY <1>1, ClockAssumption DEF VideoTicks, DTSInv
<1> QED
  BY <1>1, <1>6, <1>7 DEF DTSInv

LEMMA DTSStep == DTSInv /\ [Next]_vars => DTSInv'
<1> SUFFICES ASSUME DTSInv, [Next]_vars PROVE DTSInv'
  OBVIOUS
<1>1. ASSUME UNCHANGED <<videoTicks, lastVideoDTS>>, phase' = "codecs" => phase = "codecs",
             phase' = "reading" => videoCodec' # <<>>
      PROVE  DTSInv'
  BY <1>1 DEF DTSInv
<1>2. ASSUME NEW v \in Versions, GetCodecsParamSet(v) \/ ReadParamSet(v) PROVE DTSInv'
  <2>1. UNCHANGED <<videoTicks, lastVideoDTS>> /\ (phase' = "codecs" => phase = "codecs")
    BY <1>2 DEF GetCodecsParamSet, ReadParamSet, InGetCodecs, InReadPacket, SendsParamSet
  <2>2. phase' = "reading" => videoCodec' # <<>>
    <3>1. CASE GetCodecsParamSet(v)
      BY <3>1 DEF GetCodecsParamSet
    <3>2. CASE ReadParamSet(v)
      <4>1. phase = "reading" /\ \E data : applyParamSet(data) \/ phase' = "failed"
        BY <3>2 DEF ReadParamSet, InReadPacket
      <4> QED
        BY <4>1 DEF applyParamSet, DTSInv
    <3> QED
      BY <1>2, <3>1, <3>2
  <2> QED
    BY <1>1, <2>1, <2>2
<1>3. CASE GetCodecsOther
  <2>1. phase = "codecs" /\ UNCHANGED <<phase, lastVideoDTS>>
    BY <1>3 DEF GetCodecsOther, InGetCodecs
  <2>2. lastVideoDTS = NoDTS
    BY <2>1 DEF DTSInv
  <2>3. videoTicks' \in 0 .. MaxTicks
    <3>1. videoTicks' = videoTicks \/ \E disc \in BOOLEAN : VideoTicks(disc)
      BY <1>3 DEF GetCodecsOther, SendsAudio, SendsUnknown, SendsKey, SendsDelta
    <3>2. CASE videoTicks' = videoTicks
      BY <3>2 DEF DTSInv
    <3>3. ASSUME NEW disc \in BOOLEAN, VideoTicks(disc) PROVE videoTicks' \in 0 .. MaxTicks
      BY <3>3, ClockAssumption DEF VideoTicks, DTSInv
    <3> QED
      BY <3>1, <3>2, <3>3
  <2> QED
    BY <2>1, <2>2, <2>3 DEF DTSInv, NoDTS
<1>4. CASE ReadAudio \/ ReadUnknown
  <2>1. UNCHANGED <<videoTicks, lastVideoDTS, phase, videoCodec>>
    BY <1>4 DEF ReadAudio, ReadUnknown, SendsAudio, SendsUnknown, demVars
  <2> QED
    BY <1>1, <2>1 DEF DTSInv
<1>5. ASSUME NEW disc \in BOOLEAN, ReadKey(disc) \/ ReadDelta(disc) PROVE DTSInv'
  BY <1>5, VideoFrame DEF DTSInv, NoDTS
<1>6. CASE \/ Poll \/ NotReady \/ ContextDone \/ SessionError
           \/ Cancel \/ Pause \/ Resume \/ Refused \/ Close \/ UNCHANGED vars
  <2>1. UNCHANGED <<videoTicks, lastVideoDTS, videoCodec>> /\ phase' \in {phase, "failed", "closed"}
    BY <1>6 DEF Poll, NotReady, ContextDone, SessionError, Ends, Cancel, Pause, Resume, Refused, Close, SetSession,
                vars, camVars, demVars
  <2> QED
    BY <1>1, <2>1 DEF DTSInv
<1> QED
  BY <1>2, <1>3, <1>4, <1>5, <1>6 DEF Next

\* As long as the ticks times time.Second fit a time.Duration, the DTS of the video packets
\* advance, except at a discontinuity.  (Beyond that they do not: run grabber_overflow.)
THEOREM DTSAlwaysAdvances ==
  ASSUME NoOverflow
  PROVE  Spec => DTSAdvances
<1>1. DTSInv /\ [Next]_vars =>
        (pkt' # pkt /\ pkt'.idx = 0 /\ lastVideoDTS # NoDTS => pkt'.disc \/ pkt'.dts > lastVideoDTS.at)
  <2> SUFFICES ASSUME DTSInv, [Next]_vars, pkt' # pkt, pkt'.idx = 0, lastVideoDTS # NoDTS
               PROVE  pkt'.disc \/ pkt'.dts > lastVideoDTS.at
    OBVIOUS
  <2>1. pkt' # NoPkt
    BY DEF NoPkt
  <2>2. ~ReadAudio /\ ~ReadUnknown /\ ~GetCodecsOther
    BY <2>1 DEF ReadAudio, ReadUnknown, GetCodecsOther, InGetCodecs
  <2>3. \A v : ~GetCodecsParamSet(v) /\ ~ReadParamSet(v)
    BY <2>1 DEF GetCodecsParamSet, ReadParamSet, InGetCodecs
  <2>4. ~Poll /\ ~NotReady /\ ~ContextDone /\ ~SessionError
    BY <2>1 DEF Poll, NotReady, ContextDone, SessionError, Ends, outVars
  <2>5. ~Cancel /\ ~Pause /\ ~Resume /\ ~Refused /\ ~Close /\ ~(UNCHANGED vars)
    BY DEF Cancel, Pause, Resume, Refused, Close, SetSession, vars, outVars
  <2>6. PICK disc \in BOOLEAN : ReadKey(disc) \/ ReadDelta(disc)
    BY <2>2, <2>3, <2>4, <2>5 DEF Next
  <2>7. /\ videoTicks' \in 0 .. MaxTicks /\ (~disc => videoTicks < videoTicks')
        /\ pkt'.dts = ticksToDTS(videoTicks', VideoClk) /\ pkt'.disc = disc
    BY <2>6, VideoFrame
  <2>8. videoTicks \in 0 .. MaxTicks /\ lastVideoDTS.at = ticksToDTS(videoTicks, VideoClk)
    BY DEF DTSInv, DTS
  <2>9. CASE disc
    BY <2>7, <2>9
  <2>10. CASE ~disc
    <3>1. ticksToDTS(videoTicks, VideoClk) < ticksToDTS(videoTicks', VideoClk)
      BY <2>7, <2>8, <2>10, TicksAdvance
    <3> QED
      BY <3>1, <2>7, <2>8
  <2> QED
    BY <2>9, <2>10
<1> QED
  BY <1>1, DTSInit, DTSStep, PTL DEF Spec, DTSAdvances
=============================================================================
