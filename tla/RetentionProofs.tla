--------------------------- MODULE RetentionProofs ---------------------------
(***************************************************************************)
(* Proofs about retention, for any policies, sizes, tags and numbers of    *)
(* segments: the caps are reached, with the oldest footage and no more     *)
(* than needed, tags only lengthen a segment's life, and passes delete     *)
(* what is behind rows that cannot be updated.                             *)
(***************************************************************************)
EXTENDS Retention, WellFoundedInduction, FiniteSetTheorems, TLAPS

-----------------------------------------------------------------------------
(* Numbers up to the length of a list. *)

\* The first entry of a kind exists.
LEMMA LeastElement ==
  ASSUME NEW T \in SUBSET Nat, T # {}
  PROVE  \E n \in T : \A m \in T : n <= m
<1>1. PICK n \in T : \A m \in T : ~(<<m, n>> \in OpToRel(<, Nat))
  BY NatLessThanWellFounded, WFMin
<1>2. \A m \in T : ~(m < n)
  BY <1>1 DEF OpToRel
<1> QED
  BY <1>2

\* What holds of 0 and goes from each number to the next holds up to n.
LEMMA CountingUp ==
  ASSUME NEW n \in Nat, NEW G, 0 \in G, \A i \in 1 .. n : i - 1 \in G => i \in G
  PROVE  \A i \in 0 .. n : i \in G
<1> DEFINE Bad == {i \in 0 .. n : i \notin G}
<1> SUFFICES ASSUME Bad # {} PROVE FALSE
  OBVIOUS
<1>1. Bad \in SUBSET Nat
  OBVIOUS
<1> HIDE DEF Bad
<1>2. PICK m \in Bad : \A k \in Bad : m <= k
  BY <1>1, LeastElement
<1>3. m \in 0 .. n /\ m \notin G
  BY <1>2 DEF Bad
<1>4. m # 0 /\ m \in 1 .. n
  BY <1>3
<1>5. m - 1 \notin Bad
  BY <1>2, <1>4
<1> QED
  BY <1>3, <1>4, <1>5 DEF Bad

-----------------------------------------------------------------------------
(* Sums. *)

\* The running sum of the loop.
Runs(f, w, S) ==
  f = [i \in 0 .. Len(w) |-> IF i = 0 THEN 0 ELSE f[i - 1] + (IF i \in S THEN w[i] ELSE 0)]

LEMMA RunExists ==
  ASSUME NEW w \in Seq(Nat), NEW S
  PROVE  \E f : Runs(f, w, S)
<1> DEFINE Step(f, i) == IF i = 0 THEN 0 ELSE f[i - 1] + (IF i \in S THEN w[i] ELSE 0)
           UpTo(m) == \E f : f = [i \in 0 .. m |-> Step(f, i)]
           G == {m \in 0 .. Len(w) : UpTo(m)}
<1>1. 0 \in G
  <2> DEFINE f == [i \in 0 .. 0 |-> 0]
  <2>1. f = [i \in 0 .. 0 |-> Step(f, i)]
    OBVIOUS
  <2> HIDE DEF f
  <2> QED
    BY <2>1
<1>2. ASSUME NEW m \in 1 .. Len(w), m - 1 \in G PROVE m \in G
  <2>1. PICK g : g = [i \in 0 .. m - 1 |-> Step(g, i)]
    BY <1>2
  <2> DEFINE f == [i \in 0 .. m |-> IF i = m THEN Step(g, m) ELSE g[i]]
  <2>2. \A i \in 0 .. m : f[i] = Step(f, i)
    <3> SUFFICES ASSUME NEW i \in 0 .. m PROVE f[i] = Step(f, i)
      OBVIOUS
    <3>1. i # 0 => i - 1 \in 0 .. m - 1 /\ f[i - 1] = g[i - 1]
      OBVIOUS
    <3>2. i # m => g[i] = Step(g, i)
      BY <2>1
    <3> QED
      BY <3>1, <3>2
  <2>3. f = [i \in 0 .. m |-> Step(f, i)]
    <3> DEFINE h == [i \in 0 .. m |-> Step(f, i)]
    <3>1. f = [i \in 0 .. m |-> f[i]] /\ h = [i \in 0 .. m |-> h[i]]
      OBVIOUS
    <3>2. \A i \in 0 .. m : h[i] = Step(f, i)
      OBVIOUS
    <3>3. \A i \in 0 .. m : f[i] = h[i]
      BY <2>2, <3>2
    <3> HIDE DEF f, h
    <3>4. f = h
      BY <3>1, <3>3
    <3> QED
      BY <3>4 DEF h
  <2>4. m \in 0 .. Len(w)
    OBVIOUS
  <2> HIDE DEF f
  <2>5. UpTo(m)
    BY <2>3
  <2> QED
    BY <2>4, <2>5
<1>3. Len(w) \in G
  <2> HIDE DEF G
  <2>1. Len(w) \in Nat
    OBVIOUS
  <2>2. \A i \in 0 .. Len(w) : i \in G
    BY <1>1, <1>2, <2>1, CountingUp
  <2> QED
    BY <2>1, <2>2
<1> QED
  BY <1>3 DEF Runs

LEMMA TotalRuns ==
  ASSUME NEW w \in Seq(Nat), NEW S
  PROVE  \E f : Runs(f, w, S) /\ Total(w, S) = f[Len(w)]
BY RunExists DEF Total, Runs


LEMMA RunFacts ==
  ASSUME NEW w \in Seq(Nat), NEW S, NEW f, Runs(f, w, S)
  PROVE  /\ f[0] = 0
         /\ \A i \in 1 .. Len(w) : f[i] = f[i - 1] + (IF i \in S THEN w[i] ELSE 0)
         /\ \A i \in 0 .. Len(w) : f[i] \in Nat
<1>1. Len(w) \in Nat /\ \A i \in 1 .. Len(w) : w[i] \in Nat
  OBVIOUS
<1> DEFINE Step(i) == IF i = 0 THEN 0 ELSE f[i - 1] + (IF i \in S THEN w[i] ELSE 0)
<1>2. \A i \in 0 .. Len(w) : f[i] = Step(i)
  <2>1. f = [i \in 0 .. Len(w) |-> Step(i)]
    BY DEF Runs
  <2> HIDE DEF Step
  <2> QED
    BY <2>1
<1>3. f[0] = 0 /\ \A i \in 1 .. Len(w) : f[i] = f[i - 1] + (IF i \in S THEN w[i] ELSE 0)
  BY <1>1, <1>2
<1> DEFINE G == {i \in 0 .. Len(w) : f[i] \in Nat}
<1>4. 0 \in G /\ \A i \in 1 .. Len(w) : i - 1 \in G => i \in G
  <2>1. 0 \in G
    BY <1>1, <1>3
  <2>2. ASSUME NEW i \in 1 .. Len(w), i - 1 \in G PROVE i \in G
    <3>1. f[i - 1] \in Nat /\ w[i] \in Nat /\ i \in 0 .. Len(w)
      BY <1>1, <2>2
    <3>2. f[i] = f[i - 1] + (IF i \in S THEN w[i] ELSE 0)
      BY <1>3
    <3> QED
      BY <3>1, <3>2
  <2> QED
    BY <2>1, <2>2
<1>5. \A i \in 0 .. Len(w) : i \in G
  <2> HIDE DEF G
  <2> QED
    BY <1>1, <1>4, CountingUp
<1> QED
  BY <1>3, <1>5

\* The sum over two sets of entries is that of both sums.
LEMMA TotalAdds ==
  ASSUME NEW w \in Seq(Nat), NEW A, NEW B, A \cap B = {}
  PROVE  /\ Total(w, A) \in Nat /\ Total(w, B) \in Nat
         /\ Total(w, A \cup B) = Total(w, A) + Total(w, B)
<1>1. PICK a : Runs(a, w, A) /\ Total(w, A) = a[Len(w)]
  BY TotalRuns
<1>2. PICK b : Runs(b, w, B) /\ Total(w, B) = b[Len(w)]
  BY TotalRuns
<1>3. PICK c : Runs(c, w, A \cup B) /\ Total(w, A \cup B) = c[Len(w)]
  BY TotalRuns
<1>4. Len(w) \in Nat /\ \A i \in 1 .. Len(w) : w[i] \in Nat
  OBVIOUS
<1>5. /\ a[0] = 0 /\ b[0] = 0 /\ c[0] = 0
      /\ \A i \in 0 .. Len(w) : a[i] \in Nat /\ b[i] \in Nat /\ c[i] \in Nat
      /\ \A i \in 1 .. Len(w) : /\ a[i] = a[i - 1] + (IF i \in A THEN w[i] ELSE 0)
                                /\ b[i] = b[i - 1] + (IF i \in B THEN w[i] ELSE 0)
                                /\ c[i] = c[i - 1] + (IF i \in A \cup B THEN w[i] ELSE 0)
  BY <1>1, <1>2, <1>3, RunFacts
<1> DEFINE G == {i \in 0 .. Len(w) : c[i] = a[i] + b[i]}
<1>6. 0 \in G
  BY <1>4, <1>5
<1>7. ASSUME NEW i \in 1 .. Len(w), i - 1 \in G PROVE i \in G
  <2>1. c[i - 1] = a[i - 1] + b[i - 1]
    BY <1>7
  <2>2. i - 1 \in 0 .. Len(w) /\ i \in 0 .. Len(w) /\ w[i] \in Nat
    BY <1>4
  <2>3. c[i] = a[i] + b[i]
    <3>1. /\ a[i] = a[i - 1] + (IF i \in A THEN w[i] ELSE 0)
          /\ b[i] = b[i - 1] + (IF i \in B THEN w[i] ELSE 0)
          /\ c[i] = c[i - 1] + (IF i \in A \cup B THEN w[i] ELSE 0)
      BY <1>5
    <3>2. a[i - 1] \in Nat /\ b[i - 1] \in Nat
      BY <1>5, <2>2
    <3>3. ~(i \in A /\ i \in B)
      OBVIOUS
    <3> QED
      BY <3>1, <3>2, <3>3, <2>1, <2>2
  <2> QED
    BY <2>2, <2>3
<1>8. \A i \in 0 .. Len(w) : i \in G
  <2> HIDE DEF G
  <2> QED
    BY <1>4, <1>6, <1>7, CountingUp
<1> QED
  BY <1>1, <1>2, <1>3, <1>4, <1>5, <1>8

\* The size of a list's entries, as the evaluator adds it up.
Entry == [start : Nat, size : Nat, bytes : Nat, tags : SUBSET Tags, damaged : BOOLEAN]

LEMMA SizesListed ==
  ASSUME NEW es \in Seq(Entry)
  PROVE  [i \in DOMAIN es |-> es[i].size] \in Seq(Nat)
<1>1. Len(es) \in Nat /\ DOMAIN es = 1 .. Len(es) /\ \A i \in DOMAIN es : es[i].size \in Nat
  <2>1. Len(es) \in Nat /\ DOMAIN es = 1 .. Len(es) /\ \A i \in DOMAIN es : es[i] \in Entry
    OBVIOUS
  <2>2. \A e \in Entry : e.size \in Nat
    BY DEF Entry
  <2> QED
    BY <2>1, <2>2
<1>2. [i \in 1 .. Len(es) |-> es[i].size] \in Seq(Nat)
  <2> DEFINE g == [i \in 1 .. Len(es) |-> es[i].size]
  <2>1. g \in [1 .. Len(es) -> Nat]
    BY <1>1
  <2> HIDE DEF g
  <2>2. g \in Seq(Nat)
    BY <1>1, <2>1
  <2> QED
    BY <2>2 DEF g
<1> QED
  BY <1>1, <1>2

LEMMA SizesAdd ==
  ASSUME NEW es \in Seq(Entry), NEW A, NEW B, A \cap B = {}
  PROVE  /\ TotalSize(es, A) \in Nat /\ TotalSize(es, B) \in Nat
         /\ TotalSize(es, A \cup B) = TotalSize(es, A) + TotalSize(es, B)
BY SizesListed, TotalAdds DEF TotalSize

LEMMA SizesType ==
  ASSUME NEW es \in Seq(Entry), NEW A
  PROVE  TotalSize(es, A) \in Nat
<1>1. A \cap {} = {}
  OBVIOUS
<1> QED
  BY <1>1, SizesAdd

LEMMA SizesGrow ==
  ASSUME NEW es \in Seq(Entry), NEW A, NEW B, A \subseteq B
  PROVE  TotalSize(es, A) <= TotalSize(es, B)
<1>1. B = A \cup (B \ A) /\ A \cap (B \ A) = {}
  OBVIOUS
<1>2. /\ TotalSize(es, A) \in Nat /\ TotalSize(es, B \ A) \in Nat
      /\ TotalSize(es, A \cup (B \ A)) = TotalSize(es, A) + TotalSize(es, B \ A)
  BY <1>1, SizesAdd
<1>3. TotalSize(es, B) = TotalSize(es, A) + TotalSize(es, B \ A)
  BY <1>1, <1>2
<1> QED
  BY <1>2, <1>3

LEMMA SizeOfNone ==
  ASSUME NEW es \in Seq(Entry)
  PROVE  TotalSize(es, {}) = 0
<1>1. TotalSize(es, {}) \in Nat /\ TotalSize(es, {} \cup {}) = TotalSize(es, {}) + TotalSize(es, {})
  BY SizesAdd
<1>2. {} \cup {} = {}
  OBVIOUS
<1>3. TotalSize(es, {}) = TotalSize(es, {}) + TotalSize(es, {})
  BY <1>1, <1>2
<1> QED
  BY <1>1, <1>3

-----------------------------------------------------------------------------
(* The walk of the caps. *)

Walked(es, gone, excess, after) == after = DropOldest(es, gone, excess)
Capped(es, gone, p, after) == after = StorageCap(es, gone, p)
Freed(es, gone, p, free, after) == after = DiskFreeCap(es, gone, p, free)

\* It gives up entries until their sizes make up for the excess, or all of them; the
\* oldest ones; and without the newest of them it would not have made up for it.
LEMMA WalkDrops ==
  ASSUME NEW es \in Seq(Entry), NEW gone \in SUBSET DOMAIN es, NEW excess \in Int,
         NEW after, Walked(es, gone, excess, after)
  PROVE  /\ gone \subseteq after /\ after \subseteq DOMAIN es
         /\ after = DOMAIN es \/ TotalSize(es, after \ gone) >= excess
         /\ \A i \in after \ gone, j \in DOMAIN es \ after : i < j
         /\ \A i \in after \ gone : (\A j \in after \ gone : j <= i) =>
              TotalSize(es, (after \ gone) \ {i}) < excess
<1> DEFINE Before(i) == TotalSize(es, (1 .. i - 1) \ gone)
<1>1. DOMAIN es = 1 .. Len(es) /\ Len(es) \in Nat
  OBVIOUS
<1>2. gone \subseteq after /\ after \subseteq DOMAIN es
  BY DEF Walked, DropOldest
<1>3. \A i \in DOMAIN es \ gone : i \in after <=> Before(i) < excess
  BY DEF Walked, DropOldest
<1>4. \A S : TotalSize(es, S) \in Nat
  BY SizesType
<1>5. ASSUME NEW i \in DOMAIN es, NEW j \in DOMAIN es, i <= j PROVE Before(i) <= Before(j)
  <2>1. (1 .. i - 1) \ gone \subseteq (1 .. j - 1) \ gone
    BY <1>1, <1>5
  <2> QED
    BY <2>1, SizesGrow
<1>6. ASSUME NEW i \in after \ gone, NEW j \in DOMAIN es \ after PROVE i < j
  <2>1. i \in DOMAIN es \ gone /\ j \in DOMAIN es \ gone /\ i \in Nat /\ j \in Nat
    BY <1>1, <1>2
  <2>2. Before(i) < excess /\ ~(Before(j) < excess)
    BY <1>3, <2>1
  <2>3. Before(i) \in Nat /\ Before(j) \in Nat
    BY <1>4
  <2>4. ~(j <= i)
    <3>1. j <= i => Before(j) <= Before(i)
      BY <1>5, <2>1
    <3> HIDE DEF Before
    <3> QED
      BY <3>1, <2>2, <2>3
  <2> QED
    BY <2>1, <2>4
<1>7. ASSUME after # DOMAIN es PROVE TotalSize(es, after \ gone) >= excess
  <2> DEFINE Left == DOMAIN es \ after
  <2>1. Left \in SUBSET Nat /\ Left # {}
    <3>1. Left \subseteq Nat
      BY <1>1
    <3>2. Left # {}
      BY <1>2, <1>7
    <3> QED
      BY <3>1, <3>2
  <2>2. PICK j \in Left : \A m \in Left : j <= m
    <3> HIDE DEF Left
    <3> QED
      BY <2>1, LeastElement
  <2>3. (1 .. j - 1) \ gone \subseteq after \ gone
    <3> SUFFICES ASSUME NEW m \in 1 .. j - 1, m \notin after PROVE FALSE
      OBVIOUS
    <3>1. m \in Left /\ m < j
      BY <1>1, <2>2
    <3> QED
      BY <3>1, <2>1, <2>2
  <2>4. ~(Before(j) < excess)
    BY <1>2, <1>3, <2>2
  <2>5. Before(j) <= TotalSize(es, after \ gone)
    BY <2>3, SizesGrow
  <2>6. Before(j) \in Nat /\ TotalSize(es, after \ gone) \in Nat
    BY <1>4
  <2> QED
    BY <2>4, <2>5, <2>6
<1>8. ASSUME NEW i \in after \ gone, \A j \in after \ gone : j <= i
      PROVE  TotalSize(es, (after \ gone) \ {i}) < excess
  <2>1. (after \ gone) \ {i} \subseteq (1 .. i - 1) \ gone
    BY <1>1, <1>2, <1>8
  <2>2. TotalSize(es, (after \ gone) \ {i}) <= Before(i)
    BY <2>1, SizesGrow
  <2>3. Before(i) < excess
    BY <1>2, <1>3
  <2>4. Before(i) \in Nat /\ TotalSize(es, (after \ gone) \ {i}) \in Nat
    BY <1>4
  <2> QED
    BY <2>2, <2>3, <2>4
<1> QED
  BY <1>2, <1>6, <1>7, <1>8

\* Each cap adds to what is gone.
LEMMA CapsNested ==
  ASSUME NEW es \in Seq(Entry), NEW gone \in SUBSET DOMAIN es, NEW p \in Policies, NEW free \in Int,
         NEW capped, Capped(es, gone, p, capped),
         NEW flagged, Freed(es, capped, p, free, flagged)
  PROVE  /\ gone \subseteq capped /\ capped \subseteq flagged /\ flagged \subseteq DOMAIN es
<1> DEFINE excess == TotalSize(es, DOMAIN es \ gone) - p.maxStorage
           deficit == p.minFree - free - TotalSize(es, capped)
<1>1. p.maxStorage \in Nat /\ p.minFree \in Nat
  BY RetentionAssumption
<1>2. \A S : TotalSize(es, S) \in Nat
  BY SizesType
<1>3. excess \in Int /\ deficit \in Int
  BY <1>1, <1>2
<1> HIDE DEF excess, deficit
<1>4. gone \subseteq capped /\ capped \subseteq DOMAIN es
  <2>1. CASE p.maxStorage <= 0
    BY <2>1 DEF Capped, StorageCap
  <2>2. CASE ~(p.maxStorage <= 0)
    <3>1. Walked(es, gone, excess, capped)
      BY <2>2 DEF Capped, StorageCap, Walked, excess
    <3> QED
      BY <3>1, <1>3, WalkDrops
  <2> QED
    BY <2>1, <2>2
<1>5. capped \subseteq flagged /\ flagged \subseteq DOMAIN es
  <2>1. CASE p.minFree <= 0 \/ free <= 0 \/ free >= p.minFree
    BY <2>1, <1>4 DEF Freed, DiskFreeCap
  <2>2. CASE ~(p.minFree <= 0 \/ free <= 0 \/ free >= p.minFree)
    <3>1. Walked(es, capped, deficit, flagged)
      BY <2>2 DEF Freed, DiskFreeCap, Walked, deficit
    <3>2. capped \in SUBSET DOMAIN es
      BY <1>4
    <3> QED
      BY <3>1, <3>2, <1>3, WalkDrops
  <2> QED
    BY <2>1, <2>2
<1> QED
  BY <1>4, <1>5

Listed(es, S) == S \subseteq DOMAIN es

LEMMA CapsListed ==
  ASSUME NEW es \in Seq(Entry), NEW gone \in SUBSET DOMAIN es, NEW p \in Policies, NEW free \in Int,
         NEW capped, Capped(es, gone, p, capped),
         NEW flagged, Freed(es, capped, p, free, flagged)
  PROVE  Listed(es, flagged)
<1>1. flagged \subseteq DOMAIN es
  BY CapsNested
<1> QED
  BY <1>1 DEF Listed

\* A critically low disk gets back to its threshold, or nothing is kept.
FreesEnough(es, p, free, flagged) ==
  p.minFree > 0 /\ free > 0 /\ free < p.minFree =>
    DOMAIN es \ flagged = {} \/ free + TotalSize(es, flagged) >= p.minFree

\* What the tiers, the storage cap and the free-space cap leave of a list.
LEMMA CapsReached ==
  ASSUME NEW es \in Seq(Entry), NEW gone \in SUBSET DOMAIN es, NEW p \in Policies, NEW free \in Int,
         NEW capped, Capped(es, gone, p, capped),
         NEW flagged, Freed(es, capped, p, free, flagged)
  PROVE  /\ gone \subseteq capped /\ capped \subseteq flagged /\ flagged \subseteq DOMAIN es
         /\ p.maxStorage > 0 => TotalSize(es, DOMAIN es \ flagged) <= p.maxStorage
         /\ FreesEnough(es, p, free, flagged)
<1> DEFINE excess == TotalSize(es, DOMAIN es \ gone) - p.maxStorage
           deficit == p.minFree - free - TotalSize(es, capped)
<1>1. p.maxStorage \in Nat /\ p.minFree \in Nat
  BY RetentionAssumption
<1>2. \A S : TotalSize(es, S) \in Nat
  BY SizesType
<1>3. excess \in Int /\ deficit \in Int
  BY <1>1, <1>2
<1> HIDE DEF excess, deficit
<1>4. gone \subseteq capped /\ capped \subseteq flagged /\ flagged \subseteq DOMAIN es
  <2>1. gone \subseteq capped
    BY CapsNested
  <2>2. capped \subseteq flagged
    BY CapsNested
  <2>3. flagged \subseteq DOMAIN es
    BY CapsNested
  <2> QED
    BY <2>1, <2>2, <2>3
<1>6. ASSUME p.maxStorage > 0 PROVE TotalSize(es, DOMAIN es \ flagged) <= p.maxStorage
  <2>1. Walked(es, gone, excess, capped)
    BY <1>1, <1>6 DEF Capped, StorageCap, Walked, excess
  <2>2. capped = DOMAIN es \/ TotalSize(es, capped \ gone) >= excess
    BY <2>1, <1>3, WalkDrops
  <2>3. TotalSize(es, DOMAIN es \ flagged) <= TotalSize(es, DOMAIN es \ capped)
    <3>1. DOMAIN es \ flagged \subseteq DOMAIN es \ capped
      BY <1>4
    <3> QED
      BY <3>1, SizesGrow
  <2>4. TotalSize(es, DOMAIN es \ capped) <= p.maxStorage
    <3>1. CASE capped = DOMAIN es
      <4>1. DOMAIN es \ capped = {}
        BY <3>1
      <4>2. TotalSize(es, DOMAIN es \ capped) = 0
        BY <4>1, SizeOfNone
      <4> QED
        BY <4>2, <1>1
    <3>2. CASE TotalSize(es, capped \ gone) >= excess
      <4>1. DOMAIN es \ gone = (capped \ gone) \cup (DOMAIN es \ capped)
            /\ (capped \ gone) \cap (DOMAIN es \ capped) = {}
        BY <1>4
      <4>2. TotalSize(es, (capped \ gone) \cup (DOMAIN es \ capped)) =
              TotalSize(es, capped \ gone) + TotalSize(es, DOMAIN es \ capped)
        BY <4>1, SizesAdd
      <4>3. TotalSize(es, DOMAIN es \ gone) = TotalSize(es, capped \ gone) + TotalSize(es, DOMAIN es \ capped)
        BY <4>1, <4>2
      <4>4. /\ TotalSize(es, DOMAIN es \ gone) \in Nat /\ TotalSize(es, capped \ gone) \in Nat
            /\ TotalSize(es, DOMAIN es \ capped) \in Nat
        BY <1>2
      <4> QED
        BY <4>3, <4>4, <3>2, <1>1 DEF excess
    <3> QED
      BY <2>2, <3>1, <3>2
  <2>5. TotalSize(es, DOMAIN es \ flagged) \in Nat /\ TotalSize(es, DOMAIN es \ capped) \in Nat
    BY <1>2
  <2> QED
    BY <2>3, <2>4, <2>5, <1>1
<1>7. ASSUME p.minFree > 0, free > 0, free < p.minFree
      PROVE  DOMAIN es \ flagged = {} \/ free + TotalSize(es, flagged) >= p.minFree
  <2>1. Walked(es, capped, deficit, flagged)
    BY <1>1, <1>7 DEF Freed, DiskFreeCap, Walked, deficit
  <2>2. capped \in SUBSET DOMAIN es
    BY <1>4
  <2>3. flagged = DOMAIN es \/ TotalSize(es, flagged \ capped) >= deficit
    BY <2>1, <2>2, <1>3, WalkDrops
  <2>4. flagged = capped \cup (flagged \ capped) /\ capped \cap (flagged \ capped) = {}
    BY <1>4
  <2>5. TotalSize(es, capped \cup (flagged \ capped)) = TotalSize(es, capped) + TotalSize(es, flagged \ capped)
    BY <2>4, SizesAdd
  <2>6. TotalSize(es, flagged) = TotalSize(es, capped) + TotalSize(es, flagged \ capped)
    BY <2>4, <2>5
  <2>7. TotalSize(es, flagged) \in Nat /\ TotalSize(es, capped) \in Nat /\ TotalSize(es, flagged \ capped) \in Nat
    BY <1>2
  <2>8. CASE TotalSize(es, flagged \ capped) >= deficit
    BY <2>6, <2>7, <2>8, <1>1 DEF deficit
  <2> QED
    BY <2>3, <2>8
<1>8. FreesEnough(es, p, free, flagged)
  BY <1>7 DEF FreesEnough
<1> QED
  BY <1>4, <1>6, <1>8

\* The caps together: the oldest go, and the newest of those that went for space was
\* needed by one of the caps.
LEMMA CapsSpare ==
  ASSUME NEW es \in Seq(Entry), NEW gone \in SUBSET DOMAIN es, NEW p \in Policies, NEW free \in Int,
         NEW capped, Capped(es, gone, p, capped),
         NEW flagged, Freed(es, capped, p, free, flagged)
  PROVE  /\ \A i \in flagged \ gone, j \in DOMAIN es \ flagged : i < j
         /\ \A newest \in flagged \ gone : (\A j \in flagged \ gone : j <= newest) =>
              \/ /\ p.maxStorage > 0
                 /\ TotalSize(es, (DOMAIN es \ flagged) \cup {newest}) > p.maxStorage
              \/ /\ p.minFree > 0 /\ free > 0 /\ free < p.minFree
                 /\ free + TotalSize(es, flagged \ {newest}) < p.minFree
<1> DEFINE excess == TotalSize(es, DOMAIN es \ gone) - p.maxStorage
           deficit == p.minFree - free - TotalSize(es, capped)
<1>1. p.maxStorage \in Nat /\ p.minFree \in Nat
  BY RetentionAssumption
<1>2. \A S : TotalSize(es, S) \in Nat
  BY SizesType
<1>3. excess \in Int /\ deficit \in Int
  BY <1>1, <1>2
<1> HIDE DEF excess, deficit
<1>4. gone \subseteq capped /\ capped \subseteq flagged /\ flagged \subseteq DOMAIN es /\ capped \in SUBSET DOMAIN es
  <2>1. gone \subseteq capped
    BY CapsNested
  <2>2. capped \subseteq flagged
    BY CapsNested
  <2>3. flagged \subseteq DOMAIN es
    BY CapsNested
  <2> QED
    BY <2>1, <2>2, <2>3
<1>5. DOMAIN es = 1 .. Len(es) /\ Len(es) \in Nat
  OBVIOUS
<1>6. ASSUME NEW i \in capped \ gone
      PROVE  /\ p.maxStorage > 0
             /\ \A j \in DOMAIN es \ capped : i < j
             /\ (\A j \in capped \ gone : j <= i) => TotalSize(es, (capped \ gone) \ {i}) < excess
  <2>1. p.maxStorage > 0 /\ Walked(es, gone, excess, capped)
    BY <1>1, <1>6 DEF Capped, StorageCap, Walked, excess
  <2>2. /\ \A m \in capped \ gone, j \in DOMAIN es \ capped : m < j
        /\ \A m \in capped \ gone : (\A j \in capped \ gone : j <= m) =>
             TotalSize(es, (capped \ gone) \ {m}) < excess
    BY <2>1, <1>3, WalkDrops
  <2> QED
    BY <2>1, <2>2
<1>7. ASSUME NEW i \in flagged \ capped
      PROVE  /\ p.minFree > 0 /\ free > 0 /\ free < p.minFree
             /\ \A j \in DOMAIN es \ flagged : i < j
             /\ (\A j \in flagged \ capped : j <= i) => TotalSize(es, (flagged \ capped) \ {i}) < deficit
  <2>1. /\ p.minFree > 0 /\ free > 0 /\ free < p.minFree
        /\ Walked(es, capped, deficit, flagged)
    BY <1>1, <1>7 DEF Freed, DiskFreeCap, Walked, deficit
  <2>2. /\ \A m \in flagged \ capped, j \in DOMAIN es \ flagged : m < j
        /\ \A m \in flagged \ capped : (\A j \in flagged \ capped : j <= m) =>
             TotalSize(es, (flagged \ capped) \ {m}) < deficit
    <3>1. capped \in SUBSET DOMAIN es /\ deficit \in Int /\ Walked(es, capped, deficit, flagged)
      BY <2>1, <1>3, <1>4
    <3>2. \A m \in flagged \ capped, j \in DOMAIN es \ flagged : m < j
      BY <3>1, WalkDrops
    <3>3. \A m \in flagged \ capped : (\A j \in flagged \ capped : j <= m) =>
             TotalSize(es, (flagged \ capped) \ {m}) < deficit
      BY <3>1, WalkDrops
    <3> QED
      BY <3>2, <3>3
  <2> QED
    BY <2>1, <2>2
<1>8. ASSUME NEW i \in flagged \ gone, NEW j \in DOMAIN es \ flagged PROVE i < j
  <2>1. CASE i \in capped
    BY <2>1, <1>4, <1>6
  <2>2. CASE i \notin capped
    BY <2>2, <1>7
  <2> QED
    BY <2>1, <2>2
<1>9. ASSUME NEW newest \in flagged \ gone, \A j \in flagged \ gone : j <= newest
      PROVE  \/ /\ p.maxStorage > 0
                /\ TotalSize(es, (DOMAIN es \ flagged) \cup {newest}) > p.maxStorage
             \/ /\ p.minFree > 0 /\ free > 0 /\ free < p.minFree
                /\ free + TotalSize(es, flagged \ {newest}) < p.minFree
  <2>1. CASE newest \notin capped
    <3>1. \A j \in flagged \ capped : j <= newest
      BY <1>4, <1>9
    <3>2. /\ p.minFree > 0 /\ free > 0 /\ free < p.minFree
          /\ TotalSize(es, (flagged \ capped) \ {newest}) < deficit
      BY <2>1, <3>1, <1>7
    <3>3. /\ flagged \ {newest} = capped \cup ((flagged \ capped) \ {newest})
          /\ capped \cap ((flagged \ capped) \ {newest}) = {}
      BY <2>1, <1>4
    <3>4. TotalSize(es, capped \cup ((flagged \ capped) \ {newest})) =
            TotalSize(es, capped) + TotalSize(es, (flagged \ capped) \ {newest})
      BY <3>3, SizesAdd
    <3>5. TotalSize(es, flagged \ {newest}) = TotalSize(es, capped) + TotalSize(es, (flagged \ capped) \ {newest})
      BY <3>3, <3>4
    <3>6. /\ TotalSize(es, capped) \in Nat /\ TotalSize(es, flagged \ {newest}) \in Nat
          /\ TotalSize(es, (flagged \ capped) \ {newest}) \in Nat
      BY <1>2
    <3> QED
      BY <3>2, <3>5, <3>6, <1>1 DEF deficit
  <2>2. CASE newest \in capped
    <3>1. \A j \in capped \ gone : j <= newest
      BY <1>4, <1>9
    <3>2. /\ p.maxStorage > 0 /\ TotalSize(es, (capped \ gone) \ {newest}) < excess
          /\ \A j \in DOMAIN es \ capped : newest < j
      BY <2>2, <3>1, <1>6
    <3>3. flagged = capped
      <4> SUFFICES ASSUME NEW j \in flagged, j \notin capped PROVE FALSE
        BY <1>4
      <4>1. j <= newest /\ newest < j /\ j \in Nat /\ newest \in Nat
        BY <1>4, <1>5, <1>9, <3>2
      <4> QED
        BY <4>1
    <3> DEFINE rest == (capped \ gone) \ {newest}
               kept == (DOMAIN es \ capped) \cup {newest}
    <3>4. DOMAIN es \ gone = rest \cup kept /\ rest \cap kept = {}
      BY <2>2, <1>4, <1>9
    <3>5. TotalSize(es, rest \cup kept) = TotalSize(es, rest) + TotalSize(es, kept)
      BY <3>4, SizesAdd
    <3>6. TotalSize(es, DOMAIN es \ gone) = TotalSize(es, rest) + TotalSize(es, kept)
      BY <3>4, <3>5
    <3>7. TotalSize(es, rest) \in Nat /\ TotalSize(es, kept) \in Nat /\ TotalSize(es, DOMAIN es \ gone) \in Nat
      BY <1>2
    <3>8. TotalSize(es, rest) < excess
      BY <3>2
    <3> HIDE DEF rest, kept
    <3>9. TotalSize(es, kept) > p.maxStorage
      BY <3>6, <3>7, <3>8, <1>1 DEF excess
    <3> QED
      BY <3>2, <3>3, <3>9 DEF kept
  <2> QED
    BY <2>1, <2>2
<1> QED
  BY <1>8, <1>9

\* The newest of a set of entries, as Max chooses it.
LEMMA NewestExists ==
  ASSUME NEW n \in Nat, NEW T \in SUBSET (1 .. n), T # {}
  PROVE  Max(T) \in T /\ \A j \in T : j <= Max(T)
<1> DEFINE Bounds == {b \in Nat : \A j \in T : j <= b}
<1>1. n \in Bounds /\ Bounds \in SUBSET Nat
  OBVIOUS
<1>2. PICK b \in Bounds : \A c \in Bounds : b <= c
  <2> HIDE DEF Bounds
  <2>1. Bounds # {}
    BY <1>1
  <2> QED
    BY <2>1, <1>1, LeastElement
<1>3. b \in T
  <2> SUFFICES ASSUME b \notin T PROVE FALSE
    OBVIOUS
  <2>1. PICK j \in T : TRUE
    OBVIOUS
  <2>2. b >= 1 /\ b \in Nat
    BY <1>2, <2>1
  <2>3. b - 1 \in Bounds
    BY <1>2, <2>2
  <2> QED
    BY <1>2, <2>2, <2>3
<1>4. \A j \in T : b >= j
  BY <1>2
<1>5. Max(T) \in T /\ \A j \in T : Max(T) >= j
  BY <1>3, <1>4 DEF Max
<1> QED
  BY <1>5

-----------------------------------------------------------------------------
(* Deleting rows. *)

Keeps(f, es, S) ==
  f = [i \in 0 .. Len(es) |->
         IF i = 0 THEN <<>> ELSE IF i \in S THEN f[i - 1] ELSE Append(f[i - 1], es[i])]

LEMMA KeptExists ==
  ASSUME NEW es \in Seq(Entry), NEW S
  PROVE  \E f : Keeps(f, es, S)
<1> DEFINE Step(f, i) == IF i = 0 THEN <<>> ELSE IF i \in S THEN f[i - 1] ELSE Append(f[i - 1], es[i])
           UpTo(m) == \E f : f = [i \in 0 .. m |-> Step(f, i)]
           G == {m \in 0 .. Len(es) : UpTo(m)}
<1>1. 0 \in G
  <2> DEFINE f == [i \in 0 .. 0 |-> <<>>]
  <2>1. f = [i \in 0 .. 0 |-> Step(f, i)]
    OBVIOUS
  <2> HIDE DEF f
  <2> QED
    BY <2>1
<1>2. ASSUME NEW m \in 1 .. Len(es), m - 1 \in G PROVE m \in G
  <2>1. PICK g : g = [i \in 0 .. m - 1 |-> Step(g, i)]
    BY <1>2
  <2> DEFINE f == [i \in 0 .. m |-> IF i = m THEN Step(g, m) ELSE g[i]]
  <2>2. \A i \in 0 .. m : f[i] = Step(f, i)
    <3> SUFFICES ASSUME NEW i \in 0 .. m PROVE f[i] = Step(f, i)
      OBVIOUS
    <3>1. i # 0 => i - 1 \in 0 .. m - 1 /\ f[i - 1] = g[i - 1]
      OBVIOUS
    <3>2. i # m => g[i] = Step(g, i)
      <4>1. i # m => i \in 0 .. m - 1
        OBVIOUS
      <4> HIDE DEF Step
      <4> QED
        BY <2>1, <4>1
    <3>3. f[i] = Step(g, i)
      BY <3>2
    <3> HIDE DEF f
    <3> QED
      BY <3>1, <3>3
  <2>3. f = [i \in 0 .. m |-> Step(f, i)]
    <3> DEFINE h == [i \in 0 .. m |-> Step(f, i)]
    <3>1. f = [i \in 0 .. m |-> f[i]] /\ h = [i \in 0 .. m |-> h[i]]
      OBVIOUS
    <3>2. \A i \in 0 .. m : h[i] = Step(f, i)
      OBVIOUS
    <3>3. \A i \in 0 .. m : f[i] = h[i]
      BY <2>2, <3>2
    <3> HIDE DEF f, h
    <3>4. f = h
      BY <3>1, <3>3
    <3> QED
      BY <3>4 DEF h
  <2>4. m \in 0 .. Len(es)
    OBVIOUS
  <2> HIDE DEF f
  <2>5. UpTo(m)
    BY <2>3
  <2> QED
    BY <2>4, <2>5
<1>3. Len(es) \in G
  <2> HIDE DEF G
  <2>1. Len(es) \in Nat
    OBVIOUS
  <2>2. \A i \in 0 .. Len(es) : i \in G
    BY <1>1, <1>2, <2>1, CountingUp
  <2> QED
    BY <2>1, <2>2
<1> QED
  BY <1>3 DEF Keeps

LEMMA KeptIs ==
  ASSUME NEW es \in Seq(Entry), NEW S
  PROVE  \E f : Keeps(f, es, S) /\ Without(es, S) = f[Len(es)]
<1> DEFINE kept == CHOOSE f : Keeps(f, es, S)
<1>1. Keeps(kept, es, S)
  BY KeptExists
<1>2. Without(es, S) = kept[Len(es)]
  BY DEF Without, Keeps
<1> QED
  BY <1>1, <1>2

LEMMA KeptFacts ==
  ASSUME NEW es \in Seq(Entry), NEW S, NEW f, Keeps(f, es, S)
  PROVE  /\ f[0] = <<>>
         /\ \A i \in 1 .. Len(es) : f[i] = IF i \in S THEN f[i - 1] ELSE Append(f[i - 1], es[i])
<1> DEFINE Step(i) == IF i = 0 THEN <<>> ELSE IF i \in S THEN f[i - 1] ELSE Append(f[i - 1], es[i])
<1>1. \A i \in 0 .. Len(es) : f[i] = Step(i)
  <2>1. f = [i \in 0 .. Len(es) |-> Step(i)]
    BY DEF Keeps
  <2> HIDE DEF Step
  <2> QED
    BY <2>1
<1>2. Len(es) \in Nat
  OBVIOUS
<1> QED
  BY <1>1, <1>2

\* What is left of a list is a list of entries.
LEMMA WithoutKeeps ==
  ASSUME NEW es \in Seq(Entry), NEW S
  PROVE  Without(es, S) \in Seq(Entry)
<1>1. PICK f : Keeps(f, es, S) /\ Without(es, S) = f[Len(es)]
  BY KeptIs
<1>2. Len(es) \in Nat /\ \A i \in 1 .. Len(es) : es[i] \in Entry
  OBVIOUS
<1>3. /\ f[0] = <<>>
      /\ \A i \in 1 .. Len(es) : f[i] = IF i \in S THEN f[i - 1] ELSE Append(f[i - 1], es[i])
  BY <1>1, KeptFacts
<1> DEFINE G == {i \in 0 .. Len(es) : f[i] \in Seq(Entry)}
<1>4. 0 \in G
  <2>1. f[0] \in Seq(Entry)
    BY <1>3
  <2> QED
    BY <1>2, <2>1
<1>5. ASSUME NEW i \in 1 .. Len(es), i - 1 \in G PROVE i \in G
  <2>1. f[i - 1] \in Seq(Entry) /\ i \in 0 .. Len(es)
    BY <1>2, <1>5
  <2>2. CASE i \in S
    BY <2>1, <2>2, <1>3
  <2>3. CASE i \notin S
    <3> DEFINE g == f[i - 1]
               e == es[i]
    <3>1. f[i] = Append(g, e) /\ e \in Entry /\ g \in Seq(Entry)
      BY <2>1, <2>3, <1>2, <1>3
    <3> HIDE DEF g, e
    <3>2. f[i] \in Seq(Entry)
      BY <3>1
    <3> QED
      BY <2>1, <3>2
  <2> QED
    BY <2>2, <2>3
<1>6. \A i \in 0 .. Len(es) : i \in G
  <2> HIDE DEF G
  <2> QED
    BY <1>2, <1>4, <1>5, CountingUp
<1>7. Len(es) \in G
  BY <1>2, <1>6
<1> QED
  BY <1>1, <1>7

\* A list from which some entry goes gets shorter.
LEMMA WithoutShortens ==
  ASSUME NEW es \in Seq(Entry), NEW S, NEW d \in DOMAIN es, d \in S
  PROVE  Len(Without(es, S)) < Len(es)
<1>1. PICK f : Keeps(f, es, S) /\ Without(es, S) = f[Len(es)]
  BY KeptIs
<1>2. Len(es) \in Nat /\ DOMAIN es = 1 .. Len(es) /\ d \in 1 .. Len(es)
  OBVIOUS
<1>3. /\ f[0] = <<>>
      /\ \A i \in 1 .. Len(es) : f[i] = IF i \in S THEN f[i - 1] ELSE Append(f[i - 1], es[i])
  BY <1>1, KeptFacts
<1> DEFINE Short(i) == /\ f[i] \in Seq(Entry) /\ Len(f[i]) <= i
                       /\ d <= i => Len(f[i]) < i
           G == {i \in 0 .. Len(es) : Short(i)}
<1>4. 0 \in G
  <2>1. f[0] \in Seq(Entry) /\ Len(f[0]) = 0
    BY <1>3
  <2> QED
    BY <1>2, <2>1
<1>5. ASSUME NEW i \in 1 .. Len(es), i - 1 \in G PROVE i \in G
  <2>1. f[i - 1] \in Seq(Entry) /\ Len(f[i - 1]) <= i - 1 /\ (d <= i - 1 => Len(f[i - 1]) < i - 1)
    BY <1>5
  <2>2. i \in Nat /\ i \in 0 .. Len(es) /\ d \in Nat /\ Len(f[i - 1]) \in Nat
    BY <1>2, <2>1
  <2>3. CASE i \in S
    <3>1. f[i] = f[i - 1]
      BY <1>3, <2>3
    <3> QED
      BY <2>1, <2>2, <3>1
  <2>4. CASE i \notin S
    <3>1. f[i] = Append(f[i - 1], es[i])
      BY <1>3, <2>4
    <3>2. f[i] \in Seq(Entry) /\ Len(f[i]) = Len(f[i - 1]) + 1
      BY <2>1, <3>1, <1>2
    <3>3. i # d
      BY <2>4
    <3>4. d <= i => d <= i - 1
      BY <2>2, <3>3
    <3> QED
      BY <2>1, <2>2, <3>2, <3>4
  <2> QED
    BY <2>3, <2>4
<1>6. \A i \in 0 .. Len(es) : i \in G
  <2> HIDE DEF G
  <2> QED
    BY <1>2, <1>4, <1>5, CountingUp
<1>7. Len(es) \in G
  BY <1>2, <1>6
<1> QED
  BY <1>1, <1>2, <1>7

-----------------------------------------------------------------------------
(* The specification. *)

\* The sizes, dates and tags in the rows and the bytes without a row are numbers.
RowsInv ==
  /\ policy \in Policies /\ now \in Nat /\ recorded \in Nat
  /\ rows \in Seq(Entry) /\ leftover \in Nat /\ faults \in Nat

LEMMA RowsInit == Init => RowsInv
  BY DEF Init, RowsInv

LEMMA RowsAdded ==
  ASSUME RowsInv, NEW size \in Nat, NEW bytes \in Nat, NEW tags \in SUBSET Tags, NEW damaged \in BOOLEAN,
         Adds([start |-> now, size |-> size, bytes |-> bytes, tags |-> tags, damaged |-> damaged])
  PROVE  RowsInv'
<1> DEFINE e == [start |-> now, size |-> size, bytes |-> bytes, tags |-> tags, damaged |-> damaged]
<1>1. e \in Entry
  BY DEF Entry, RowsInv
<1>2. rows' = Append(rows, e) /\ recorded' = recorded + 1 /\ UNCHANGED <<policy, leftover, now, faults>>
  BY DEF Adds
<1> HIDE DEF e
<1> QED
  BY <1>1, <1>2 DEF RowsInv

LEMMA BytesType ==
  ASSUME NEW es \in Seq(Entry), NEW A
  PROVE  TotalBytes(es, A) \in Nat
<1>1. Len(es) \in Nat /\ DOMAIN es = 1 .. Len(es) /\ \A i \in DOMAIN es : es[i].bytes \in Nat
  <2>1. Len(es) \in Nat /\ DOMAIN es = 1 .. Len(es) /\ \A i \in DOMAIN es : es[i] \in Entry
    OBVIOUS
  <2>2. \A e \in Entry : e.bytes \in Nat
    BY DEF Entry
  <2> QED
    BY <2>1, <2>2
<1> DEFINE g == [i \in DOMAIN es |-> es[i].bytes]
<1>2. g \in [1 .. Len(es) -> Nat]
  BY <1>1
<1>3. TotalBytes(es, A) = Total(g, A)
  BY DEF TotalBytes
<1> HIDE DEF g
<1>4. g \in Seq(Nat)
  BY <1>1, <1>2
<1>5. A \cap {} = {}
  OBVIOUS
<1> QED
  BY <1>3, <1>4, <1>5, TotalAdds

\* A pass in which the query succeeds deletes what it does not keep of its batch.
LEMMA PassDeletes ==
  ASSUME Pass, ~QueryFails
  PROVE  \E diskFree \in {DiskFree(rows, policy), 0} :
           \E kept \in SUBSET BatchOf(FlaggedAt(diskFree), policy, diskFree) :
             \E left \in SUBSET (BatchOf(FlaggedAt(diskFree), policy, diskFree) \ kept) :
               /\ Faults(Cardinality(kept \ Damaged) + Cardinality(left)
                         + (IF diskFree = DiskFree(rows, policy) THEN 0 ELSE 1))
               /\ DeleteAll(BatchOf(FlaggedAt(diskFree), policy, diskFree), kept, left)
BY DEF Pass

LEMMA FlaggedListed ==
  ASSUME RowsInv, NEW diskFree \in Int
  PROVE  FlaggedAt(diskFree) \subseteq DOMAIN rows
<1> DEFINE gone == Expired(rows, policy, now)
           capped == StorageCap(rows, gone, policy)
<1>1. rows \in Seq(Entry) /\ policy \in Policies /\ gone \in SUBSET DOMAIN rows
  BY DEF RowsInv, Expired
<1>2. Capped(rows, gone, policy, capped) /\ Freed(rows, capped, policy, diskFree, FlaggedAt(diskFree))
  BY DEF Capped, Freed, FlaggedAt, EvaluateRetention
<1> HIDE DEF gone, capped
<1>3. Listed(rows, FlaggedAt(diskFree))
  BY <1>1, <1>2, CapsListed
<1> QED
  BY <1>3 DEF Listed

LEMMA RowsFinite == RowsInv => IsFiniteSet(DOMAIN rows)
<1> SUFFICES ASSUME RowsInv PROVE IsFiniteSet(DOMAIN rows)
  OBVIOUS
<1>1. DOMAIN rows = 1 .. Len(rows) /\ Len(rows) \in Nat
  BY DEF RowsInv
<1> QED
  BY <1>1, FS_Interval

LEMMA DiskFreeType == RowsInv => DiskFree(rows, policy) \in Int
<1> SUFFICES ASSUME RowsInv PROVE DiskFree(rows, policy) \in Int
  OBVIOUS
<1>1. TotalBytes(rows, DOMAIN rows) \in Nat /\ leftover \in Nat
  BY BytesType DEF RowsInv
<1> QED
  BY <1>1, RetentionAssumption DEF DiskFree, Free

LEMMA BatchListed ==
  ASSUME RowsInv, NEW diskFree \in {DiskFree(rows, policy), 0}
  PROVE  /\ BatchOf(FlaggedAt(diskFree), policy, diskFree) \subseteq DOMAIN rows
         /\ IsFiniteSet(BatchOf(FlaggedAt(diskFree), policy, diskFree))
<1>1. BatchOf(FlaggedAt(diskFree), policy, diskFree) \subseteq FlaggedAt(diskFree)
  BY DEF BatchOf
<1>2. diskFree \in Int
  BY DiskFreeType
<1>3. FlaggedAt(diskFree) \subseteq DOMAIN rows
  BY <1>2, FlaggedListed
<1>4. IsFiniteSet(DOMAIN rows)
  BY RowsFinite
<1> QED
  BY <1>1, <1>3, <1>4, FS_Subset

LEMMA RowsPass == RowsInv /\ Pass => RowsInv'
<1> SUFFICES ASSUME RowsInv, Pass PROVE RowsInv'
  OBVIOUS
<1>1. CASE QueryFails
  BY <1>1 DEF QueryFails, Faults, RowsInv
<1>2. CASE ~QueryFails
  <2>1. PICK diskFree \in {DiskFree(rows, policy), 0} :
          \E kept \in SUBSET BatchOf(FlaggedAt(diskFree), policy, diskFree) :
            \E left \in SUBSET (BatchOf(FlaggedAt(diskFree), policy, diskFree) \ kept) :
              /\ Faults(Cardinality(kept \ Damaged) + Cardinality(left)
                        + (IF diskFree = DiskFree(rows, policy) THEN 0 ELSE 1))
              /\ DeleteAll(BatchOf(FlaggedAt(diskFree), policy, diskFree), kept, left)
    BY <1>2, PassDeletes
  <2> DEFINE batch == BatchOf(FlaggedAt(diskFree), policy, diskFree)
             risen == IF diskFree = DiskFree(rows, policy) THEN 0 ELSE 1
  <2>2. PICK kept \in SUBSET batch : \E left \in SUBSET (batch \ kept) :
          /\ Faults(Cardinality(kept \ Damaged) + Cardinality(left) + risen)
          /\ DeleteAll(batch, kept, left)
    BY <2>1
  <2>3. PICK left \in SUBSET (batch \ kept) :
          /\ Faults(Cardinality(kept \ Damaged) + Cardinality(left) + risen)
          /\ DeleteAll(batch, kept, left)
    BY <2>2
  <2>4. IsFiniteSet(batch)
    BY <2>1, BatchListed
  <2>5. Cardinality(kept \ Damaged) \in Nat /\ Cardinality(left) \in Nat /\ risen \in Nat
    <3>1. IsFiniteSet(kept \ Damaged) /\ IsFiniteSet(left)
      BY <2>4, FS_Subset
    <3>2. risen \in Nat
      OBVIOUS
    <3> QED
      BY <3>1, <3>2, FS_CardinalityType
  <2> HIDE DEF batch, risen
  <2>6. faults' \in Nat
    BY <2>3, <2>5 DEF Faults, RowsInv
  <2>7. rows' = Without(rows, batch \ kept) /\ leftover' = leftover + TotalBytes(rows, left)
        /\ UNCHANGED <<policy, now, recorded>>
    BY <2>3 DEF DeleteAll
  <2>8. rows \in Seq(Entry) /\ leftover \in Nat
    BY DEF RowsInv
  <2>9. rows' \in Seq(Entry) /\ leftover' \in Nat
    BY <2>7, <2>8, WithoutKeeps, BytesType
  <2> QED
    BY <2>6, <2>7, <2>9 DEF RowsInv
<1> QED
  BY <1>1, <1>2

LEMMA RowsStep == RowsInv /\ [Next]_vars => RowsInv'
<1> SUFFICES ASSUME RowsInv, [Next]_vars PROVE RowsInv'
  OBVIOUS
<1>1. CASE Pass
  BY <1>1, RowsPass
<1>2. ASSUME NEW size \in Sizes, NEW damaged \in BOOLEAN, NEW tags \in SUBSET Tags, Record(size, tags, damaged)
      PROVE  RowsInv'
  <2>1. size \in Nat
    BY RetentionAssumption
  <2> QED
    BY <1>2, <2>1, RowsAdded DEF Record
<1>3. ASSUME NEW size \in Sizes, NEW damaged \in BOOLEAN, Interrupt(size, damaged) PROVE RowsInv'
  <2>1. size \in Nat /\ 0 \in Nat /\ {} \in SUBSET Tags
    BY RetentionAssumption
  <2> QED
    BY <1>3, <2>1, RowsAdded DEF Interrupt
<1>4. CASE NextDay
  BY <1>4 DEF NextDay, RowsInv
<1>5. CASE UNCHANGED vars
  BY <1>5 DEF vars, RowsInv
<1> QED
  BY <1>1, <1>2, <1>3, <1>4, <1>5 DEF Next

LEMMA RowsAlways == Spec => []RowsInv
  BY RowsInit, RowsStep, PTL DEF Spec

\* What a pass flags, as the three rules leave it.
LEMMA FlaggedByRules ==
  ASSUME RowsInv
  PROVE  /\ rows \in Seq(Entry) /\ policy \in Policies
         /\ Expired(rows, policy, now) \in SUBSET DOMAIN rows
         /\ Free(rows) \in Int /\ DiskFree(rows, policy) \in Int
         /\ DiskCritical(policy, DiskFree(rows, policy)) <=>
              policy.minFree > 0 /\ DiskFree(rows, policy) > 0 /\ DiskFree(rows, policy) < policy.minFree
         /\ policy.minFree > 0 => DiskFree(rows, policy) = Free(rows)
         /\ \E capped : /\ Capped(rows, Expired(rows, policy, now), policy, capped)
                        /\ Freed(rows, capped, policy, DiskFree(rows, policy), Flagged)
<1>1. rows \in Seq(Entry) /\ policy \in Policies
  BY DEF RowsInv
<1>2. Expired(rows, policy, now) \in SUBSET DOMAIN rows
  BY DEF Expired
<1>3. Free(rows) \in Int
  <2>1. TotalBytes(rows, DOMAIN rows) \in Nat
    BY <1>1, BytesType
  <2> QED
    BY <2>1, RetentionAssumption DEF Free, RowsInv
<1>4. DiskFree(rows, policy) \in Int /\ (policy.minFree > 0 => DiskFree(rows, policy) = Free(rows))
  BY <1>3 DEF DiskFree
<1>5. Freed(rows, StorageCap(rows, Expired(rows, policy, now), policy), policy, DiskFree(rows, policy), Flagged)
  BY DEF Freed, Flagged, FlaggedAt, EvaluateRetention
<1>6. Capped(rows, Expired(rows, policy, now), policy, StorageCap(rows, Expired(rows, policy, now), policy))
  BY DEF Capped
<1> QED
  BY <1>1, <1>2, <1>3, <1>4, <1>5, <1>6 DEF DiskCritical

LEMMA FlaggedWithin == RowsInv => Flagged \subseteq DOMAIN rows
  BY FlaggedByRules, FlaggedListed DEF Flagged

\* Whatever the policy and the sizes, what a pass keeps fits the storage cap, and a
\* critically low disk gets back to MinFreeGB or everything is given up
\* (applyStorageCap, applyDiskFreeCap).
THEOREM CapsMeetTheirGoals == Spec => []GoalsReached
<1>1. RowsInv => GoalsReached
  <2> SUFFICES ASSUME RowsInv PROVE GoalsReached
    OBVIOUS
  <2> DEFINE gone == Expired(rows, policy, now)
             free == DiskFree(rows, policy)
  <2>1. /\ rows \in Seq(Entry) /\ policy \in Policies /\ gone \in SUBSET DOMAIN rows /\ free \in Int
        /\ DiskCritical(policy, DiskFree(rows, policy)) <=> policy.minFree > 0 /\ free > 0 /\ free < policy.minFree
        /\ policy.minFree > 0 => free = Free(rows)
    BY FlaggedByRules
  <2>2. PICK capped : Capped(rows, gone, policy, capped) /\ Freed(rows, capped, policy, free, Flagged)
    BY FlaggedByRules
  <2> HIDE DEF gone, free
  <2>3. policy.maxStorage > 0 => TotalSize(rows, DOMAIN rows \ Flagged) <= policy.maxStorage
    BY <2>1, <2>2, CapsReached
  <2>4. policy.minFree > 0 /\ free > 0 /\ free < policy.minFree =>
          DOMAIN rows \ Flagged = {} \/ free + TotalSize(rows, Flagged) >= policy.minFree
    <3>1. /\ rows \in Seq(Entry) /\ gone \in SUBSET DOMAIN rows /\ policy \in Policies /\ free \in Int
          /\ Capped(rows, gone, policy, capped) /\ Freed(rows, capped, policy, free, Flagged)
      BY <2>1, <2>2
    <3>2. FreesEnough(rows, policy, free, Flagged)
      BY <3>1, CapsReached
    <3> QED
      BY <3>2 DEF FreesEnough
  <2>5. DiskCritical(policy, DiskFree(rows, policy)) =>
          DOMAIN rows \ Flagged = {} \/ Free(rows) + TotalSize(rows, Flagged) >= policy.minFree
    BY <2>1, <2>4
  <2> QED
    BY <2>3, <2>5 DEF GoalsReached
<1> QED
  BY <1>1, RowsAlways, PTL

\* And it gives up the oldest footage and no more than needed.
THEOREM CapsSpareWhatTheyCan == Spec => []OldestAndNoMore
<1>1. RowsInv => OldestAndNoMore
  <2> SUFFICES ASSUME RowsInv PROVE OldestAndNoMore
    OBVIOUS
  <2> DEFINE gone == Expired(rows, policy, now)
             free == DiskFree(rows, policy)
             forSpace == Flagged \ gone
             newest == Max(forSpace)
             Needed == \/ /\ policy.maxStorage > 0
                          /\ TotalSize(rows, (DOMAIN rows \ Flagged) \cup {newest}) > policy.maxStorage
                       \/ /\ policy.minFree > 0 /\ free > 0 /\ free < policy.minFree
                          /\ free + TotalSize(rows, Flagged \ {newest}) < policy.minFree
  <2>1. /\ rows \in Seq(Entry) /\ policy \in Policies /\ gone \in SUBSET DOMAIN rows /\ free \in Int
        /\ DiskCritical(policy, DiskFree(rows, policy)) <=> policy.minFree > 0 /\ free > 0 /\ free < policy.minFree
        /\ policy.minFree > 0 => free = Free(rows)
    BY FlaggedByRules
  <2>2. PICK capped : Capped(rows, gone, policy, capped) /\ Freed(rows, capped, policy, free, Flagged)
    BY FlaggedByRules
  <2> HIDE DEF gone, free, newest
  <2>3. Flagged \subseteq DOMAIN rows
    BY FlaggedWithin
  <2>4. \A i \in forSpace, j \in DOMAIN rows \ Flagged : i < j
    BY <2>1, <2>2, CapsSpare
  <2>5. ASSUME forSpace # {} PROVE Needed
    <3>1. newest \in forSpace /\ \A j \in forSpace : j <= newest
      <4>1. Len(rows) \in Nat /\ forSpace \in SUBSET (1 .. Len(rows))
        BY <2>1, <2>3
      <4> QED
        BY <2>5, <4>1, NewestExists DEF newest
    <3> QED
      BY <2>1, <2>2, <3>1, CapsSpare
  <2>6. Needed => \/ policy.maxStorage > 0 /\ TotalSize(rows, (DOMAIN rows \ Flagged) \cup {newest}) > policy.maxStorage
                  \/ /\ DiskCritical(policy, DiskFree(rows, policy))
                     /\ Free(rows) + TotalSize(rows, Flagged \ {newest}) < policy.minFree
    BY <2>1
  <2> QED
    BY <2>4, <2>5, <2>6 DEF OldestAndNoMore, gone, newest
<1> QED
  BY <1>1, RowsAlways, PTL

LEMMA FewerTagsExpire ==
  ASSUME NEW p \in Policies, NEW t \in Nat, NEW e \in Entry, NEW fewer \in Entry,
         p.objects >= p.motion, p.motion >= p.continuous, p.continuous > 0,
         fewer.start = e.start, fewer.tags = e.tags \ {"objects"} \/ fewer.tags = {},
         TierDays(e, p) > 0, e.start < t - TierDays(e, p)
  PROVE  TierDays(fewer, p) > 0 /\ fewer.start < t - TierDays(fewer, p)
<1>1. p.objects \in Nat /\ p.motion \in Nat /\ p.continuous \in Nat
  BY RetentionAssumption
<1>2. e.start \in Nat /\ fewer.start \in Nat
  BY DEF Entry
<1>3. TierDays(fewer, p) = IF "motion" \in fewer.tags THEN p.motion ELSE p.continuous
  <2>1. "objects" \notin fewer.tags /\ p.motion > 0
    BY <1>1
  <2> QED
    BY <2>1 DEF TierDays
<1>4. TierDays(fewer, p) \in Nat /\ TierDays(fewer, p) > 0
  BY <1>1, <1>3
<1>5. TierDays(e, p) =
        IF "objects" \in e.tags THEN p.objects ELSE IF "motion" \in e.tags THEN p.motion ELSE p.continuous
  <2>1. p.motion > 0 /\ p.objects > 0
    BY <1>1
  <2> QED
    BY <2>1 DEF TierDays
<1>6. TierDays(fewer, p) <= TierDays(e, p) /\ TierDays(e, p) \in Nat
  <2>1. "motion" \in fewer.tags => "motion" \in e.tags
    OBVIOUS
  <2> QED
    BY <1>1, <1>3, <1>5, <2>1
<1> QED
  BY <1>2, <1>4, <1>6

\* With ordered tiers no tag shortens a segment's life: one that expired would have
\* expired without its object tag and without its motion tag (tierCutoff).
THEOREM TagsOnlyProlong == Spec => []TagsNeverShorten
<1>1. RowsInv => TagsNeverShorten
  <2> SUFFICES ASSUME RowsInv,
                      policy.objects >= policy.motion, policy.motion >= policy.continuous, policy.continuous > 0,
                      NEW i \in Expired(rows, policy, now),
                      NEW fewer \in {[rows[i] EXCEPT !.tags = @ \ {"objects"}], [rows[i] EXCEPT !.tags = {}]}
               PROVE  1 \in Expired(<<fewer>>, policy, now)
    BY DEF TagsNeverShorten
  <2>1. i \in DOMAIN rows /\ TierDays(rows[i], policy) > 0 /\ rows[i].start < now - TierDays(rows[i], policy)
    BY DEF Expired
  <2> DEFINE e == rows[i]
  <2>2. e \in Entry /\ policy \in Policies /\ now \in Nat
    BY <2>1 DEF RowsInv
  <2>3. fewer = [e EXCEPT !.tags = e.tags \ {"objects"}] \/ fewer = [e EXCEPT !.tags = {}]
    OBVIOUS
  <2>4. TierDays(e, policy) > 0 /\ e.start < now - TierDays(e, policy)
    BY <2>1
  <2> HIDE DEF e
  <2>5. /\ fewer \in Entry /\ fewer.start = e.start
        /\ fewer.tags = e.tags \ {"objects"} \/ fewer.tags = {}
    BY <2>2, <2>3 DEF Entry
  <2>6. TierDays(fewer, policy) > 0 /\ fewer.start < now - TierDays(fewer, policy)
    BY <2>2, <2>4, <2>5, FewerTagsExpire
  <2>7. 1 \in DOMAIN <<fewer>> /\ <<fewer>>[1] = fewer
    OBVIOUS
  <2> QED
    BY <2>6, <2>7 DEF Expired
<1> QED
  BY <1>1, RowsAlways, PTL

-----------------------------------------------------------------------------
(* Passes make progress. *)

\* The oldest flagged row that is not damaged is in the batch, if the damaged ones do not fill it.
LEMMA BatchReaches ==
  ASSUME NEW flagged \in SUBSET Nat, NEW stuck, IsFiniteSet(stuck), Cardinality(stuck) < Batch,
         ~(flagged \subseteq stuck), NEW p, NEW diskFree
  PROVE  \E d \in BatchOf(flagged, p, diskFree) : d \notin stuck
<1> DEFINE free == flagged \ stuck
<1>1. PICK d \in free : \A j \in free : d <= j
  <2>1. free \in SUBSET Nat /\ free # {}
    OBVIOUS
  <2> HIDE DEF free
  <2> QED
    BY <2>1, LeastElement
<1> DEFINE before == {j \in flagged : j < d}
<1>2. before \subseteq stuck
  <2> SUFFICES ASSUME NEW j \in flagged, j < d, j \notin stuck PROVE FALSE
    OBVIOUS
  <2>1. d <= j /\ j \in Nat /\ d \in Nat
    BY <1>1
  <2> QED
    BY <2>1
<1>3. Cardinality(before) < Batch
  <2> HIDE DEF before
  <2>1. /\ IsFiniteSet(before) /\ Cardinality(before) <= Cardinality(stuck)
    BY <1>2, FS_Subset
  <2>2. Cardinality(before) \in Nat /\ Cardinality(stuck) \in Nat
    BY <2>1, FS_CardinalityType
  <2> QED
    BY <2>1, <2>2, RetentionAssumption
<1>4. d \in BatchOf(flagged, p, diskFree)
  BY <1>1, <1>3 DEF BatchOf
<1> QED
  BY <1>1, <1>4

\* Nothing that cannot be removed stops the passes, however many segments are flagged and
\* wherever the damaged rows stand among them: a pass without a failure by chance that
\* finds an undamaged row to delete leaves fewer rows, as long as fewer rows are damaged
\* than a batch holds (enforceRetention's batch limit, deleteSegment's early return).
THEOREM PassesDelete ==
  Spec => [][Pass /\ faults' = faults /\ Cardinality(Damaged) < Batch /\ ~(Flagged \subseteq Damaged)
               => Len(rows') < Len(rows)]_vars
<1>1. ASSUME RowsInv, Pass, faults' = faults, Cardinality(Damaged) < Batch, ~(Flagged \subseteq Damaged)
      PROVE  Len(rows') < Len(rows)
  <2>1. rows \in Seq(Entry) /\ faults \in Nat /\ Flagged \in SUBSET DOMAIN rows /\ DOMAIN rows \subseteq Nat
    BY <1>1, FlaggedWithin DEF RowsInv
  <2>2. ~QueryFails
    BY <1>1, <2>1 DEF QueryFails, Faults
  <2>3. PICK diskFree \in {DiskFree(rows, policy), 0} :
          \E kept \in SUBSET BatchOf(FlaggedAt(diskFree), policy, diskFree) :
            \E left \in SUBSET (BatchOf(FlaggedAt(diskFree), policy, diskFree) \ kept) :
              /\ Faults(Cardinality(kept \ Damaged) + Cardinality(left)
                        + (IF diskFree = DiskFree(rows, policy) THEN 0 ELSE 1))
              /\ DeleteAll(BatchOf(FlaggedAt(diskFree), policy, diskFree), kept, left)
    BY <1>1, <2>2, PassDeletes
  <2> DEFINE batch == BatchOf(FlaggedAt(diskFree), policy, diskFree)
             risen == IF diskFree = DiskFree(rows, policy) THEN 0 ELSE 1
  <2>4. PICK kept \in SUBSET batch : \E left \in SUBSET (batch \ kept) :
          /\ Faults(Cardinality(kept \ Damaged) + Cardinality(left) + risen)
          /\ DeleteAll(batch, kept, left)
    BY <2>3
  <2>5. PICK left \in SUBSET (batch \ kept) :
          /\ Faults(Cardinality(kept \ Damaged) + Cardinality(left) + risen)
          /\ DeleteAll(batch, kept, left)
    BY <2>4
  <2>6. IsFiniteSet(kept \ Damaged) /\ IsFiniteSet(left)
    <3>1. IsFiniteSet(batch)
      BY <1>1, <2>3, BatchListed
    <3> QED
      BY <3>1, FS_Subset
  <2>7. Cardinality(kept \ Damaged) = 0 /\ risen = 0
    <3>1. Cardinality(kept \ Damaged) \in Nat /\ Cardinality(left) \in Nat
      BY <2>6, FS_CardinalityType
    <3>2. risen \in Nat
      OBVIOUS
    <3> HIDE DEF risen, batch
    <3>3. faults' = faults + (Cardinality(kept \ Damaged) + Cardinality(left) + risen)
      BY <2>5 DEF Faults
    <3> QED
      BY <1>1, <2>1, <3>1, <3>2, <3>3
  <2>8. kept \subseteq Damaged
    <3>1. kept \ Damaged = {}
      BY <2>6, <2>7, FS_EmptySet
    <3> QED
      BY <3>1
  <2>9. FlaggedAt(diskFree) = Flagged
    BY <2>7 DEF Flagged
  <2>10. IsFiniteSet(Damaged)
    <3>1. Damaged \subseteq DOMAIN rows
      BY DEF Damaged
    <3> QED
      BY <1>1, <3>1, RowsFinite, FS_Subset
  <2>11. PICK d \in batch : d \notin Damaged
    <3>1. FlaggedAt(diskFree) \in SUBSET Nat /\ ~(FlaggedAt(diskFree) \subseteq Damaged)
      BY <1>1, <2>1, <2>9
    <3> QED
      BY <1>1, <2>10, <3>1, BatchReaches
  <2>12. d \in DOMAIN rows
    BY <1>1, <2>3, BatchListed
  <2>13. rows' = Without(rows, batch \ kept)
    BY <2>5 DEF DeleteAll
  <2> HIDE DEF batch
  <2>14. d \in batch \ kept
    BY <2>8, <2>11
  <2> QED
    BY <2>1, <2>12, <2>13, <2>14, WithoutShortens
<1> QED
  BY <1>1, RowsAlways, PTL DEF Spec
=============================================================================
