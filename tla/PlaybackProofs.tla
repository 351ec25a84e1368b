--------------------------- MODULE PlaybackProofs ---------------------------
(***************************************************************************)
(* Proofs about recorded playback, for any number of segments, any clock   *)
(* and any gap threshold: what indexSource plays is in order, complete and *)
(* with its gaps reported, and the packet buffer takes over where the      *)
(* index ends.  The argument is about the list of entries: the queries     *)
(* made at different times put together leave no hole in it.               *)
(***************************************************************************)
EXTENDS Playback, FiniteSetTheorems, WellFoundedInduction, TLAPS

-----------------------------------------------------------------------------
(* Lemmas on sets of naturals and their order. *)

\* The least element that FirstAvailable and FirstOpenable choose exists.
LEMMA LeastElement ==
  ASSUME NEW T \in SUBSET Nat, T # {}
  PROVE  \E n \in T : \A m \in T : n <= m
<1>1. PICK n \in T : \A m \in T : ~(<<m, n>> \in OpToRel(<, Nat))
  BY NatLessThanWellFounded, WFMin
<1>2. \A m \in T : ~(m < n)
  BY <1>1 DEF OpToRel
<1> QED
  BY <1>2

\* The last of the places where a segment was played exists.
LEMMA GreatestElement ==
  ASSUME NEW n \in Nat, NEW T \in SUBSET (1 .. n), T # {}
  PROVE  \E k \in T : \A j \in T : j <= k
<1> DEFINE Bounds == {b \in Nat : \A j \in T : j <= b}
<1>1. n \in Bounds /\ Bounds \in SUBSET Nat
  OBVIOUS
<1> HIDE DEF Bounds
<1>2. PICK b \in Bounds : \A c \in Bounds : b <= c
  <2>1. Bounds # {}
    BY <1>1
  <2> QED
    BY <2>1, <1>1, LeastElement
<1> USE DEF Bounds
<1>3. PICK j \in T : TRUE
  OBVIOUS
<1>4. b >= 1
  BY <1>2, <1>3
<1>5. CASE b \in T
  BY <1>5, <1>2
<1>6. CASE b \notin T
  <2>1. b - 1 \in Bounds
    BY <1>6, <1>2, <1>4
  <2> QED
    BY <2>1, <1>2, <1>4
<1> QED
  BY <1>5, <1>6

\* A set of rows is finite.
LEMMA RowsFinite ==
  ASSUME NEW n \in Nat, NEW S \in SUBSET (1 .. n)
  PROVE  IsFiniteSet(S) /\ Cardinality(S) \in Nat
<1>1. IsFiniteSet(1 .. n)
  <2>1. 1 \in Int /\ n \in Int
    OBVIOUS
  <2> QED
    BY <2>1, FS_Interval
<1>2. IsFiniteSet(S)
  BY <1>1, FS_Subset
<1> QED
  BY <1>2, FS_CardinalityType

\* Every finite set of rows can be listed in start order.
LEMMA OrderExists ==
  ASSUME NEW n \in Nat, NEW S \in SUBSET (1 .. n)
  PROVE  \E s \in [1 .. Cardinality(S) -> S] : ToSet(s) = S /\ Increasing(s)
<1> DEFINE Ordered(T) == \E s \in [1 .. Cardinality(T) -> T] : ToSet(s) = T /\ Increasing(s)
           Bad == {m \in Nat : \E T \in SUBSET (1 .. m) : ~Ordered(T)}
<1>1. SUFFICES Bad = {}
  <2>1. n \notin Bad
    BY <1>1
  <2> QED
    BY <2>1
<1>2. SUFFICES ASSUME Bad # {} PROVE FALSE
  OBVIOUS
<1>3. PICK m \in Bad : \A k \in Bad : m <= k
  <2>1. Bad \in SUBSET Nat
    OBVIOUS
  <2> HIDE DEF Bad
  <2> QED
    BY <2>1, <1>2, LeastElement
<1>4. m \in Nat /\ \A k \in Nat : k < m => \A T \in SUBSET (1 .. k) : Ordered(T)
  <2>1. \A k \in Nat : k < m => k \notin Bad
    <3>1. m \in Nat
      BY <1>3
    <3> HIDE DEF Bad
    <3> QED
      BY <1>3, <3>1
  <2> HIDE DEF Ordered
  <2> QED
    BY <2>1
<1>5. PICK T \in SUBSET (1 .. m) : ~Ordered(T)
  <2> HIDE DEF Ordered
  <2> QED
    BY <1>3
<1>6. IsFiniteSet(T) /\ Cardinality(T) \in Nat
  BY <1>4, <1>5, RowsFinite
<1>7. CASE T = {}
  <2>1. Cardinality(T) = 0
    BY <1>7, FS_EmptySet
  <2> DEFINE s == [k \in 1 .. 0 |-> k]
  <2>2. s \in [1 .. Cardinality(T) -> T] /\ DOMAIN s = {}
    BY <2>1
  <2>3. ToSet(s) = T /\ Increasing(s)
    BY <2>2, <1>7 DEF ToSet, Increasing
  <2> QED
    BY <2>2, <2>3, <1>5
<1>8. CASE T # {}
  <2>1. PICK x \in T : \A j \in T : j <= x
    BY <1>8, <1>4, <1>5, GreatestElement
  <2> DEFINE U == T \ {x}
             c == Cardinality(U)
  <2>2. x \in 1 .. m /\ x - 1 \in Nat /\ x - 1 < m
    BY <2>1, <1>4, <1>5
  <2>3. U \in SUBSET (1 .. (x - 1))
    BY <2>1, <2>2, <1>5
  <2>4. Ordered(U)
    <3> HIDE DEF Ordered, U
    <3> QED
      BY <2>2, <2>3, <1>4
  <2>5. PICK s \in [1 .. c -> U] : ToSet(s) = U /\ Increasing(s)
    BY <2>4
  <2>6. c \in Nat /\ Cardinality(T) = c + 1
    <3>1. IsFiniteSet(U) /\ Cardinality(U) = Cardinality(T) - 1
      BY <1>6, <2>1, FS_RemoveElement
    <3>2. Cardinality(U) \in Nat
      BY <3>1, FS_CardinalityType
    <3> QED
      BY <3>1, <3>2, <1>6
  <2> HIDE DEF c
  <2> DEFINE t == [k \in 1 .. (c + 1) |-> IF k = c + 1 THEN x ELSE s[k]]
  <2>7. \A k \in 1 .. c : t[k] = s[k] /\ s[k] \in U /\ s[k] < x
    <3> SUFFICES ASSUME NEW k \in 1 .. c PROVE t[k] = s[k] /\ s[k] \in U /\ s[k] < x
      OBVIOUS
    <3>1. s[k] \in U
      BY <2>5
    <3>2. s[k] \in 1 .. (x - 1)
      BY <3>1, <2>3
    <3>3. t[k] = s[k]
      BY <2>6
    <3> QED
      BY <3>1, <3>2, <3>3, <2>2
  <2>8. t[c + 1] = x /\ DOMAIN t = 1 .. (c + 1)
    BY <2>6
  <2>9. t \in [1 .. Cardinality(T) -> T]
    BY <2>6, <2>7, <2>1
  <2>10. \A y \in T : \E k \in DOMAIN t : t[k] = y
    <3> SUFFICES ASSUME NEW y \in T PROVE \E k \in DOMAIN t : t[k] = y
      OBVIOUS
    <3>1. CASE y = x
      BY <3>1, <2>8, <2>6
    <3>2. CASE y # x
      <4>1. PICK k \in 1 .. c : s[k] = y
        BY <3>2, <2>5 DEF ToSet
      <4> QED
        BY <4>1, <2>7, <2>8, <2>6
    <3> QED
      BY <3>1, <3>2
  <2>11. ToSet(t) = T
    <3>1. ToSet(t) = {t[k] : k \in DOMAIN t}
      BY DEF ToSet
    <3>2. \A k \in DOMAIN t : t[k] \in T
      BY <2>9
    <3> HIDE DEF t
    <3> QED
      <4>1. ASSUME NEW y \in ToSet(t) PROVE y \in T
        BY <3>1, <3>2, Zenon
      <4>2. ASSUME NEW y \in T PROVE y \in ToSet(t)
        BY <2>10, <3>1, Zenon
      <4> QED
        BY <4>1, <4>2, Zenon
  <2>12. Increasing(t)
    <3> SUFFICES ASSUME NEW j \in 1 .. (c + 1), NEW k \in 1 .. (c + 1), j < k
                 PROVE  t[j] < t[k]
      BY <2>8 DEF Increasing
    <3>1. j \in 1 .. c
      BY <2>6
    <3>2. CASE k = c + 1
      BY <3>1, <3>2, <2>7, <2>8
    <3>3. CASE k # c + 1
      BY <3>1, <3>3, <2>5, <2>6, <2>7 DEF Increasing
    <3> QED
      BY <3>2, <3>3
  <2> QED
    BY <2>9, <2>11, <2>12, <1>5
<1> QED
  BY <1>7, <1>8

\* What a query returns: the rows asked for, each once and in start order.
LEMMA SortedIsOrdered ==
  ASSUME NEW n \in Nat, NEW S \in SUBSET (1 .. n)
  PROVE  /\ Sorted(S) \in Seq(S)
         /\ Increasing(Sorted(S))
         /\ \A k \in DOMAIN Sorted(S) : Sorted(S)[k] \in S
         /\ \A i \in S : \E k \in DOMAIN Sorted(S) : Sorted(S)[k] = i
         /\ ToSet(Sorted(S)) = S
<1>1. Sorted(S) \in [1 .. Cardinality(S) -> S] /\ ToSet(Sorted(S)) = S /\ Increasing(Sorted(S))
  BY OrderExists DEF Sorted
<1>2. Cardinality(S) \in Nat
  BY RowsFinite
<1> HIDE DEF Sorted
<1>3. Sorted(S) \in Seq(S)
  BY <1>1, <1>2
<1> QED
  BY <1>1, <1>3 DEF ToSet

-----------------------------------------------------------------------------
(* The inductive invariant. *)

Statuses == {"recording", "complete", "corrupted", "interrupted", "deleted"}
Row == [start : Nat, end : Nat, status : Statuses]
Places == {"idle", "last", "query", "first", "factory", "open", "playing", "next",
           "polled", "wait", "live", "done", "failed"}

TypeInv ==
  /\ clock \in Nat /\ errors \in Nat /\ crashes \in Nat /\ seeks \in Nat
  /\ rows \in Seq(Row)
  /\ files \subseteq DOMAIN rows
  /\ pc \in Places
  /\ resolved \in Nat /\ to \in Nat
  /\ entries \in Seq(Nat) /\ idx \in Nat /\ seen \subseteq DOMAIN rows
  /\ usedBuf \in BOOLEAN
  /\ lastSegEnd \in Nat /\ lastGap \in Nat
  /\ shown \in Seq([id : Nat, gap : Nat])
  /\ since \in Nat /\ after \in Nat

\* The rows are disjoint intervals in start order, only the last of them is still
\* being recorded, and a complete one has an end and, as that one, its file.
RowInv(i) ==
  /\ 0 < rows[i].start /\ rows[i].start <= clock /\ rows[i].end <= clock
  /\ rows[i].end > 0 => rows[i].start < rows[i].end
  /\ rows[i].status = "recording" => i = Len(rows) /\ rows[i].end = 0 /\ i \in files
  /\ rows[i].status = "complete" => rows[i].end > 0 /\ i \in files
  /\ \A j \in DOMAIN rows : i < j => rows[i].end <= rows[j].start /\ rows[i].start < rows[j].start
RowsInv == \A i \in DOMAIN rows : RowInv(i)

\* Before the factory's query there is no source yet, and a request has a start.
BeforeInv ==
  /\ pc # "idle" => resolved > 0
  /\ pc \in {"idle", "last", "query", "first", "factory", "live"} =>
       entries = <<>> /\ idx = 0 /\ seen = {} /\ shown = <<>> /\ seeks = 0
  /\ pc = "open" => shown = <<>> /\ seeks = 0

\* A row the queries would return for the start of this playback.
Wanted(i) == Playable(i) /\ rows[i].end >= resolved
Listed(i) == \E k \in DOMAIN entries : entries[k] = i

\* The known entries: in order, all of them seen and from the start on, with no
\* wanted row left out below any of them, and none seen but not listed.
EntriesInv ==
  /\ idx <= Len(entries)
  /\ Increasing(entries)
  /\ \A i \in seen : rows[i].end > 0
  /\ \A k \in DOMAIN entries : entries[k] \in seen /\ rows[entries[k]].end >= resolved
  /\ \A i \in DOMAIN rows : Wanted(i) /\ (i \in seen \/ \E k \in DOMAIN entries : i <= entries[k]) => Listed(i)

\* While it goes on there is an entry, and waitForNext's after time is not past
\* the last one's end.
WaitInv ==
  /\ pc \in {"playing", "next", "polled", "wait"} => entries # <<>>
  /\ pc = "wait" => resolved <= after /\ after <= rows[entries[Len(entries)]].end

\* What was shown of the segments are the entries before the cursor, in their
\* order, without those that are gone.
ShownInv ==
  /\ \A k \in Played : \E m \in 1 .. idx : shown[k].id = entries[m]
  /\ \A j, k \in Played : j < k => shown[j].id < shown[k].id
  /\ \A m \in 1 .. idx : rows[entries[m]].status = "complete" =>
       \E k \in Played : shown[k].id = entries[m]

\* Whether a transition to the segment at k, or from it, is one that is tracked.
Tracked(k) == seeks > 0 \/ \E m \in Played : m < k

\* From the second segment on, and after a seek, openEntry knows the end of the
\* segment played last.
GapInv ==
  /\ \A k \in Played : (\A m \in Played : m <= k) /\ Tracked(k) =>
       lastSegEnd = rows[shown[k].id].end
  /\ LaterGapsReported

PlayInv == TypeInv /\ clock > 0 /\ RowsInv /\ BeforeInv /\ EntriesInv /\ WaitInv /\ ShownInv /\ GapInv

-----------------------------------------------------------------------------
(* The recorder and the retention, seen from a session. *)

\* What one of their steps does to the rows: ends, once set, and starts stay, and
\* a row comes into what queries return only when its recording ends.
Grown ==
  /\ rows' \in Seq(Row) /\ Len(rows) <= Len(rows')
  /\ \A i \in DOMAIN rows : rows[i].end > 0 =>
       /\ rows'[i].end = rows[i].end /\ rows'[i].start = rows[i].start
       /\ Playable(i)' => Playable(i)
       /\ rows'[i].status = "complete" => rows[i].status = "complete"
  /\ \A i \in DOMAIN rows' : rows'[i].end > 0 =>
       i \in DOMAIN rows /\ (rows[i].end > 0 \/ i = Len(rows))

sessionVars == <<pc, reqVars, srcVars, playVars, seeks>>

LEMMA RowFields ==
  ASSUME TypeInv, NEW i \in DOMAIN rows
  PROVE  rows[i] \in Row /\ rows[i].start \in Nat /\ rows[i].end \in Nat
<1>1. rows[i] \in Row
  BY DEF TypeInv
<1> QED
  BY <1>1 DEF Row

LEMMA ElapseGrows ==
  ASSUME TypeInv, RowsInv, Elapse
  PROVE  TypeInv' /\ RowsInv' /\ Grown /\ UNCHANGED sessionVars
<1> USE DEF TypeInv, Elapse, recVars, reqVars, srcVars, playVars, sessionVars
<1>1. TypeInv'
  OBVIOUS
<1>2. RowsInv'
  BY RowFields DEF RowsInv, RowInv
<1>3. Grown
  BY DEF Grown, Playable
<1> QED
  BY <1>1, <1>2, <1>3

\* OpenSegment: the new row starts after all others.
LEMMA OpenSegmentGrows ==
  ASSUME TypeInv, RowsInv, OpenSegment, clock > 0
  PROVE  TypeInv' /\ RowsInv' /\ Grown /\ UNCHANGED sessionVars
<1> DEFINE new == [start |-> clock, end |-> 0, status |-> "recording"]
<1> USE DEF TypeInv, recVars, reqVars, srcVars, playVars, sessionVars
<1>1. new \in Row
  BY DEF Row, Statuses
<1>2. rows' = Append(rows, new) /\ UNCHANGED clock /\ files' = files \cup {Len(rows) + 1}
  BY DEF OpenSegment
<1>3. /\ rows' \in Seq(Row) /\ Len(rows') = Len(rows) + 1
      /\ \A i \in DOMAIN rows : rows'[i] = rows[i]
      /\ rows'[Len(rows) + 1] = new
      /\ DOMAIN rows' = DOMAIN rows \cup {Len(rows) + 1}
      /\ DOMAIN rows = 1 .. Len(rows)
  BY <1>1, <1>2
<1>4. \A i \in DOMAIN rows : rows[i].status # "recording" /\ rows[i].start < clock
  BY DEF OpenSegment
<1>5. TypeInv'
  BY <1>2, <1>3 DEF OpenSegment
<1>6. RowsInv'
  BY <1>2, <1>3, <1>4, RowFields DEF RowsInv, RowInv
<1>7. Grown
  BY <1>3, SMTT(30) DEF Grown, Playable
<1> QED
  BY <1>5, <1>6, <1>7 DEF OpenSegment

\* A step that changes one row: what it does to the others and to the list.
LEMMA CloseSegmentGrows ==
  ASSUME TypeInv, RowsInv, CloseSegment
  PROVE  TypeInv' /\ RowsInv' /\ Grown /\ UNCHANGED sessionVars
<1> USE DEF TypeInv, recVars, reqVars, srcVars, playVars, sessionVars
<1>1. PICK i \in DOMAIN rows : \E valid \in {"complete", "corrupted"} :
        /\ rows[i].status = "recording"
        /\ clock > rows[i].start
        /\ rows' = [rows EXCEPT ![i].status = valid, ![i].end = clock]
  BY DEF CloseSegment
<1>2. PICK valid \in {"complete", "corrupted"} :
        /\ rows[i].status = "recording"
        /\ clock > rows[i].start
        /\ rows' = [rows EXCEPT ![i].status = valid, ![i].end = clock]
  BY <1>1
<1>3. /\ rows' \in Seq(Row) /\ Len(rows') = Len(rows) /\ DOMAIN rows' = DOMAIN rows
      /\ \A j \in DOMAIN rows : j # i => rows'[j] = rows[j]
      /\ rows'[i].start = rows[i].start /\ rows'[i].end = clock /\ rows'[i].status = valid
  <2> DEFINE new == [rows[i] EXCEPT !.status = valid, !.end = clock]
  <2>1. rows[i] \in Row /\ new \in Row
    BY <1>2, RowFields DEF Row, Statuses
  <2>2. rows' = [rows EXCEPT ![i] = new]
    BY <1>2
  <2>3. new.start = rows[i].start /\ new.end = clock /\ new.status = valid
    BY <2>1 DEF Row
  <2> HIDE DEF new
  <2> QED
    BY <2>1, <2>2, <2>3
<1>4. i = Len(rows) /\ rows[i].end = 0 /\ DOMAIN rows = 1 .. Len(rows)
  BY <1>2, SMTT(30) DEF RowsInv, RowInv
<1>5. TypeInv'
  BY <1>3 DEF CloseSegment
<1>6. RowsInv'
  <2>1. UNCHANGED clock /\ UNCHANGED files
    BY DEF CloseSegment
  <2> QED
    <3> SUFFICES ASSUME NEW j \in DOMAIN rows PROVE RowInv(j)'
      BY <1>3 DEF RowsInv
    <3>1. CASE j = i
      <4>1. RowInv(i) /\ rows[i].start \in Nat /\ clock \in Nat
        BY RowFields DEF RowsInv
      <4>2. 0 < rows[i].start /\ i \in files
        BY <4>1, <1>2 DEF RowInv
      <4>3. \A k \in DOMAIN rows' : ~(i < k)
        BY <1>3, <1>4
      <4>4. rows'[i].status # "recording"
        BY <1>3
      <4> QED
        BY <1>2, <1>3, <2>1, <3>1, <4>1, <4>2, <4>3, <4>4, SMTT(30) DEF RowInv
    <3>2. CASE j # i
      <4>1. RowInv(j) /\ rows'[j] = rows[j]
        BY <3>2, <1>3 DEF RowsInv
      <4>2. \A k \in DOMAIN rows : rows'[k].start = rows[k].start
        BY <1>3
      <4> QED
        BY <1>3, <4>1, <4>2, <2>1 DEF RowInv
    <3> QED
      BY <3>1, <3>2
<1>7. Grown
  BY <1>3, <1>4, SMTT(30) DEF Grown, Playable
<1> QED
  BY <1>5, <1>6, <1>7 DEF CloseSegment

\* Replacing one element keeps a sequence a sequence of the same length.
LEMMA ExceptSeq ==
  ASSUME NEW S, NEW s \in Seq(S), NEW i \in DOMAIN s, NEW x \in S
  PROVE  /\ [s EXCEPT ![i] = x] \in Seq(S)
         /\ Len([s EXCEPT ![i] = x]) = Len(s)
         /\ DOMAIN [s EXCEPT ![i] = x] = DOMAIN s
  OBVIOUS

\* Sealing and deleting a row change its status only.
LEMMA StatusChange ==
  ASSUME TypeInv, RowsInv, NEW i \in DOMAIN rows, NEW st \in {"interrupted", "deleted"},
         rows' = [rows EXCEPT ![i].status = st],
         files' \subseteq files, files \ files' \subseteq {i}, UNCHANGED clock
  PROVE  /\ rows' \in Seq(Row) /\ Len(rows') = Len(rows) /\ DOMAIN rows' = DOMAIN rows
         /\ \A j \in DOMAIN rows : j # i => rows'[j] = rows[j]
         /\ \A j \in DOMAIN rows : rows'[j].start = rows[j].start /\ rows'[j].end = rows[j].end
         /\ rows'[i].status = st
         /\ RowsInv'
<1> USE DEF TypeInv
<1>1. /\ rows' \in Seq(Row) /\ Len(rows') = Len(rows) /\ DOMAIN rows' = DOMAIN rows
      /\ \A j \in DOMAIN rows : j # i => rows'[j] = rows[j]
      /\ rows'[i].start = rows[i].start /\ rows'[i].end = rows[i].end /\ rows'[i].status = st
  <2> DEFINE new == [rows[i] EXCEPT !.status = st]
  <2>1. rows[i] \in Row /\ new \in Row
    BY RowFields DEF Row, Statuses
  <2>2. rows' = [rows EXCEPT ![i] = new]
    OBVIOUS
  <2>3. new.start = rows[i].start /\ new.end = rows[i].end /\ new.status = st
    BY <2>1 DEF Row
  <2> HIDE DEF new
  <2>4. rows' \in Seq(Row) /\ Len(rows') = Len(rows) /\ DOMAIN rows' = DOMAIN rows
    <3>1. rows \in Seq(Row)
      OBVIOUS
    <3> DEFINE r == [rows EXCEPT ![i] = new]
    <3>2. r \in Seq(Row) /\ Len(r) = Len(rows) /\ DOMAIN r = DOMAIN rows
      BY <2>1, <3>1, ExceptSeq, SMTT(30)
    <3>3. rows' = r
      BY <2>2
    <3> HIDE DEF r
    <3> QED
      BY <3>2, <3>3, Zenon
  <2>5. rows'[i] = new /\ \A j \in DOMAIN rows : j # i => rows'[j] = rows[j]
    BY <2>2
  <2> QED
    BY <2>3, <2>4, <2>5
<1>2. \A j \in DOMAIN rows : rows'[j].start = rows[j].start /\ rows'[j].end = rows[j].end
  BY <1>1
<1>3. RowsInv'
  <2> SUFFICES ASSUME NEW j \in DOMAIN rows PROVE RowInv(j)'
    BY <1>1 DEF RowsInv
  <2>1. RowInv(j)
    BY DEF RowsInv
  <2>2. (rows'[j].status = rows[j].status /\ (j \in files => j \in files')) \/ rows'[j].status = st
    BY <1>1
  <2>3. st # "recording" /\ st # "complete"
    OBVIOUS
  <2>4. /\ rows'[j].status = "recording" => j = Len(rows') /\ rows'[j].end = 0 /\ j \in files'
        /\ rows'[j].status = "complete" => rows'[j].end > 0 /\ j \in files'
    BY <1>1, <1>2, <2>1, <2>2, <2>3 DEF RowInv
  <2> QED
    BY <1>1, <1>2, <2>1, <2>4 DEF RowInv
<1> QED
  BY <1>1, <1>2, <1>3

LEMMA SealInterruptedGrows ==
  ASSUME TypeInv, RowsInv, SealInterrupted
  PROVE  TypeInv' /\ RowsInv' /\ Grown /\ UNCHANGED sessionVars
<1> USE DEF TypeInv, recVars, reqVars, srcVars, playVars, sessionVars
<1>1. PICK i \in DOMAIN rows :
        /\ rows[i].status = "recording"
        /\ rows' = [rows EXCEPT ![i].status = "interrupted"]
        /\ files' \in {files, files \ {i}}
  BY DEF SealInterrupted
<1>2. UNCHANGED clock /\ UNCHANGED sessionVars /\ crashes' = crashes + 1 /\ UNCHANGED errors
  BY DEF SealInterrupted
<1>3. files' \subseteq files /\ files \ files' \subseteq {i}
  BY <1>1
<1>4. /\ rows' \in Seq(Row) /\ Len(rows') = Len(rows) /\ DOMAIN rows' = DOMAIN rows
      /\ \A j \in DOMAIN rows : j # i => rows'[j] = rows[j]
      /\ \A j \in DOMAIN rows : rows'[j].start = rows[j].start /\ rows'[j].end = rows[j].end
      /\ RowsInv'
  BY <1>1, <1>2, <1>3, StatusChange
<1>5. rows[i].end = 0
  BY <1>1 DEF RowsInv, RowInv
<1>6. TypeInv'
  BY <1>2, <1>3, <1>4
<1>7. Grown
  BY <1>4, <1>5, SMTT(30) DEF Grown, Playable
<1> QED
  BY <1>2, <1>4, <1>6, <1>7

LEMMA DeleteRowGrows ==
  ASSUME TypeInv, RowsInv, NEW i, DeleteRow(i)
  PROVE  TypeInv' /\ RowsInv' /\ Grown /\ UNCHANGED sessionVars
<1> USE DEF TypeInv, recVars, reqVars, srcVars, playVars, sessionVars
<1>1. /\ i \in DOMAIN rows /\ rows' = [rows EXCEPT ![i].status = "deleted"]
      /\ UNCHANGED <<clock, errors, files, crashes, seeks>> /\ UNCHANGED sessionVars
  BY DEF DeleteRow
<1>2. /\ rows' \in Seq(Row) /\ Len(rows') = Len(rows) /\ DOMAIN rows' = DOMAIN rows
      /\ \A j \in DOMAIN rows : j # i => rows'[j] = rows[j]
      /\ \A j \in DOMAIN rows : rows'[j].start = rows[j].start /\ rows'[j].end = rows[j].end
      /\ rows'[i].status = "deleted"
      /\ RowsInv'
  BY <1>1, StatusChange
<1>3. TypeInv'
  BY <1>1, <1>2
<1>4. Grown
  <2>1. \A j \in DOMAIN rows : Playable(j)' => Playable(j)
    BY <1>2 DEF Playable
  <2>2. \A j \in DOMAIN rows : rows'[j].status = "complete" => rows[j].status = "complete"
    BY <1>2
  <2> QED
    BY <1>2, <2>1, <2>2 DEF Grown
<1> QED
  BY <1>1, <1>2, <1>3, <1>4

\* RemoveFile: only a deleted row loses its file.
LEMMA RemoveFileGrows ==
  ASSUME TypeInv, RowsInv, NEW i, RemoveFile(i)
  PROVE  TypeInv' /\ RowsInv' /\ Grown /\ UNCHANGED sessionVars
<1> USE DEF TypeInv, recVars, reqVars, srcVars, playVars, sessionVars, RemoveFile
<1>1. TypeInv'
  OBVIOUS
<1>2. RowsInv'
  BY DEF RowsInv, RowInv
<1>3. Grown
  BY DEF Grown, Playable
<1> QED
  BY <1>1, <1>2, <1>3

\* Every step of the recorder and the retention.
LEMMA RecordGrows ==
  ASSUME TypeInv, RowsInv, clock > 0, Record
  PROVE  TypeInv' /\ RowsInv' /\ Grown /\ UNCHANGED sessionVars /\ clock' > 0
<1>1. TypeInv' /\ RowsInv' /\ Grown /\ UNCHANGED sessionVars
  BY ElapseGrows, OpenSegmentGrows, CloseSegmentGrows, SealInterruptedGrows, DeleteRowGrows,
     RemoveFileGrows DEF Record
<1>2. clock' > 0
  BY DEF Record, Elapse, OpenSegment, CloseSegment, SealInterrupted, DeleteRow, RemoveFile, TypeInv
<1> QED
  BY <1>1, <1>2

\* None of these steps disturbs a session: an entry keeps its start and its end,
\* and a row that becomes wanted lies behind every entry.
LEMMA GrownKeepsEntries ==
  ASSUME TypeInv, BeforeInv, EntriesInv, Grown, UNCHANGED sessionVars
  PROVE  /\ \A k \in DOMAIN entries :
              /\ entries[k] \in DOMAIN rows
              /\ rows'[entries[k]].end = rows[entries[k]].end
              /\ rows'[entries[k]].start = rows[entries[k]].start
              /\ rows'[entries[k]].status = "complete" => rows[entries[k]].status = "complete"
         /\ EntriesInv'
<1> USE DEF sessionVars, reqVars, srcVars, playVars
<1>1. UNCHANGED <<pc, resolved, entries, idx, seen>>
  OBVIOUS
<1>2. \A i \in seen : i \in DOMAIN rows /\ rows[i].end > 0 /\ rows'[i].end = rows[i].end
  BY DEF TypeInv, EntriesInv, Grown
<1>3. \A k \in DOMAIN entries : entries[k] \in seen
  BY DEF EntriesInv
<1>4. \A k \in DOMAIN entries :
        /\ entries[k] \in DOMAIN rows
        /\ rows'[entries[k]].end = rows[entries[k]].end
        /\ rows'[entries[k]].start = rows[entries[k]].start
        /\ rows'[entries[k]].status = "complete" => rows[entries[k]].status = "complete"
  BY <1>2, <1>3 DEF Grown
<1>5. ASSUME NEW i \in DOMAIN rows', Wanted(i)',
             i \in seen \/ \E k \in DOMAIN entries : i <= entries[k]
      PROVE  Listed(i)
  <2>1. resolved > 0
    BY <1>5, <1>3 DEF BeforeInv, TypeInv
  <2>2. rows'[i] \in Row /\ rows'[i].end \in Nat /\ rows'[i].end >= resolved
    <3>1. rows'[i] \in Row
      BY <1>5 DEF Grown
    <3> QED
      BY <3>1, <1>5, <1>1 DEF Row, Wanted
  <2>3. i \in DOMAIN rows /\ (rows[i].end > 0 \/ i = Len(rows))
    BY <2>1, <2>2 DEF Grown, TypeInv
  <2>4. rows[i].end > 0
    <3>1. CASE i \in seen
      BY <3>1, <1>2
    <3>2. CASE i \notin seen
      <4>1. PICK k \in DOMAIN entries : i <= entries[k]
        BY <3>2, <1>5
      <4>2. entries[k] \in DOMAIN rows /\ entries[k] # i
        BY <3>2, <1>3, <1>4
      <4>3. i # Len(rows)
        BY <4>1, <4>2, <2>3 DEF TypeInv
      <4> QED
        BY <4>3, <2>3
    <3> QED
      BY <3>1, <3>2
  <2>5. Wanted(i)
    BY <2>3, <2>4, <1>5, <1>1 DEF Grown, Wanted
  <2> QED
    BY <2>3, <2>5, <1>5 DEF EntriesInv
<1>6. EntriesInv'
  <2>1. \A i \in DOMAIN rows' :
          Wanted(i)' /\ (i \in seen' \/ \E k \in DOMAIN entries' : i <= entries'[k]) => Listed(i)'
    <3>1. \A i : Listed(i)' <=> Listed(i)
      BY <1>1 DEF Listed
    <3> QED
      BY <1>5, <1>1, <3>1
  <2>2. \A k \in DOMAIN entries' : entries'[k] \in seen' /\ rows'[entries'[k]].end >= resolved'
    BY <1>1, <1>3, <1>4 DEF EntriesInv
  <2>3. \A i \in seen' : rows'[i].end > 0
    BY <1>1, <1>2
  <2>4. idx' <= Len(entries') /\ Increasing(entries)'
    BY <1>1 DEF EntriesInv, Increasing
  <2> QED
    BY <2>1, <2>2, <2>3, <2>4 DEF EntriesInv
<1> QED
  BY <1>4, <1>6

LEMMA GrownKeepsSession ==
  ASSUME PlayInv, TypeInv', RowsInv', Grown, UNCHANGED sessionVars
  PROVE  BeforeInv' /\ EntriesInv' /\ WaitInv' /\ ShownInv' /\ GapInv'
<1> USE DEF sessionVars, reqVars, srcVars, playVars
<1>1. UNCHANGED <<pc, resolved, to, entries, idx, seen, after, shown, seeks, lastSegEnd>>
  OBVIOUS
<1>2. /\ \A k \in DOMAIN entries :
           /\ entries[k] \in DOMAIN rows
           /\ rows'[entries[k]].end = rows[entries[k]].end
           /\ rows'[entries[k]].start = rows[entries[k]].start
           /\ rows'[entries[k]].status = "complete" => rows[entries[k]].status = "complete"
      /\ EntriesInv'
  BY GrownKeepsEntries DEF PlayInv
<1>3. TypeInv /\ BeforeInv /\ EntriesInv /\ WaitInv /\ ShownInv /\ GapInv
  BY DEF PlayInv
<1>4. DOMAIN entries = 1 .. Len(entries) /\ Len(entries) \in Nat /\ idx \in Nat /\ idx <= Len(entries)
  BY <1>3 DEF TypeInv, EntriesInv
<1>5. BeforeInv'
  BY <1>1, <1>3 DEF BeforeInv
<1>6. WaitInv'
  <2>1. pc = "wait" => Len(entries) \in DOMAIN entries
    BY <1>3, <1>4 DEF WaitInv, TypeInv
  <2> QED
    BY <1>1, <1>2, <1>3, <2>1 DEF WaitInv
<1>7. Played' = Played /\ \A k : Tracked(k)' <=> Tracked(k)
  BY <1>1 DEF Played, Tracked
<1>8. \A m \in 1 .. idx : m \in DOMAIN entries
  BY <1>4
<1>9. ShownInv'
  BY <1>1, <1>2, <1>3, <1>7, <1>8 DEF ShownInv
<1>10. \A k \in Played : /\ rows'[shown[k].id].end = rows[shown[k].id].end
                         /\ rows'[shown[k].id].start = rows[shown[k].id].start
  BY <1>2, <1>3, <1>8 DEF ShownInv
<1>11. LaterGapsReported'
  <2>1. \A j, k : Follows(j, k)' <=> Follows(j, k)
    BY <1>7 DEF Follows
  <2> QED
    BY <1>1, <1>3, <1>7, <1>10, <2>1 DEF LaterGapsReported, GapInv
<1>12. GapInv'
  BY <1>1, <1>3, <1>7, <1>10, <1>11 DEF GapInv
<1> QED
  BY <1>2, <1>5, <1>6, <1>9, <1>12

-----------------------------------------------------------------------------
(* The request is resolved. *)

\* What QueryByChannel returns.
LEMMA QueryResult ==
  ASSUME TypeInv, NEW lo, NEW hi
  PROVE  LET q == QueryByChannel(lo, hi) IN
         /\ q \in Seq(Nat)
         /\ Increasing(q)
         /\ ToSet(q) = Matching(lo, hi)
         /\ \A k \in DOMAIN q : q[k] \in Matching(lo, hi)
         /\ \A i \in Matching(lo, hi) : \E k \in DOMAIN q : q[k] = i
         /\ Matching(lo, hi) \subseteq DOMAIN rows
<1>1. Len(rows) \in Nat /\ Matching(lo, hi) \in SUBSET (1 .. Len(rows)) /\ DOMAIN rows = 1 .. Len(rows)
  BY DEF TypeInv, Matching
<1> DEFINE M == Matching(lo, hi)
<1> HIDE DEF M
<1>2. M \in SUBSET (1 .. Len(rows)) /\ M = Matching(lo, hi)
  BY <1>1 DEF M
<1>3. /\ Sorted(M) \in Seq(M)
      /\ Increasing(Sorted(M))
      /\ \A k \in DOMAIN Sorted(M) : Sorted(M)[k] \in M
      /\ \A i \in M : \E k \in DOMAIN Sorted(M) : Sorted(M)[k] = i
      /\ ToSet(Sorted(M)) = M
  BY <1>1, <1>2, SortedIsOrdered
<1>4. Sorted(M) \in Seq(Nat)
  BY <1>2, <1>3
<1>5. QueryByChannel(lo, hi) = Sorted(M)
  BY <1>2 DEF QueryByChannel
<1> QED
  BY <1>1, <1>2, <1>3, <1>4, <1>5

\* As long as nothing is listed or shown, there is little to say of the source.
LEMMA NothingYet ==
  ASSUME entries' = <<>>, idx' = 0, seen' = {}, shown' = <<>>,
         pc' \in {"last", "query", "first", "factory", "live", "failed"}
  PROVE  EntriesInv' /\ WaitInv' /\ ShownInv' /\ GapInv'
<1>1. DOMAIN entries' = {} /\ DOMAIN shown' = {} /\ Len(entries') = 0
  OBVIOUS
<1>2. Played' = {}
  BY <1>1 DEF Played
<1>3. EntriesInv'
  BY <1>1 DEF EntriesInv, Increasing
<1>4. WaitInv'
  BY DEF WaitInv
<1>5. ShownInv'
  <2>1. 1 .. idx' = {}
    OBVIOUS
  <2> QED
    BY <1>2, <2>1 DEF ShownInv
<1>6. GapInv'
  BY <1>2 DEF GapInv, LaterGapsReported
<1> QED
  BY <1>3, <1>4, <1>5, <1>6

LEMMA ResolutionKeeps ==
  ASSUME PlayInv,
         \/ \E from \in Starts, t \in Tos : Request(from, t)
         \/ ResolveLast \/ ResolveQuery \/ ResolveFirst
  PROVE  PlayInv'
<1> USE DEF recVars, reqVars, srcVars, playVars
<1>1. TypeInv /\ clock > 0 /\ RowsInv /\ BeforeInv
  BY DEF PlayInv
<1>2. /\ UNCHANGED <<clock, rows, files, crashes, seeks, srcVars, playVars>>
      /\ pc \in {"idle", "last", "query", "first"}
      /\ pc' \in {"last", "query", "first", "factory", "live", "failed"}
      /\ errors' \in Nat
  BY <1>1, SMTT(30) DEF Request, ResolveLast, ResolveQuery, ResolveFirst, Fails, TypeInv
<1>3. /\ entries = <<>> /\ idx = 0 /\ seen = {} /\ shown = <<>> /\ seeks = 0
  BY <1>1, <1>2 DEF BeforeInv
<1>4. resolved' \in Nat /\ resolved' > 0 /\ to' \in Nat
  <2>1. CASE \E from \in Starts, t \in Tos : Request(from, t)
    BY <2>1, PlaybackAssumption DEF Request
  <2>2. CASE ResolveLast
    BY <2>2, <1>1 DEF ResolveLast, TypeInv, BeforeInv
  <2>3. CASE ResolveQuery
    <3>1. resolved \in Nat /\ resolved > 0 /\ to' = to /\ to \in Nat
      BY <2>3, <1>1 DEF ResolveQuery, TypeInv, BeforeInv
    <3> DEFINE found == QueryByChannel(resolved, to)
    <3>2. /\ found \in Seq(Nat)
          /\ \A k \in DOMAIN found : found[k] \in DOMAIN rows
      BY <1>1, QueryResult
    <3>3. found # <<>> => rows[found[1]].start \in Nat
      <4>1. found # <<>> => 1 \in DOMAIN found
        BY <3>2
      <4> QED
        BY <3>2, <4>1, <1>1, RowFields
    <3>4. resolved' = resolved \/
            (found # <<>> /\ resolved < rows[found[1]].start /\ resolved' = rows[found[1]].start)
      BY <2>3 DEF ResolveQuery
    <3> HIDE DEF found
    <3> QED
      BY <3>1, <3>3, <3>4
  <2>4. CASE ResolveFirst
    <3>1. resolved \in Nat /\ resolved > 0 /\ to' = to /\ to \in Nat
      BY <2>4, <1>1 DEF ResolveFirst, TypeInv, BeforeInv
    <3>2. Available # {} => FirstAvailable \in DOMAIN rows
      <4>1. Available \in SUBSET Nat /\ Available \subseteq DOMAIN rows
        BY <1>1 DEF Available, TypeInv
      <4>2. Available # {} => \E i \in Available : \A j \in Available : i <= j
        BY <4>1, LeastElement
      <4>3. Available # {} => FirstAvailable \in Available
        BY <4>2 DEF FirstAvailable
      <4> QED
        BY <4>1, <4>3
    <3>3. Available # {} => rows[FirstAvailable].start \in Nat /\ rows[FirstAvailable].start > 0
      BY <3>2, <1>1, RowFields DEF RowsInv, RowInv
    <3>4. resolved' = resolved \/ (Available # {} /\ resolved' = rows[FirstAvailable].start)
      BY <2>4 DEF ResolveFirst
    <3> QED
      BY <3>1, <3>3, <3>4
  <2> QED
    BY <2>1, <2>2, <2>3, <2>4
<1>5. TypeInv'
  BY <1>1, <1>2, <1>4 DEF TypeInv, Places
<1>6. RowsInv' /\ clock' > 0
  BY <1>1, <1>2 DEF RowsInv, RowInv
<1>7. BeforeInv'
  BY <1>2, <1>3, <1>4 DEF BeforeInv
<1>8. EntriesInv' /\ WaitInv' /\ ShownInv' /\ GapInv'
  BY <1>2, <1>3, NothingYet
<1> QED
  BY <1>5, <1>6, <1>7, <1>8 DEF PlayInv

-----------------------------------------------------------------------------
(* The first segment is opened. *)

\* The parts of the invariant when what they are about does not change.
LEMMA SameEntries ==
  ASSUME EntriesInv, UNCHANGED <<rows, entries, idx, seen, resolved>>
  PROVE  EntriesInv'
BY DEF EntriesInv, Increasing, Wanted, Listed, Playable

LEMMA SameShown ==
  ASSUME ShownInv, GapInv, UNCHANGED <<rows, entries, idx, shown, seeks, lastSegEnd>>
  PROVE  ShownInv' /\ GapInv'
<1>1. Played' = Played /\ (\A k : Tracked(k)' <=> Tracked(k)) /\ (\A j, k : Follows(j, k)' <=> Follows(j, k))
  BY DEF Played, Tracked, Follows
<1>2. ShownInv'
  BY <1>1 DEF ShownInv
<1>3. GapInv'
  BY <1>1 DEF GapInv, LaterGapsReported
<1> QED
  BY <1>2, <1>3

LEMMA SameRows ==
  ASSUME RowsInv, clock > 0, UNCHANGED <<rows, files, clock>>
  PROVE  RowsInv' /\ clock' > 0
BY DEF RowsInv, RowInv

\* Steps that only move the session on, or end it.
LEMMA MovesKeep ==
  ASSUME PlayInv, QueryFails \/ Finish \/ EndOfFile \/ Cancel
  PROVE  PlayInv'
<1> USE DEF recVars, reqVars, srcVars, playVars
<1>1. TypeInv /\ clock > 0 /\ RowsInv /\ BeforeInv /\ EntriesInv /\ WaitInv /\ ShownInv /\ GapInv
  BY DEF PlayInv
<1>2. /\ UNCHANGED <<clock, recVars, reqVars, srcVars, playVars>> /\ errors' \in Nat
      /\ pc # "idle" /\ pc' \in {"failed", "next", "done"}
      /\ pc' = "next" => pc = "playing"
  BY <1>1, SMTT(30) DEF QueryFails, Finish, EndOfFile, Cancel, Fails, TypeInv
<1>3. TypeInv'
  BY <1>1, <1>2 DEF TypeInv, Places
<1>4. BeforeInv' /\ WaitInv'
  BY <1>1, <1>2 DEF BeforeInv, WaitInv
<1> QED
  BY <1>1, <1>2, <1>3, <1>4, SameRows, SameEntries, SameShown DEF PlayInv

\* The factory lists all wanted rows, up to the end of the request.
LEMMA FactoryQueryKeeps ==
  ASSUME PlayInv, FactoryQuery
  PROVE  PlayInv'
<1> USE DEF recVars, reqVars, srcVars, playVars
<1>1. TypeInv /\ clock > 0 /\ RowsInv /\ BeforeInv
  BY DEF PlayInv
<1>2. /\ UNCHANGED <<clock, errors, rows, files, crashes, seeks, resolved, to, usedBuf, lastSegEnd, lastGap>>
      /\ UNCHANGED <<shown, since, after>>
      /\ pc = "factory" /\ pc' = "open" /\ idx' = 0
      /\ entries' = QueryByChannel(resolved, to)
      /\ seen' = ToSet(entries')
  BY DEF FactoryQuery
<1>3. shown = <<>> /\ seeks = 0 /\ resolved > 0 /\ resolved \in Nat
  BY <1>1, <1>2 DEF BeforeInv, TypeInv
<1> DEFINE M == Matching(resolved, to)
<1>4. /\ entries' \in Seq(Nat) /\ Increasing(entries') /\ seen' = M
      /\ \A k \in DOMAIN entries' : entries'[k] \in M
      /\ \A i \in M : \E k \in DOMAIN entries' : entries'[k] = i
      /\ M \subseteq DOMAIN rows
  BY <1>1, <1>2, QueryResult
<1>5. \A i \in M : Playable(i) /\ rows[i].end >= resolved /\ (to > 0 => rows[i].start <= to)
  BY <1>3 DEF Matching
<1>6. TypeInv'
  BY <1>1, <1>2, <1>4 DEF TypeInv, Places
<1>7. BeforeInv'
  BY <1>2, <1>3 DEF BeforeInv
<1>8. EntriesInv'
  <2>1. \A i \in DOMAIN rows : Wanted(i) /\ (\E k \in DOMAIN entries' : i <= entries'[k]) => i \in M
    <3> SUFFICES ASSUME NEW i \in DOMAIN rows, Wanted(i), NEW k \in DOMAIN entries', i <= entries'[k]
                 PROVE  i \in M
      OBVIOUS
    <3>1. entries'[k] \in M /\ entries'[k] \in DOMAIN rows
      BY <1>4
    <3>2. rows[i].start <= rows[entries'[k]].start
      <4>1. CASE i = entries'[k]
        BY <4>1, <1>1, RowFields
      <4>2. CASE i < entries'[k]
        BY <4>2, <3>1, <1>1, RowFields DEF RowsInv, RowInv
      <4> QED
        BY <4>1, <4>2, <3>1, <1>1 DEF TypeInv
    <3>3. to > 0 => rows[i].start <= to
      BY <3>1, <3>2, <1>5, <1>1, RowFields, SMTT(20) DEF TypeInv
    <3> QED
      BY <3>3 DEF Matching, Wanted
  <2>2. \A i \in DOMAIN rows' :
          Wanted(i)' /\ (i \in seen' \/ \E k \in DOMAIN entries' : i <= entries'[k]) => Listed(i)'
    <3>1. \A i : Wanted(i)' => Wanted(i)
      BY <1>2 DEF Wanted, Playable
    <3>2. \A i \in M : Listed(i)'
      BY <1>4 DEF Listed
    <3> HIDE DEF M
    <3> QED
      BY <1>2, <1>4, <2>1, <3>1, <3>2
  <2>3. \A i \in M : rows[i].end > 0
    BY <1>3, <1>4, <1>5, <1>1, RowFields
  <2>4. idx' <= Len(entries')
    BY <1>2, <1>4
  <2>5. \A k \in DOMAIN entries' : entries'[k] \in seen' /\ rows'[entries'[k]].end >= resolved'
    BY <1>2, <1>4, <1>5
  <2>6. \A i \in seen' : rows'[i].end > 0
    BY <1>2, <1>4, <2>3
  <2>7. Increasing(entries)'
    BY <1>4 DEF Increasing
  <2> HIDE DEF M
  <2> QED
    BY <2>2, <2>4, <2>5, <2>6, <2>7 DEF EntriesInv
<1>9. WaitInv'
  BY <1>2 DEF WaitInv
<1>10. ShownInv' /\ GapInv'
  <2>1. Played' = {}
    BY <1>2, <1>3 DEF Played
  <2>2. 1 .. idx' = {}
    BY <1>2
  <2> QED
    BY <2>1, <2>2 DEF ShownInv, GapInv, LaterGapsReported
<1> QED
  BY <1>1, <1>2, <1>6, <1>7, <1>8, <1>9, <1>10, SameRows DEF PlayInv

\* An entry without its file is not complete, so passing over it hides nothing.
LEMMA GoneIsNotComplete ==
  ASSUME TypeInv, RowsInv, EntriesInv, NEW m \in DOMAIN entries, entries[m] \notin files
  PROVE  rows[entries[m]].status # "complete"
BY DEF TypeInv, RowsInv, RowInv, EntriesInv

\* openFirstSegment shows one segment, after entries that are gone.
LEMMA OpenFirstKeeps ==
  ASSUME PlayInv, OpenFirst
  PROVE  PlayInv'
<1> USE DEF recVars, reqVars, srcVars, playVars
<1>1. TypeInv /\ clock > 0 /\ RowsInv /\ BeforeInv /\ EntriesInv /\ WaitInv /\ ShownInv /\ GapInv
  BY DEF PlayInv
<1>2. /\ UNCHANGED <<clock, errors, rows, files, crashes, seeks, resolved, to, entries, seen>>
      /\ UNCHANGED <<usedBuf, lastSegEnd, lastGap, since, after>>
      /\ pc = "open" /\ idx < Len(entries) /\ idx' = idx + 1
  BY DEF OpenFirst
<1>3. /\ DOMAIN entries = 1 .. Len(entries) /\ Len(entries) \in Nat /\ idx \in Nat
      /\ idx + 1 \in DOMAIN entries /\ entries[idx + 1] \in Nat
      /\ entries[idx + 1] \in DOMAIN rows
      /\ shown = <<>> /\ seeks = 0 /\ resolved > 0
  BY <1>1, <1>2 DEF TypeInv, BeforeInv, EntriesInv
<1>4. 1 .. idx' = (1 .. idx) \cup {idx + 1}
  BY <1>2, <1>3
<1>5. \A m \in 1 .. idx : rows[entries[m]].status # "complete"
  <2>1. Played = {}
    BY <1>3 DEF Played
  <2> QED
    BY <2>1, <1>1 DEF ShownInv
<1>6. EntriesInv'
  BY <1>1, <1>2, <1>3 DEF EntriesInv, Increasing, Wanted, Listed, Playable
<1>7. CASE entries[idx + 1] \notin files
  <2>1. UNCHANGED <<shown, pc>>
    BY <1>7 DEF OpenFirst
  <2>2. TypeInv' /\ BeforeInv' /\ WaitInv'
    BY <1>1, <1>2, <1>3, <2>1 DEF TypeInv, BeforeInv, WaitInv
  <2>3. Played' = {}
    BY <1>3, <2>1 DEF Played
  <2>4. rows[entries[idx + 1]].status # "complete"
    BY <1>1, <1>3, <1>7, GoneIsNotComplete
  <2>5. ShownInv' /\ GapInv'
    BY <1>2, <1>4, <1>5, <2>3, <2>4 DEF ShownInv, GapInv, LaterGapsReported
  <2> QED
    BY <1>1, <1>2, <1>6, <2>2, <2>5, SameRows DEF PlayInv
<1>8. CASE entries[idx + 1] \in files
  <2> DEFINE item == [id |-> entries[idx + 1], gap |-> 0]
  <2>1. shown' = <<item>> /\ pc' = "playing"
    BY <1>8 DEF OpenFirst
  <2>2. item \in [id : Nat, gap : Nat] /\ item.id = entries[idx + 1] /\ item.id # Live
    BY <1>3, <1>1 DEF Live, TypeInv
  <2> HIDE DEF item
  <2>3. /\ shown' \in Seq([id : Nat, gap : Nat]) /\ DOMAIN shown' = {1} /\ shown'[1] = item
    BY <2>1, <2>2
  <2>4. Played' = {1}
    BY <2>2, <2>3 DEF Played
  <2>5. TypeInv'
    BY <1>1, <1>2, <1>3, <2>1, <2>3 DEF TypeInv, Places
  <2>6. BeforeInv' /\ WaitInv'
    BY <1>2, <1>3, <2>1 DEF BeforeInv, WaitInv
  <2>7. ShownInv'
    BY <1>2, <1>3, <1>4, <1>5, <2>2, <2>3, <2>4 DEF ShownInv
  <2>8. GapInv'
    <3>1. ~Tracked(1)'
      BY <1>2, <1>3, <2>4 DEF Tracked
    <3> QED
      BY <2>4, <3>1 DEF GapInv, LaterGapsReported, Follows
  <2> QED
    BY <1>1, <1>2, <1>6, <2>5, <2>6, <2>7, <2>8, SameRows DEF PlayInv
<1> QED
  BY <1>7, <1>8

\* liveFallback shows no segment.
LEMMA LiveFallbackKeeps ==
  ASSUME PlayInv, LiveFallback
  PROVE  PlayInv'
<1> USE DEF recVars, reqVars, srcVars, playVars
<1>1. TypeInv /\ clock > 0 /\ RowsInv /\ BeforeInv /\ EntriesInv /\ WaitInv /\ ShownInv /\ GapInv
  BY DEF PlayInv
<1>2. /\ UNCHANGED <<clock, errors, rows, files, crashes, seeks, resolved, to, entries, idx, seen>>
      /\ UNCHANGED <<usedBuf, lastSegEnd, lastGap>>
      /\ pc = "open" /\ pc' \in {"done", "failed"}
  BY DEF LiveFallback
<1>3. /\ shown' \in {<<[id |-> Live, gap |-> 0]>>, <<>>} /\ since' \in Nat /\ after' \in Nat
      /\ shown = <<>> /\ resolved > 0
  BY <1>1, <1>2 DEF LiveFallback, TypeInv, BeforeInv
<1>4. shown' \in Seq([id : Nat, gap : Nat]) /\ Played' = {}
  <2> DEFINE item == [id |-> Live, gap |-> 0]
  <2>1. item \in [id : Nat, gap : Nat] /\ item.id = Live
    BY DEF Live
  <2> HIDE DEF item
  <2>2. CASE shown' = <<item>>
    <3>1. DOMAIN shown' = {1} /\ shown'[1] = item /\ shown' \in Seq([id : Nat, gap : Nat])
      BY <2>1, <2>2
    <3> QED
      BY <2>1, <3>1 DEF Played
  <2>3. CASE shown' = <<>>
    BY <2>3 DEF Played
  <2> QED
    BY <1>3, <2>2, <2>3 DEF item
<1>5. Played = {}
  BY <1>3 DEF Played
<1>6. TypeInv'
  BY <1>1, <1>2, <1>3, <1>4 DEF TypeInv, Places
<1>7. BeforeInv' /\ WaitInv'
  BY <1>2, <1>3 DEF BeforeInv, WaitInv
<1>8. ShownInv' /\ GapInv'
  BY <1>1, <1>2, <1>4, <1>5 DEF ShownInv, GapInv, LaterGapsReported
<1> QED
  BY <1>1, <1>2, <1>6, <1>7, <1>8, SameRows, SameEntries DEF PlayInv

-----------------------------------------------------------------------------
(* The segments that follow. *)

\* Appending to what was shown.
LEMMA ShownAppended ==
  ASSUME TypeInv, NEW item \in [id : Nat, gap : Nat], shown' = Append(shown, item)
  PROVE  /\ shown' \in Seq([id : Nat, gap : Nat])
         /\ Len(shown) + 1 \in Nat
         /\ Played \subseteq 1 .. Len(shown)
         /\ \A k \in Played : shown'[k] = shown[k]
         /\ shown'[Len(shown) + 1] = item
         /\ Played' = IF item.id = Live THEN Played ELSE Played \cup {Len(shown) + 1}
<1>1. /\ shown' \in Seq([id : Nat, gap : Nat]) /\ Len(shown) \in Nat
      /\ DOMAIN shown = 1 .. Len(shown) /\ DOMAIN shown' = 1 .. (Len(shown) + 1)
      /\ \A k \in DOMAIN shown : shown'[k] = shown[k]
      /\ shown'[Len(shown) + 1] = item
  BY DEF TypeInv
<1>2. Played \subseteq DOMAIN shown /\ \A k \in DOMAIN shown : k \in Played <=> shown[k].id # Live
  BY DEF Played
<1>3. Played' \subseteq DOMAIN shown' /\ \A k \in DOMAIN shown' : k \in Played' <=> shown'[k].id # Live
  BY DEF Played
<1>4. \A k \in DOMAIN shown : k \in Played' <=> k \in Played
  BY <1>1, <1>2, <1>3
<1>5. Len(shown) + 1 \in Played' <=> item.id # Live
  BY <1>1, <1>3, SMTT(30)
<1>6. DOMAIN shown' = DOMAIN shown \cup {Len(shown) + 1} /\ Len(shown) + 1 \notin DOMAIN shown
  BY <1>1
<1>7. Played' = IF item.id = Live THEN Played ELSE Played \cup {Len(shown) + 1}
  BY <1>2, <1>3, <1>4, <1>5, <1>6
<1> QED
  BY <1>1, <1>2, <1>7

\* openEntry that finds the file: the gap it computes is the one to the segment
\* played before.
LEMMA OpenedKeeps ==
  ASSUME PlayInv, OpenEntry, entries[idx + 1] \in files
  PROVE  PlayInv'
<1> USE DEF recVars, reqVars, srcVars, playVars
<1> DEFINE i == entries[idx + 1]
           item == [id |-> i, gap |-> GapOf(i)]
           n == Len(shown) + 1
<1>1. TypeInv /\ clock > 0 /\ RowsInv /\ BeforeInv /\ EntriesInv /\ WaitInv /\ ShownInv /\ GapInv
  BY DEF PlayInv
<1>2. /\ UNCHANGED <<clock, errors, rows, files, crashes, seeks, resolved, to, entries, seen, usedBuf, since>>
      /\ pc \in {"next", "polled", "wait"} /\ pc' = "playing"
      /\ idx < Len(entries) /\ idx' = idx + 1
      /\ lastGap' = GapOf(i) /\ lastSegEnd' = SegEnd(i) /\ after' = 0
      /\ shown' = Append(shown, item)
  BY DEF OpenEntry
<1>3. /\ DOMAIN entries = 1 .. Len(entries) /\ Len(entries) \in Nat /\ idx \in Nat
      /\ idx + 1 \in DOMAIN entries /\ i \in Nat /\ i \in DOMAIN rows
      /\ rows[i].end > 0 /\ resolved > 0
  BY <1>1, <1>2, SMTT(30) DEF TypeInv, BeforeInv, EntriesInv
<1>4. rows[i].start \in Nat /\ rows[i].end \in Nat /\ lastSegEnd \in Nat /\ GapThreshold \in Nat \ {0} /\ i # Live
  BY <1>1, <1>3, RowFields, PlaybackAssumption DEF TypeInv, Live
<1>5. /\ GapOf(i) \in Nat
      /\ lastSegEnd > 0 => (GapOf(i) > 0 <=> rows[i].start >= lastSegEnd + GapThreshold)
      /\ SegEnd(i) = rows[i].end
  BY <1>3, <1>4 DEF GapOf, SegEnd, EndTime
<1>6. item \in [id : Nat, gap : Nat] /\ item.id = i /\ item.gap = GapOf(i)
  BY <1>3, <1>5
<1> HIDE DEF item
<1>7. /\ shown' \in Seq([id : Nat, gap : Nat])
      /\ n \in Nat /\ Played \subseteq 1 .. Len(shown)
      /\ \A k \in Played : shown'[k] = shown[k]
      /\ shown'[n] = item
      /\ Played' = Played \cup {n}
  BY <1>1, <1>2, <1>4, <1>6, ShownAppended
<1>8. \A k \in Played : k \in Nat /\ k < n
  BY <1>7, <1>1 DEF TypeInv
<1> HIDE DEF n
<1>9. TypeInv'
  BY <1>1, <1>2, <1>3, <1>4, <1>5, <1>7, SMTT(30) DEF TypeInv, Places
<1>10. BeforeInv' /\ WaitInv'
  <2>1. entries # <<>>
    BY <1>1, <1>2 DEF WaitInv
  <2> QED
    BY <1>2, <1>3, <2>1 DEF BeforeInv, WaitInv
<1>11. EntriesInv'
  BY <1>1, <1>2, <1>3 DEF EntriesInv, Increasing, Wanted, Listed, Playable
<1>12. ShownInv'
  <2>1. 1 .. idx' = (1 .. idx) \cup {idx + 1}
    BY <1>2, <1>3
  <2>2. \A k \in Played : shown[k].id < i
    <3> SUFFICES ASSUME NEW k \in Played PROVE shown[k].id < i
      OBVIOUS
    <3>1. PICK m \in 1 .. idx : shown[k].id = entries[m]
      BY <1>1 DEF ShownInv
    <3> QED
      BY <3>1, <1>1, <1>3 DEF EntriesInv, Increasing
  <2>3. \A k \in Played' : \E m \in 1 .. idx' : shown'[k].id = entries'[m]
    <3> SUFFICES ASSUME NEW k \in Played' PROVE \E m \in 1 .. idx' : shown'[k].id = entries'[m]
      OBVIOUS
    <3>1. CASE k \in Played
      <4>1. PICK m \in 1 .. idx : shown[k].id = entries[m]
        BY <3>1, <1>1 DEF ShownInv
      <4> QED
        BY <4>1, <3>1, <1>2, <1>7, <2>1
    <3>2. CASE k = n
      BY <3>2, <1>2, <1>6, <1>7, <2>1
    <3> QED
      BY <3>1, <3>2, <1>7
  <2>4. \A j, k \in Played' : j < k => shown'[j].id < shown'[k].id
    <3> SUFFICES ASSUME NEW j \in Played', NEW k \in Played', j < k PROVE shown'[j].id < shown'[k].id
      OBVIOUS
    <3>1. j \in Played /\ shown'[j] = shown[j]
      BY <1>7, <1>8
    <3>2. CASE k \in Played
      BY <3>1, <3>2, <1>1, <1>7 DEF ShownInv
    <3>3. CASE k = n
      BY <3>1, <3>3, <1>6, <1>7, <2>2
    <3> QED
      BY <3>2, <3>3, <1>7
  <2>5. \A m \in 1 .. idx' : rows'[entries'[m]].status = "complete" =>
          \E k \in Played' : shown'[k].id = entries'[m]
    <3> SUFFICES ASSUME NEW m \in 1 .. idx', rows[entries[m]].status = "complete"
                 PROVE  \E k \in Played' : shown'[k].id = entries[m]
      BY <1>2
    <3>1. CASE m \in 1 .. idx
      <4>1. PICK k \in Played : shown[k].id = entries[m]
        BY <3>1, <1>1 DEF ShownInv
      <4> QED
        BY <4>1, <1>7
    <3>2. CASE m = idx + 1
      BY <3>2, <1>6, <1>7
    <3> QED
      BY <3>1, <3>2, <2>1
  <2> QED
    BY <2>3, <2>4, <2>5 DEF ShownInv
<1>13. GapInv'
  <2>1. \A k \in Played' : (\A m \in Played' : m <= k) => k = n
    BY <1>7, <1>8
  <2>2. lastSegEnd' = rows'[shown'[n].id].end
    BY <1>2, <1>5, <1>6, <1>7
  <2>3. LaterGapsReported'
    <3> SUFFICES ASSUME NEW j \in Played', NEW k \in Played', Follows(j, k)',
                        seeks' > 0 \/ \E m \in Played' : m < j
                 PROVE  (shown'[k].gap > 0) <=>
                          (rows'[shown'[k].id].start >= rows'[shown'[j].id].end + GapThreshold)
      BY DEF LaterGapsReported
    <3>1. j < k /\ \A m \in Played' : m <= j \/ k <= m
      BY DEF Follows
    <3>2. j \in Played /\ shown'[j] = shown[j]
      BY <1>7, <1>8, <3>1
    <3>3. Tracked(j)
      BY <1>2, <1>7, <1>8, <3>2, SMTT(30) DEF Tracked
    <3>4. CASE k = n
      <4>1. \A m \in Played : m <= j
        BY <3>1, <3>4, <1>7, <1>8
      <4>2. lastSegEnd = rows[shown[j].id].end
        BY <1>1, <3>2, <3>3, <4>1 DEF GapInv
      <4>3. rows[shown[j].id].end > 0
        <5>1. PICK m \in 1 .. idx : shown[j].id = entries[m]
          BY <1>1, <3>2 DEF ShownInv
        <5>2. entries[m] \in seen
          BY <1>1, <1>2, <1>3 DEF EntriesInv
        <5> QED
          BY <5>1, <5>2, <1>1 DEF EntriesInv
      <4> QED
        BY <1>2, <1>5, <1>6, <1>7, <3>2, <3>4, <4>2, <4>3
    <3>5. CASE k # n
      <4>1. k \in Played /\ shown'[k] = shown[k]
        BY <1>7, <3>5
      <4>2. Follows(j, k)
        BY <3>1, <1>7 DEF Follows
      <4> QED
        BY <1>1, <1>2, <3>2, <3>3, <4>1, <4>2 DEF GapInv, LaterGapsReported, Tracked
    <3> QED
      BY <3>4, <3>5
  <2> QED
    BY <2>1, <2>2, <2>3 DEF GapInv
<1> QED
  BY <1>1, <1>2, <1>9, <1>10, <1>11, <1>12, <1>13, SameRows DEF PlayInv

\* openEntry that finds the file gone passes on to the next entry.
LEMMA SkippedKeeps ==
  ASSUME PlayInv, OpenEntry, entries[idx + 1] \notin files
  PROVE  PlayInv'
<1> USE DEF recVars, reqVars, srcVars, playVars
<1>1. TypeInv /\ clock > 0 /\ RowsInv /\ BeforeInv /\ EntriesInv /\ WaitInv /\ ShownInv /\ GapInv
  BY DEF PlayInv
<1>2. /\ UNCHANGED <<clock, errors, rows, files, crashes, seeks, resolved, to, entries, seen, usedBuf, since>>
      /\ UNCHANGED <<lastGap, lastSegEnd, shown, after, pc>>
      /\ pc \in {"next", "polled", "wait"} /\ idx < Len(entries) /\ idx' = idx + 1
  BY DEF OpenEntry
<1>3. /\ DOMAIN entries = 1 .. Len(entries) /\ Len(entries) \in Nat /\ idx \in Nat
      /\ idx + 1 \in DOMAIN entries
  BY <1>1, <1>2 DEF TypeInv
<1>4. 1 .. idx' = (1 .. idx) \cup {idx + 1}
  BY <1>2, <1>3
<1>5. TypeInv' /\ BeforeInv' /\ WaitInv'
  BY <1>1, <1>2, <1>3 DEF TypeInv, BeforeInv, WaitInv
<1>6. EntriesInv'
  BY <1>1, <1>2, <1>3 DEF EntriesInv, Increasing, Wanted, Listed, Playable
<1>7. rows[entries[idx + 1]].status # "complete"
  BY <1>1, <1>3, GoneIsNotComplete
<1>8. Played' = Played /\ (\A k : Tracked(k)' <=> Tracked(k)) /\ (\A j, k : Follows(j, k)' <=> Follows(j, k))
  BY <1>2 DEF Played, Tracked, Follows
<1>9. ShownInv'
  BY <1>1, <1>2, <1>4, <1>7, <1>8 DEF ShownInv
<1>10. GapInv'
  BY <1>1, <1>2, <1>8 DEF GapInv, LaterGapsReported
<1> QED
  BY <1>1, <1>2, <1>5, <1>6, <1>9, <1>10, SameRows DEF PlayInv

\* A sequence over a set is one over every larger set.
LEMMA SeqOfSubset ==
  ASSUME NEW S, NEW T, S \subseteq T, NEW s \in Seq(S)
  PROVE  s \in Seq(T)
OBVIOUS

\* An index into two sequences put together points into one of them.
LEMMA IndexOfBoth ==
  ASSUME NEW m \in Nat, NEW n \in Nat, NEW k \in 1 .. (m + n), k \notin 1 .. m
  PROVE  k - m \in 1 .. n /\ k = m + (k - m)
OBVIOUS

\* A poll: what it adds lies behind all known entries, and between the last of
\* them and what it adds no wanted row is missed.
LEMMA MergeKeeps ==
  ASSUME TypeInv, RowsInv, EntriesInv, resolved > 0, entries # <<>>,
         NEW lo \in Nat, resolved <= lo, lo <= rows[entries[Len(entries)]].end,
         Merge(QueryByChannel(lo, 0)), UNCHANGED <<rows, resolved, idx>>
  PROVE  /\ entries' \in Seq(Nat) /\ seen' \subseteq DOMAIN rows
         /\ Len(entries) <= Len(entries') /\ entries' # <<>>
         /\ \A k \in DOMAIN entries : entries'[k] = entries[k]
         /\ rows[entries[Len(entries)]].end <= rows[entries'[Len(entries')]].end
         /\ EntriesInv'
<1> DEFINE M == Matching(lo, 0)
           New == M \ seen
           add == Sorted(New)
           len == Len(entries)
           l == entries[len]
<1>1. /\ entries \in Seq(Nat) /\ len \in Nat /\ len > 0 /\ DOMAIN entries = 1 .. len
      /\ len \in DOMAIN entries /\ l \in seen /\ l \in DOMAIN rows /\ rows[l].end \in Nat
      /\ resolved \in Nat /\ DOMAIN rows = 1 .. Len(rows) /\ Len(rows) \in Nat /\ idx \in Nat
  <2>1. /\ entries \in Seq(Nat) /\ len \in Nat /\ len > 0 /\ DOMAIN entries = 1 .. len
        /\ len \in DOMAIN entries
        /\ resolved \in Nat /\ DOMAIN rows = 1 .. Len(rows) /\ Len(rows) \in Nat /\ idx \in Nat
    BY DEF TypeInv
  <2>2. l \in seen /\ l \in DOMAIN rows
    BY <2>1 DEF EntriesInv, TypeInv
  <2> QED
    BY <2>1, <2>2, RowFields
<1>2. ToSet(QueryByChannel(lo, 0)) = M /\ M \subseteq DOMAIN rows
  BY QueryResult
<1>3. entries' = entries \o add /\ seen' = seen \cup M
  BY <1>2 DEF Merge
<1>4. /\ add \in Seq(New) /\ Increasing(add)
      /\ \A k \in DOMAIN add : add[k] \in New
      /\ \A i \in New : \E k \in DOMAIN add : add[k] = i
  <2>1. New \in SUBSET (1 .. Len(rows))
    BY <1>1, <1>2
  <2> HIDE DEF New
  <2> QED
    BY <2>1, <1>1, SortedIsOrdered
<1>5. \A i \in M : i \in DOMAIN rows /\ i \in Nat /\ Wanted(i) /\ rows[i].end >= lo
  <2> SUFFICES ASSUME NEW i \in M PROVE i \in DOMAIN rows /\ i \in Nat /\ Wanted(i) /\ rows[i].end >= lo
    OBVIOUS
  <2>1. i \in DOMAIN rows /\ i \in Nat
    BY <1>1, <1>2
  <2>2. Playable(i) /\ rows[i].end >= lo
    BY <1>1 DEF Matching
  <2> QED
    BY <2>1, <2>2, <1>1, RowFields DEF Wanted
<1> HIDE DEF M
<1>6. add \in Seq(Nat) /\ Len(add) \in Nat /\ DOMAIN add = 1 .. Len(add)
  <2>1. New \subseteq Nat
    BY <1>5
  <2>2. add \in Seq(New)
    BY <1>4
  <2> HIDE DEF New, add
  <2>3. add \in Seq(Nat)
    BY <2>1, <2>2, SeqOfSubset
  <2> QED
    BY <2>3
<1>7. ASSUME NEW i \in New, NEW k \in DOMAIN entries
      PROVE  entries[k] < i
  <2>1. entries[k] \in Nat /\ i \in Nat /\ i \in DOMAIN rows /\ Wanted(i) /\ i \notin seen
    BY <1>1, <1>5
  <2>2. ~Listed(i)
    BY <2>1 DEF Listed, EntriesInv
  <2>3. ~(i <= entries[k])
    BY <2>1, <2>2 DEF EntriesInv
  <2> QED
    BY <2>1, <2>3
<1> HIDE DEF New, add, len
<1>8. /\ entries' \in Seq(Nat) /\ Len(entries') = len + Len(add)
      /\ DOMAIN entries' = 1 .. (len + Len(add))
      /\ \A k \in 1 .. len : entries'[k] = entries[k]
      /\ \A k \in 1 .. Len(add) : entries'[len + k] = add[k]
  BY <1>1, <1>3, <1>6 DEF len
<1>9. \A k \in DOMAIN entries' : k \in 1 .. len \/ \E n \in 1 .. Len(add) : k = len + n
  <2> SUFFICES ASSUME NEW k \in DOMAIN entries', k \notin 1 .. len
               PROVE  \E n \in 1 .. Len(add) : k = len + n
    OBVIOUS
  <2>1. len \in Nat /\ Len(add) \in Nat /\ k \in 1 .. (len + Len(add))
    BY <1>1, <1>6, <1>8
  <2>2. k - len \in 1 .. Len(add) /\ k = len + (k - len)
    BY <2>1, IndexOfBoth
  <2> QED
    BY <2>2
<1>10. \A k \in DOMAIN entries' : entries'[k] \in New \/ (k \in DOMAIN entries /\ entries'[k] = entries[k])
  <2> SUFFICES ASSUME NEW k \in DOMAIN entries'
               PROVE  entries'[k] \in New \/ (k \in DOMAIN entries /\ entries'[k] = entries[k])
    OBVIOUS
  <2>1. CASE k \in 1 .. len
    BY <2>1, <1>1, <1>8
  <2>2. CASE k \notin 1 .. len
    <3>1. PICK n \in 1 .. Len(add) : k = len + n
      BY <2>2, <1>9
    <3>2. entries'[k] = add[n]
      BY <3>1, <1>8
    <3>3. add[n] \in New
      BY <3>1, <1>4, <1>6
    <3> QED
      BY <3>2, <3>3
  <2> QED
    BY <2>1, <2>2
<1>11. \A k \in DOMAIN entries : k \in DOMAIN entries' /\ entries'[k] = entries[k]
  BY <1>1, <1>6, <1>8
<1>12. \A i \in New : \E k \in DOMAIN entries' : entries'[k] = i
  <2> SUFFICES ASSUME NEW i \in New PROVE \E k \in DOMAIN entries' : entries'[k] = i
    OBVIOUS
  <2>1. PICK n \in 1 .. Len(add) : add[n] = i
    BY <1>4, <1>6
  <2>2. len + n \in DOMAIN entries' /\ entries'[len + n] = i
    BY <2>1, <1>1, <1>6, <1>8
  <2> QED
    BY <2>2
<1>13. Increasing(entries)'
  <2> SUFFICES ASSUME NEW j \in DOMAIN entries', NEW k \in DOMAIN entries', j < k
               PROVE  entries'[j] < entries'[k]
    BY DEF Increasing
  <2>1. CASE k \in 1 .. len
    <3>1. j \in 1 .. len
      BY <2>1, <1>1, <1>6, <1>8
    <3> QED
      BY <2>1, <3>1, <1>1, <1>8 DEF EntriesInv, Increasing
  <2>2. CASE k \notin 1 .. len
    <3>1. PICK n \in 1 .. Len(add) : k = len + n
      BY <2>2, <1>9
    <3>2. entries'[k] = add[n] /\ add[n] \in New
      BY <3>1, <1>4, <1>6, <1>8
    <3>3. CASE j \in 1 .. len
      BY <3>2, <3>3, <1>1, <1>7, <1>8
    <3>4. CASE j \notin 1 .. len
      <4>1. PICK p \in 1 .. Len(add) : j = len + p
        BY <3>4, <1>9
      <4>2. p < n
        BY <3>1, <4>1, <1>1, <1>6
      <4>3. add[p] < add[n]
        BY <4>2, <1>4, <1>6 DEF Increasing
      <4> QED
        BY <3>2, <4>1, <4>3, <1>8
    <3> QED
      BY <3>3, <3>4
  <2> QED
    BY <2>1, <2>2
<1>14. rows[l].end <= rows[entries'[Len(entries')]].end
  <2>1. CASE Len(add) = 0
    <3>1. Len(entries') = len /\ entries'[Len(entries')] = l
      BY <2>1, <1>1, <1>8
    <3> QED
      BY <3>1, <1>1
  <2>2. CASE Len(add) # 0
    <3> DEFINE i == add[Len(add)]
    <3>1. entries'[Len(entries')] = i /\ i \in New
      <4>1. Len(add) \in 1 .. Len(add) /\ Len(add) \in DOMAIN add
        BY <2>2, <1>6
      <4>2. Len(entries') = len + Len(add)
        BY <1>8
      <4>3. entries'[len + Len(add)] = i
        BY <4>1, <1>8
      <4>4. i \in New
        BY <4>1, <1>4
      <4> QED
        BY <4>2, <4>3, <4>4
    <3>2. l < i /\ i \in DOMAIN rows /\ rows[i].end >= lo
      BY <3>1, <1>1, <1>5, <1>7 DEF New
    <3>3. rows[l].end <= rows[i].start /\ rows[i].start < rows[i].end
      <4>1. rows[i].end \in Nat /\ rows[i].end > 0
        BY <3>2, <1>1, RowFields
      <4> QED
        BY <3>2, <4>1, <1>1 DEF RowsInv, RowInv
    <3> QED
      BY <3>1, <3>2, <3>3, <1>1, RowFields, SMTT(30)
  <2> QED
    BY <2>1, <2>2
<1>15. \A i : Listed(i) \/ i \in New => Listed(i)'
  BY <1>11, <1>12 DEF Listed
<1>16. \A i \in DOMAIN rows :
         Wanted(i) /\ (i \in seen' \/ \E k \in DOMAIN entries' : i <= entries'[k]) => Listed(i)'
  <2> SUFFICES ASSUME NEW i \in DOMAIN rows, Wanted(i), i \notin seen, i \notin M,
                      NEW k \in DOMAIN entries', i <= entries'[k]
               PROVE  Listed(i)
    <3>1. \A i \in DOMAIN rows : Wanted(i) /\ i \in seen => Listed(i)
      BY DEF EntriesInv
    <3>2. \A i \in M : i \in seen \/ i \in New
      BY DEF New
    <3> QED
      BY <1>3, <1>15, <3>1, <3>2
  <2>1. i \in Nat /\ l \in Nat /\ rows[i].end \in Nat /\ rows[i].start \in Nat /\ rows[i].end >= resolved
    BY <1>1, RowFields DEF Wanted
  <2>2. CASE i <= l
    BY <2>2, <1>1 DEF EntriesInv
  <2>3. CASE l < i
    <3>1. rows[l].end <= rows[i].start /\ rows[i].start < rows[i].end
      BY <2>1, <2>3, <1>1, SMTT(20) DEF RowsInv, RowInv
    <3>2. rows[i].end >= lo
      BY <3>1, <2>1, <1>1 DEF len
    <3>3. i \in M
      BY <3>2 DEF M, Matching, Wanted
    <3> QED
      BY <3>3
  <2> QED
    BY <2>1, <2>2, <2>3
<1>17. EntriesInv'
  <2>1. idx' <= Len(entries')
    BY <1>1, <1>6, <1>8 DEF EntriesInv, len
  <2>2. \A i \in seen' : rows'[i].end > 0
    <3>1. \A i \in M : rows[i].end > 0
      BY <1>1, <1>5, RowFields
    <3> QED
      BY <3>1, <1>3 DEF EntriesInv
  <2>3. \A k \in DOMAIN entries' : entries'[k] \in seen' /\ rows'[entries'[k]].end >= resolved'
    <3>1. \A i \in New : i \in seen' /\ rows[i].end >= resolved
      BY <1>3, <1>5 DEF New, Wanted
    <3> QED
      BY <3>1, <1>3, <1>10 DEF EntriesInv
  <2>4. \A i : Wanted(i)' <=> Wanted(i)
    BY DEF Wanted, Playable
  <2> QED
    BY <2>1, <2>2, <2>3, <2>4, <1>13, <1>16 DEF EntriesInv
<1>18. Len(entries) <= Len(entries') /\ entries' # <<>>
  BY <1>1, <1>6, <1>8 DEF len
<1> QED
  BY <1>1, <1>2, <1>3, <1>8, <1>11, <1>14, <1>17, <1>18 DEF len, TypeInv

\* The start of playback, the end of the last entry, and between them the after
\* time of waitForNext.
LEMMA LastEntry ==
  ASSUME TypeInv, BeforeInv, EntriesInv, WaitInv, pc \in {"polled", "next", "wait"}
  PROVE  /\ entries # <<>> /\ Len(entries) \in DOMAIN entries
         /\ entries[Len(entries)] \in DOMAIN rows
         /\ AfterTime = rows[entries[Len(entries)]].end /\ AfterTime \in Nat
         /\ resolved > 0 /\ resolved <= AfterTime
<1>1. entries # <<>> /\ Len(entries) \in DOMAIN entries
  BY DEF WaitInv, TypeInv
<1>2. entries[Len(entries)] \in DOMAIN rows /\ rows[entries[Len(entries)]].end >= resolved
  BY <1>1 DEF EntriesInv, TypeInv
<1>3. AfterTime = rows[entries[Len(entries)]].end
  BY <1>1 DEF AfterTime, EndTime, Last
<1>4. AfterTime \in Nat
  BY <1>2, <1>3, RowFields
<1>5. resolved > 0 /\ resolved \in Nat
  BY DEF BeforeInv, TypeInv
<1> QED
  BY <1>1, <1>2, <1>3, <1>4, <1>5

\* More entries behind the cursor leave what was shown as it is.
LEMMA AppendedKeepsShown ==
  ASSUME TypeInv, EntriesInv, ShownInv, GapInv,
         \A k \in DOMAIN entries : entries'[k] = entries[k],
         UNCHANGED <<rows, idx, shown, seeks, lastSegEnd>>
  PROVE  ShownInv' /\ GapInv'
<1>1. Played' = Played /\ (\A k : Tracked(k)' <=> Tracked(k)) /\ (\A j, k : Follows(j, k)' <=> Follows(j, k))
  BY DEF Played, Tracked, Follows
<1>2. \A m \in 1 .. idx : entries'[m] = entries[m]
  BY DEF TypeInv, EntriesInv
<1>3. ShownInv'
  BY <1>1, <1>2 DEF ShownInv
<1>4. GapInv'
  BY <1>1 DEF GapInv, LaterGapsReported
<1> QED
  BY <1>3, <1>4

\* The polls of waitForNextWithTimeout and waitForNext.
LEMMA PollsKeep ==
  ASSUME PlayInv, QuickPoll \/ WaitPoll
  PROVE  PlayInv'
<1> USE DEF recVars, reqVars, srcVars, playVars
<1>1. TypeInv /\ clock > 0 /\ RowsInv /\ BeforeInv /\ EntriesInv /\ WaitInv /\ ShownInv /\ GapInv
  BY DEF PlayInv
<1>2. /\ UNCHANGED <<clock, rows, files, crashes, seeks, resolved, to, idx, usedBuf, lastSegEnd, lastGap>>
      /\ UNCHANGED <<shown, since, after>> /\ errors' \in Nat
      /\ pc \in {"next", "wait"} /\ pc' \in {"polled", "wait"}
      /\ pc' = "wait" => pc = "wait"
  BY <1>1, SMTT(30) DEF QuickPoll, WaitPoll, Fails, TypeInv
<1>3. /\ entries # <<>> /\ Len(entries) \in DOMAIN entries
      /\ AfterTime = rows[entries[Len(entries)]].end /\ AfterTime \in Nat
      /\ resolved > 0 /\ resolved <= AfterTime
  BY <1>1, <1>2, LastEntry
<1>4. CASE UNCHANGED <<entries, seen>>
  <2>1. TypeInv' /\ BeforeInv' /\ WaitInv'
    BY <1>1, <1>2, <1>3, <1>4 DEF TypeInv, Places, BeforeInv, WaitInv
  <2> QED
    BY <1>1, <1>2, <1>4, <2>1, SameRows, SameEntries, SameShown DEF PlayInv
<1>5. CASE \E lo \in Nat : resolved <= lo /\ lo <= AfterTime /\ Merge(QueryByChannel(lo, 0))
  <2>1. PICK lo \in Nat : /\ resolved <= lo /\ lo <= AfterTime /\ Merge(QueryByChannel(lo, 0))
    BY <1>5
  <2>2. /\ entries' \in Seq(Nat) /\ seen' \subseteq DOMAIN rows
        /\ entries' # <<>>
        /\ \A k \in DOMAIN entries : entries'[k] = entries[k]
        /\ rows[entries[Len(entries)]].end <= rows[entries'[Len(entries')]].end
        /\ EntriesInv'
    BY <1>1, <1>2, <1>3, <2>1, MergeKeeps
  <2>3. TypeInv' /\ BeforeInv'
    BY <1>1, <1>2, <1>3, <2>2 DEF TypeInv, Places, BeforeInv
  <2>4. WaitInv'
    <3>1. pc = "wait" => resolved <= after /\ after <= AfterTime /\ after \in Nat
      BY <1>1, <1>3 DEF WaitInv, TypeInv
    <3>2. rows[entries'[Len(entries')]].end \in Nat
      <4>1. Len(entries') \in DOMAIN entries'
        BY <2>2
      <4>2. entries'[Len(entries')] \in DOMAIN rows
        BY <4>1, <2>2 DEF EntriesInv
      <4> QED
        BY <4>2, <1>1, RowFields
    <3> QED
      BY <1>2, <1>3, <2>2, <3>1, <3>2 DEF WaitInv
  <2>5. ShownInv' /\ GapInv'
    BY <1>1, <1>2, <2>2, AppendedKeepsShown
  <2> QED
    BY <1>1, <1>2, <2>2, <2>3, <2>4, <2>5, SameRows DEF PlayInv
<1>6. CASE QuickPoll
  <2>1. UNCHANGED <<entries, seen>> \/ (pc = "next" /\ Merge(QueryByChannel(AfterTime, 0)))
    BY <1>6 DEF QuickPoll
  <2>2. AfterTime <= AfterTime
    BY <1>3
  <2> QED
    BY <2>1, <2>2, <1>3, <1>4, <1>5
<1>7. CASE WaitPoll
  <2>1. Merge(QueryByChannel(after, 0)) /\ pc = "wait"
    BY <1>7 DEF WaitPoll
  <2>2. after \in Nat /\ resolved <= after /\ after <= AfterTime
    BY <2>1, <1>1, <1>3 DEF WaitInv, TypeInv
  <2> QED
    BY <2>1, <2>2, <1>5
<1> QED
  BY <1>6, <1>7

\* The packet buffer is no segment, and KeepPolling only notes its after time.
LEMMA BufferKeeps ==
  ASSUME PlayInv, TryLive \/ KeepPolling
  PROVE  PlayInv'
<1> USE DEF recVars, reqVars, srcVars, playVars
<1>1. TypeInv /\ clock > 0 /\ RowsInv /\ BeforeInv /\ EntriesInv /\ WaitInv /\ ShownInv /\ GapInv
  BY DEF PlayInv
<1>2. /\ UNCHANGED <<clock, errors, rows, files, crashes, seeks, resolved, to>>
      /\ UNCHANGED <<entries, idx, seen, lastSegEnd, lastGap>> /\ pc = "polled"
  BY DEF TryLive, KeepPolling
<1>3. /\ entries # <<>> /\ Len(entries) \in DOMAIN entries
      /\ AfterTime = rows[entries[Len(entries)]].end /\ AfterTime \in Nat
      /\ resolved > 0 /\ resolved <= AfterTime
  BY <1>1, <1>2, LastEntry
<1>4. EntriesInv' /\ RowsInv' /\ clock' > 0
  BY <1>1, <1>2, SameEntries, SameRows
<1>5. CASE KeepPolling
  <2>1. UNCHANGED <<usedBuf, shown, since>> /\ pc' = "wait" /\ after' = AfterTime
    BY <1>5 DEF KeepPolling
  <2>2. TypeInv' /\ BeforeInv' /\ WaitInv'
    BY <1>1, <1>2, <1>3, <2>1 DEF TypeInv, Places, BeforeInv, WaitInv
  <2> QED
    BY <1>1, <1>2, <1>4, <2>1, <2>2, SameShown DEF PlayInv
<1>6. CASE TryLive
  <2> DEFINE item == [id |-> Live, gap |-> 0]
  <2>1. /\ shown' = Append(shown, item) /\ usedBuf' = TRUE /\ since' = AfterTime /\ UNCHANGED after
        /\ pc' = "playing"
    BY <1>6 DEF TryLive
  <2>2. item \in [id : Nat, gap : Nat] /\ item.id = Live
    BY DEF Live
  <2> HIDE DEF item
  <2>3. /\ shown' \in Seq([id : Nat, gap : Nat])
        /\ \A k \in Played : shown'[k] = shown[k]
        /\ Played' = Played
    BY <1>1, <2>1, <2>2, ShownAppended
  <2>4. TypeInv' /\ BeforeInv' /\ WaitInv'
    BY <1>1, <1>2, <1>3, <2>1, <2>3 DEF TypeInv, Places, BeforeInv, WaitInv
  <2>5. ShownInv'
    BY <1>1, <1>2, <2>3, SMTT(30) DEF ShownInv
  <2>6. GapInv'
    <3>1. (\A k : Tracked(k)' <=> Tracked(k)) /\ (\A j, k : Follows(j, k)' <=> Follows(j, k))
      BY <1>2, <2>3 DEF Tracked, Follows
    <3> QED
      <4>1. \A k \in Played' : (\A m \in Played' : m <= k) /\ Tracked(k)' =>
              lastSegEnd' = rows'[shown'[k].id].end
        BY <1>1, <1>2, <2>3, <3>1, SMTT(30) DEF GapInv
      <4>2. LaterGapsReported'
        <5> SUFFICES ASSUME NEW j \in Played, NEW k \in Played, Follows(j, k), seeks > 0 \/ \E m \in Played : m < j
                     PROVE  (shown[k].gap > 0) <=>
                              (rows[shown[k].id].start >= rows[shown[j].id].end + GapThreshold)
          BY <1>2, <2>3, <3>1, SMTT(30) DEF LaterGapsReported
        <5> QED
          BY <1>1 DEF GapInv, LaterGapsReported
      <4> QED
        BY <4>1, <4>2 DEF GapInv
  <2> QED
    BY <1>4, <2>4, <2>5, <2>6 DEF PlayInv
<1> QED
  BY <1>5, <1>6

-----------------------------------------------------------------------------
(* Seeking. *)

\* OpenAt starts over with a list of all rows wanted from the new start on.
LEMMA OpenAtKeeps ==
  ASSUME PlayInv, NEW ts \in Starts, OpenAt(ts)
  PROVE  PlayInv'
<1> USE DEF recVars, reqVars, srcVars, playVars
<1> DEFINE M == Matching(ts, 0)
           found == QueryByChannel(ts, 0)
           k == FirstOpenable(found)
           item == [id |-> found[k], gap |-> 0]
<1>1. TypeInv /\ clock > 0 /\ RowsInv /\ EntriesInv
  BY DEF PlayInv
<1>2. /\ UNCHANGED <<clock, errors, rows, files, crashes, pc, to, usedBuf, since, after>>
      /\ pc = "playing" /\ ToSet(found) \cap files # {}
      /\ entries' = found /\ idx' = k /\ seen' = seen \cup ToSet(found)
      /\ lastSegEnd' = SegEnd(found[k]) /\ shown' = <<item>>
      /\ lastGap' = 0 /\ resolved' = ts /\ seeks' = seeks + 1
  BY DEF OpenAt, Restart
<1>3. ts \in Nat /\ ts > 0
  BY PlaybackAssumption
<1>4. /\ found \in Seq(Nat) /\ Increasing(found) /\ ToSet(found) = M
      /\ \A j \in DOMAIN found : found[j] \in M
      /\ \A i \in M : \E j \in DOMAIN found : found[j] = i
      /\ M \subseteq DOMAIN rows
  BY <1>1, QueryResult
<1>5. \A i \in DOMAIN rows : i \in M <=> Playable(i) /\ rows[i].end >= ts
  BY <1>3 DEF Matching
<1> HIDE DEF M, found, k
<1>6. k \in DOMAIN found /\ found[k] \in files /\ \A j \in 1 .. k - 1 : found[j] \notin files
  <2> DEFINE There == {j \in DOMAIN found : found[j] \in files}
  <2>1. There \in SUBSET Nat /\ There # {} /\ DOMAIN found = 1 .. Len(found)
    BY <1>2, <1>4, SMTT(20) DEF ToSet
  <2>2. PICK j \in There : \A m \in There : j <= m
    <3> HIDE DEF There
    <3> QED
      BY <2>1, LeastElement
  <2>3. \A m \in 1 .. j - 1 : found[m] \notin files
    <3> SUFFICES ASSUME NEW m \in 1 .. j - 1, found[m] \in files
                 PROVE  FALSE
      OBVIOUS
    <3>1. j \in Nat /\ j \in 1 .. Len(found) /\ Len(found) \in Nat
      BY <2>1, <2>2, <1>4
    <3>2. m \in 1 .. Len(found) /\ m < j
      BY <3>1
    <3>3. m \in There
      BY <3>2, <2>1
    <3> HIDE DEF There
    <3> QED
      BY <3>1, <3>2, <3>3, <2>2
  <2>4. \E n \in DOMAIN found : found[n] \in files /\ \A m \in 1 .. n - 1 : found[m] \notin files
    BY <2>2, <2>3
  <2> QED
    BY <2>4 DEF k, FirstOpenable
<1>7. /\ DOMAIN found = 1 .. Len(found) /\ Len(found) \in Nat /\ k \in Nat /\ k <= Len(found)
      /\ found[k] \in Nat /\ found[k] \in DOMAIN rows /\ found[k] \in M
  BY <1>4, <1>6
<1>8. rows[found[k]].end \in Nat /\ rows[found[k]].end > 0 /\ found[k] # Live
  <2>1. rows[found[k]].end >= ts /\ rows[found[k]].end \in Nat
    BY <1>1, <1>5, <1>7, RowFields
  <2>2. DOMAIN rows = 1 .. Len(rows)
    BY <1>1 DEF TypeInv
  <2> QED
    BY <1>3, <1>7, <2>1, <2>2 DEF Live
<1>9. lastSegEnd' = rows[found[k]].end
  BY <1>2, <1>8 DEF SegEnd, EndTime
<1>10. item \in [id : Nat, gap : Nat] /\ item.id = found[k]
  BY <1>7
<1> HIDE DEF item
<1>11. shown' \in Seq([id : Nat, gap : Nat]) /\ DOMAIN shown' = {1} /\ shown'[1] = item
  BY <1>2, <1>10
<1>12. Played' = {1}
  BY <1>8, <1>10, <1>11 DEF Played
<1>13. TypeInv'
  BY <1>1, <1>2, <1>3, <1>4, <1>7, <1>8, <1>9, <1>11, SMTT(30) DEF TypeInv
<1>14. BeforeInv' /\ WaitInv'
  <2>1. entries' # <<>>
    BY <1>2, <1>7, <1>6
  <2> QED
    BY <1>2, <1>3, <2>1 DEF BeforeInv, WaitInv
<1>15. EntriesInv'
  <2>1. \A i \in M : rows[i].end > 0 /\ rows[i].end >= ts
    BY <1>1, <1>3, <1>4, <1>5, RowFields
  <2>2. \A i \in DOMAIN rows' : Wanted(i)' => Listed(i)'
    <3>1. \A i \in DOMAIN rows' : Wanted(i)' => i \in M
      BY <1>2, <1>5 DEF Wanted, Playable
    <3> QED
      BY <1>2, <1>4, <3>1 DEF Listed
  <2>3. idx' <= Len(entries') /\ Increasing(entries)'
    BY <1>2, <1>4, <1>7 DEF Increasing
  <2>4. \A i \in seen' : rows'[i].end > 0
    BY <1>1, <1>2, <1>4, <2>1 DEF EntriesInv
  <2>5. \A j \in DOMAIN entries' : entries'[j] \in seen' /\ rows'[entries'[j]].end >= resolved'
    BY <1>2, <1>4, <2>1
  <2> QED
    BY <2>2, <2>3, <2>4, <2>5 DEF EntriesInv
<1>16. ShownInv'
  <2>1. \A m \in 1 .. k : m = k \/ rows[found[m]].status # "complete"
    <3> SUFFICES ASSUME NEW m \in 1 .. k, m # k PROVE rows[found[m]].status # "complete"
      OBVIOUS
    <3>1. m \in 1 .. k - 1 /\ m \in DOMAIN found
      BY <1>7
    <3>2. found[m] \notin files /\ found[m] \in DOMAIN rows
      BY <3>1, <1>4, <1>6
    <3> QED
      BY <3>2, <1>1 DEF RowsInv, RowInv
  <2>2. k \in 1 .. k
    BY <1>6, <1>7
  <2> QED
    BY <1>2, <1>10, <1>11, <1>12, <2>1, <2>2 DEF ShownInv
<1>17. GapInv'
  <2>1. lastSegEnd' = rows'[shown'[1].id].end
    BY <1>2, <1>9, <1>10, <1>11
  <2> QED
    BY <1>12, <2>1 DEF GapInv, LaterGapsReported, Follows
<1> QED
  BY <1>1, <1>2, <1>13, <1>14, <1>15, <1>16, <1>17, SameRows DEF PlayInv
-----------------------------------------------------------------------------
(* The invariant holds. *)

LEMMA InitPlay ==
  ASSUME Init
  PROVE  PlayInv
<1> USE DEF Init
<1>1. TypeInv
  <2>1. rows \in Seq(Row) /\ entries \in Seq(Nat) /\ shown \in Seq([id : Nat, gap : Nat])
    <3>1. <<>> \in Seq(Row) /\ <<>> \in Seq(Nat) /\ <<>> \in Seq([id : Nat, gap : Nat])
      OBVIOUS
    <3> QED
      BY <3>1
  <2>2. pc \in Places
    BY DEF Places
  <2>3. usedBuf \in BOOLEAN
    BY Zenon
  <2>4. files \subseteq DOMAIN rows /\ seen \subseteq DOMAIN rows
    OBVIOUS
  <2> QED
    BY <2>1, <2>2, <2>3, <2>4 DEF TypeInv
<1>2. RowsInv /\ BeforeInv /\ WaitInv /\ clock > 0
  BY DEF RowsInv, BeforeInv, WaitInv
<1>3. Played = {} /\ DOMAIN entries = {} /\ DOMAIN rows = {} /\ 1 .. idx = {} /\ Len(entries) = 0
  BY DEF Played
<1>4. EntriesInv
  BY <1>3 DEF EntriesInv, Increasing
<1>5. ShownInv /\ GapInv
  BY <1>3 DEF ShownInv, GapInv, LaterGapsReported
<1> QED
  BY <1>1, <1>2, <1>4, <1>5 DEF PlayInv

LEMMA NextPlay ==
  ASSUME PlayInv, [Next]_vars
  PROVE  PlayInv'
<1>1. CASE Record
  <2>1. TypeInv' /\ RowsInv' /\ Grown /\ UNCHANGED sessionVars /\ clock' > 0
    BY <1>1, RecordGrows DEF PlayInv
  <2>2. BeforeInv' /\ EntriesInv' /\ WaitInv' /\ ShownInv' /\ GapInv'
    BY <2>1, GrownKeepsSession
  <2> QED
    BY <2>1, <2>2 DEF PlayInv
<1>2. CASE \E from \in Starts, t \in Tos : Request(from, t)
  BY <1>2, ResolutionKeeps
<1>3. CASE ResolveLast \/ ResolveQuery \/ ResolveFirst
  BY <1>3, ResolutionKeeps
<1>4. CASE QueryFails \/ Finish \/ EndOfFile \/ Cancel
  BY <1>4, MovesKeep
<1>5. CASE FactoryQuery \/ OpenFirst \/ LiveFallback
  BY <1>5, FactoryQueryKeeps, OpenFirstKeeps, LiveFallbackKeeps
<1>6. CASE OpenEntry
  BY <1>6, OpenedKeeps, SkippedKeeps
<1>7. CASE QuickPoll \/ WaitPoll
  BY <1>7, PollsKeep
<1>8. CASE TryLive \/ KeepPolling
  BY <1>8, BufferKeeps
<1>9. CASE \E ts \in Starts : OpenAt(ts)
  BY <1>9, OpenAtKeeps
<1>10. CASE UNCHANGED vars
  <2>1. TypeInv /\ clock > 0 /\ RowsInv /\ BeforeInv /\ EntriesInv /\ WaitInv /\ ShownInv /\ GapInv
    BY DEF PlayInv
  <2>2. TypeInv' /\ BeforeInv' /\ WaitInv'
    BY <1>10, <2>1 DEF TypeInv, BeforeInv, WaitInv, vars, recVars, reqVars, srcVars, playVars
  <2>3. RowsInv' /\ clock' > 0 /\ EntriesInv' /\ ShownInv' /\ GapInv'
    BY <1>10, <2>1, SameRows, SameEntries, SameShown DEF vars, recVars, reqVars, srcVars, playVars
  <2> QED
    BY <2>2, <2>3 DEF PlayInv
<1> QED
  BY <1>1, <1>2, <1>3, <1>4, <1>5, <1>6, <1>7, <1>8, <1>9, <1>10 DEF Next, Resolve, Play

LEMMA AlwaysPlay == Spec => []PlayInv
<1>1. Init => PlayInv
  BY InitPlay
<1>2. PlayInv /\ [Next]_vars => PlayInv'
  BY NextPlay
<1> QED
  BY <1>1, <1>2, PTL DEF Spec

\* Whatever the recorder adds and retention removes between indexSource's polls,
\* the segments of a session are played in recording order and none twice.
THEOREM PlaysInOrder == Spec => []PlayedInOrder
<1>1. PlayInv => PlayedInOrder
  BY DEF PlayInv, ShownInv, PlayedInOrder
<1> QED
  BY <1>1, AlwaysPlay, PTL

\* indexSource passes over no footage: what ends after the start and lies before
\* the segment played last was played, unless it is not playable.
THEOREM PassesNothingOver == Spec => []NothingPassedOver
<1>1. PlayInv => NothingPassedOver
  <2> SUFFICES ASSUME PlayInv, Played # {}, NEW i \in DOMAIN rows, i < shown[LastPlayed].id,
                      rows[i].status = "complete", rows[i].end >= resolved
               PROVE  \E k \in Played : shown[k].id = i
    BY DEF NothingPassedOver
  <2>1. TypeInv /\ EntriesInv /\ ShownInv
    BY DEF PlayInv
  <2>2. LastPlayed \in Played
    <3>1. Len(shown) \in Nat /\ Played \in SUBSET (1 .. Len(shown))
      BY <2>1, SMTT(30) DEF TypeInv, Played
    <3>2. \E k \in Played : \A j \in Played : j <= k
      BY <3>1, GreatestElement
    <3> QED
      BY <3>2 DEF LastPlayed
  <2>3. PICK m \in 1 .. idx : shown[LastPlayed].id = entries[m]
    BY <2>1, <2>2 DEF ShownInv
  <2>4. /\ DOMAIN entries = 1 .. Len(entries) /\ Len(entries) \in Nat /\ idx \in Nat /\ idx <= Len(entries)
        /\ m \in DOMAIN entries /\ i \in Nat /\ \A j \in DOMAIN entries : entries[j] \in Nat
    <3>1. i \in Nat /\ entries \in Seq(Nat) /\ idx \in Nat
      BY <2>1 DEF TypeInv
    <3>2. idx <= Len(entries)
      BY <2>1 DEF EntriesInv
    <3> QED
      BY <2>3, <3>1, <3>2
  <2>5. i < entries[m]
    BY <2>3
  <2>6. Wanted(i)
    BY DEF Wanted, Playable
  <2>7. PICK j \in DOMAIN entries : entries[j] = i
    BY <2>1, <2>4, <2>5, <2>6 DEF EntriesInv, Listed
  <2>8. j < m
    BY <2>1, <2>4, <2>5, <2>7 DEF EntriesInv, Increasing
  <2>9. j \in 1 .. idx
    BY <2>3, <2>4, <2>8
  <2> QED
    BY <2>1, <2>7, <2>9 DEF ShownInv
<1> QED
  BY <1>1, AlwaysPlay, PTL

\* openEntry reports every gap of the threshold or more from the second transition
\* on (after a seek, from the first), and none that is shorter.
THEOREM ReportsGaps == Spec => []LaterGapsReported
<1>1. PlayInv => LaterGapsReported
  BY DEF PlayInv, GapInv
<1> QED
  BY <1>1, AlwaysPlay, PTL

\* tryLiveTransition asks the packet buffer for a time before which no complete
\* segment begins that the session does not know.
THEOREM BufferContinues == Spec => BufferTakesOver
<1>1. PlayInv /\ [Next]_vars =>
        (pc = "polled" /\ pc' = "playing" /\ usedBuf' # usedBuf =>
           \A i \in DOMAIN rows \ seen :
             rows[i].status = "complete" /\ rows[i].end >= resolved => rows[i].start >= since')
  <2> SUFFICES ASSUME PlayInv, [Next]_vars, pc = "polled", pc' = "playing", usedBuf' # usedBuf,
                      NEW i \in DOMAIN rows \ seen, rows[i].status = "complete", rows[i].end >= resolved
               PROVE  rows[i].start >= since'
    OBVIOUS
  <2>1. TypeInv /\ RowsInv /\ BeforeInv /\ EntriesInv /\ WaitInv
    BY DEF PlayInv
  <2>2. TryLive
    <3> USE DEF srcVars
    <3>1. ~Record
      BY DEF Record, Elapse, OpenSegment, CloseSegment, SealInterrupted, DeleteRow, RemoveFile
    <3>2. \A from, t : ~Request(from, t)
      BY DEF Request
    <3>3. ~Resolve /\ ~Cancel /\ ~(UNCHANGED vars)
      BY DEF Resolve, ResolveLast, ResolveQuery, ResolveFirst, QueryFails, Cancel, vars
    <3>4. \A ts : ~OpenAt(ts)
      BY DEF OpenAt
    <3>5. Play
      BY <3>1, <3>2, <3>3, <3>4 DEF Next
    <3>6. ~OpenEntry /\ ~FactoryQuery /\ ~OpenFirst /\ ~LiveFallback
      BY DEF OpenEntry, FactoryQuery, OpenFirst, LiveFallback
    <3>7. ~Finish /\ ~EndOfFile /\ ~QuickPoll /\ ~KeepPolling /\ ~WaitPoll
      BY DEF Finish, EndOfFile, QuickPoll, KeepPolling, WaitPoll
    <3> QED
      BY <3>5, <3>6, <3>7 DEF Play
  <2> DEFINE l == entries[Len(entries)]
  <2>3. /\ Len(entries) \in DOMAIN entries /\ l \in DOMAIN rows
        /\ since' = rows[l].end
    BY <2>1, <2>2, LastEntry DEF TryLive
  <2>4. ~(i <= l)
    <3>1. Wanted(i)
      BY DEF Wanted, Playable
    <3>2. ~Listed(i)
      BY <2>1 DEF EntriesInv, Listed
    <3> QED
      BY <2>1, <2>3, <3>1, <3>2 DEF EntriesInv
  <2>5. l < i
    BY <2>1, <2>3, <2>4 DEF TypeInv
  <2>6. rows[l].end <= rows[i].start
    BY <2>1, <2>3, <2>5 DEF RowsInv, RowInv
  <2> QED
    BY <2>1, <2>3, <2>6, RowFields
<1> QED
  BY <1>1, AlwaysPlay, PTL DEF Spec, BufferTakesOver
=============================================================================
