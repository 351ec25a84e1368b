------------------------------ MODULE Retention ------------------------------
(***************************************************************************)
(* Which segments retention deletes (pkg/recorder/retention.go) and the    *)
(* passes that apply it to one channel (enforceRetention): the visible     *)
(* rows in start order, the disk they take, and passes between which the   *)
(* channel keeps recording.  Calls of a pass may fail, and rows may be     *)
(* damaged so that their update fails each time.  Days and sizes are small *)
(* integers.                                                               *)
(***************************************************************************)
EXTENDS Integers, Sequences, FiniteSets, FiniteSetsExt

CONSTANTS
  Policies,    \* retention policies: continuous, motion, objects, maxStorage, minFree
  Tags,        \* tags in use, a subset of {"motion", "objects"}
  Sizes,       \* sizes of a segment
  Capacity,    \* size of the disk
  Batch,       \* segments one pass deletes unless the disk is critically low (10)
  MaxSegments, \* bound: segments recorded
  MaxDays,     \* bound: days
  MaxFaults,   \* bound: calls that fail for once
  MaxDamaged   \* bound: damaged rows at a time

ASSUME RetentionAssumption ==
  /\ Policies \subseteq [continuous : Nat, motion : Nat, objects : Nat, maxStorage : Nat, minFree : Nat]
  /\ Sizes \subseteq Nat /\ Capacity \in Nat
  /\ Batch \in Nat \ {0} /\ MaxSegments \in Nat /\ MaxDays \in Nat
  /\ MaxFaults \in Nat /\ MaxDamaged \in Nat

VARIABLES
  policy,      \* the channel's policy, fixed
  rows,        \* rows QueryByChannel returns: [start, size, bytes, tags, damaged]
  leftover,    \* bytes of files that have lost their row
  now,         \* days
  recorded,    \* segments recorded so far
  faults       \* calls that failed for once

vars == <<policy, rows, leftover, now, recorded, faults>>

\* The loops that add up what the entries in S weigh.
Total(weights, S) ==
  LET sum[i \in 0 .. Len(weights)] ==
        IF i = 0 THEN 0 ELSE sum[i - 1] + (IF i \in S THEN weights[i] ELSE 0)
  IN sum[Len(weights)]
\* The sizes in the rows S of es, and the bytes their files take.
TotalSize(es, S) == Total([i \in DOMAIN es |-> es[i].size], S)
TotalBytes(es, S) == Total([i \in DOMAIN es |-> es[i].bytes], S)
Free(es) == Capacity - leftover - TotalBytes(es, DOMAIN es)
\* The rows of es without those in S.
Without(es, S) ==
  LET kept[i \in 0 .. Len(es)] ==
        IF i = 0 THEN <<>> ELSE IF i \in S THEN kept[i - 1] ELSE Append(kept[i - 1], es[i])
  IN kept[Len(es)]
-----------------------------------------------------------------------------
(* EvaluateRetention. *)

\* tierCutoff: the tier that governs an entry is the most specific enabled one.
\* TierDays_Swapped confuses the two tagged tiers.
TierDays_Swapped(e, p) ==
  IF "objects" \in e.tags /\ p.motion > 0 THEN p.motion
  ELSE IF "motion" \in e.tags /\ p.objects > 0 THEN p.objects
  ELSE p.continuous
TierDays(e, p) ==
  IF "objects" \in e.tags /\ p.objects > 0 THEN p.objects
  ELSE IF "motion" \in e.tags /\ p.motion > 0 THEN p.motion
  ELSE p.continuous

\* applyTimeTiers.
Expired(es, p, t) == {i \in DOMAIN es : TierDays(es[i], p) > 0 /\ es[i].start < t - TierDays(es[i], p)}

\* The walk applyStorageCap and applyDiskFreeCap share, oldest first: an entry
\* goes, unless it is gone already, as long as those gone before it in this walk
\* do not make up for the excess.  DropOldest_Eager stops one entry late.
DropOldest_Eager(es, gone, excess) ==
  gone \cup {i \in DOMAIN es \ gone : TotalSize(es, (1 .. i - 1) \ gone) <= excess}
DropOldest(es, gone, excess) ==
  gone \cup {i \in DOMAIN es \ gone : TotalSize(es, (1 .. i - 1) \ gone) < excess}

\* applyStorageCap.
StorageCap(es, gone, p) ==
  IF p.maxStorage <= 0 THEN gone
  ELSE DropOldest(es, gone, TotalSize(es, DOMAIN es \ gone) - p.maxStorage)

\* applyDiskFreeCap: diskFree is 0 when no MinFreeGB is set or the check failed.
\* DiskFreeCap_Underestimates falls short of the deficit by one.
DiskFreeCap_Underestimates(es, gone, p, diskFree) ==
  IF p.minFree <= 0 \/ diskFree <= 0 \/ diskFree >= p.minFree THEN gone
  ELSE DropOldest(es, gone, p.minFree - diskFree - 1 - TotalSize(es, gone))
DiskFreeCap(es, gone, p, diskFree) ==
  IF p.minFree <= 0 \/ diskFree <= 0 \/ diskFree >= p.minFree THEN gone
  ELSE DropOldest(es, gone, p.minFree - diskFree - TotalSize(es, gone))

EvaluateRetention(es, p, t, diskFree) ==
  LET expired == Expired(es, p, t)
      capped  == StorageCap(es, expired, p)
  IN DiskFreeCap(es, capped, p, diskFree)
-----------------------------------------------------------------------------
(* enforceRetention: evaluate, cap the batch, delete. *)

DiskFree(es, p) == IF p.minFree > 0 THEN Free(es) ELSE 0
DiskCritical(p, diskFree) == p.minFree > 0 /\ diskFree > 0 /\ diskFree < p.minFree

\* The first Batch of the flagged entries, in start order.
BatchOf(flagged, p, diskFree) ==
  IF DiskCritical(p, diskFree) THEN flagged
  ELSE {i \in flagged : Cardinality({j \in flagged : j < i}) < Batch}

FlaggedAt(diskFree) == EvaluateRetention(rows, policy, now, diskFree)
Flagged == FlaggedAt(DiskFree(rows, policy))

Damaged == {i \in DOMAIN rows : rows[i].damaged}

Faults(n) == faults' = faults + n /\ faults' <= MaxFaults

\* The query fails, and there is no pass.
QueryFails == Faults(1) /\ UNCHANGED <<policy, rows, leftover, now, recorded>>

\* A loop that ends at the first row whose update fails.
DeleteAll_Ends(batch, kept, left) ==
  /\ batch \cap Damaged \subseteq kept
  /\ rows' = Without(rows, {i \in batch : \A j \in kept : i < j})
  /\ leftover' = leftover + TotalBytes(rows, left)
  /\ UNCHANGED <<policy, now, recorded>>
\* deleteSegment for each of the batch: a row whose update fails stays, with its file, and
\* the next one's turn comes; a file whose removal fails stays without a row.
DeleteAll(batch, kept, left) ==
  /\ batch \cap Damaged \subseteq kept
  /\ rows' = Without(rows, batch \ kept)
  /\ leftover' = leftover + TotalBytes(rows, left)
  /\ UNCHANGED <<policy, now, recorded>>

\* A failed check of the disk leaves the free space 0, which is taken for unknown.
Pass ==
  \/ QueryFails
  \/ \E diskFree \in {DiskFree(rows, policy), 0} :
       \E batch \in {BatchOf(FlaggedAt(diskFree), policy, diskFree)} :
         \E kept \in SUBSET batch : \E left \in SUBSET (batch \ kept) :
           /\ Faults(Cardinality(kept \ Damaged) + Cardinality(left)
                     + (IF diskFree = DiskFree(rows, policy) THEN 0 ELSE 1))
           /\ DeleteAll(batch, kept, left)
-----------------------------------------------------------------------------
(* What the channel does between passes. *)

Adds(row) ==
  /\ recorded < MaxSegments
  /\ Free(rows) >= row.bytes
  /\ row.damaged => Cardinality(Damaged) < MaxDamaged
  /\ rows' = Append(rows, row)
  /\ recorded' = recorded + 1
  /\ UNCHANGED <<policy, leftover, now, faults>>

\* A segment closes: its row carries its size and tags.
Record(size, tags, damaged) ==
  Adds([start |-> now, size |-> size, bytes |-> size, tags |-> tags, damaged |-> damaged])

\* A crash leaves a segment behind: its sealed row still has the marker's size 0
\* and no tags.
Interrupt(size, damaged) ==
  Adds([start |-> now, size |-> 0, bytes |-> size, tags |-> {}, damaged |-> damaged])

NextDay ==
  /\ now < MaxDays
  /\ now' = now + 1
  /\ UNCHANGED <<policy, rows, leftover, recorded, faults>>

Init ==
  /\ policy \in Policies
  /\ rows = <<>> /\ leftover = 0
  /\ now = 0
  /\ recorded = 0 /\ faults = 0

Next ==
  \/ Pass
  \/ \E size \in Sizes, damaged \in BOOLEAN :
       Interrupt(size, damaged) \/ \E tags \in SUBSET Tags : Record(size, tags, damaged)
  \/ NextDay

\* Every tick runs a pass.
Spec == Init /\ [][Next]_vars /\ WF_vars(Pass)
-----------------------------------------------------------------------------
(* Properties. *)

\* applyStorageCap and applyDiskFreeCap together reach their goals: what is kept
\* fits the cap, and the disk gets back to MinFreeGB or everything is given up.
GoalsReached ==
  LET flagged == Flagged
      kept    == DOMAIN rows \ flagged
  IN /\ policy.maxStorage > 0 => TotalSize(rows, kept) <= policy.maxStorage
     /\ DiskCritical(policy, DiskFree(rows, policy)) =>
          kept = {} \/ Free(rows) + TotalSize(rows, flagged) >= policy.minFree

\* They give up the oldest footage and no more than needed: of the segments that have
\* not expired, every one flagged for space is older than every one kept, and without
\* the newest of them the cap or the free-space threshold would still be missed.
OldestAndNoMore ==
  LET flagged  == Flagged
      kept     == DOMAIN rows \ flagged
      forSpace == flagged \ Expired(rows, policy, now)
      newest   == Max(forSpace)
  IN /\ \A i \in forSpace, j \in kept : i < j
     /\ forSpace # {} =>
          \/ policy.maxStorage > 0 /\ TotalSize(rows, kept \cup {newest}) > policy.maxStorage
          \/ /\ DiskCritical(policy, DiskFree(rows, policy))
             /\ Free(rows) + TotalSize(rows, flagged \ {newest}) < policy.minFree

\* Tags never shorten a segment's life when the tiers are ordered: an expired
\* segment would have expired without its object tag and without its motion tag.
TagsNeverShorten ==
  policy.objects >= policy.motion /\ policy.motion >= policy.continuous
    /\ policy.continuous > 0 =>
    \A i \in Expired(rows, policy, now) :
      \A fewer \in {[rows[i] EXCEPT !.tags = @ \ {"objects"}], [rows[i] EXCEPT !.tags = {}]} :
        1 \in Expired(<<fewer>>, policy, now)

\* Neither the batch limit nor entries that cannot be removed keep passes from getting
\* there: once the channel has stopped recording, the clock stands and calls no longer
\* fail by chance, all that stays flagged are damaged rows, as long as they are too few
\* to fill a batch.
PassesConverge == <>[](Cardinality(Damaged) < Batch => Flagged \subseteq Damaged)
=============================================================================
