-------------------------- MODULE SegmentLifecycle --------------------------
(***************************************************************************)
(* What the recorder promises the rest of the system about one segment:    *)
(* its row goes from absent through recording to playable or unplayable,   *)
(* is deleted only once playable, and stays deleted; its footage is there  *)
(* before its row is and goes away only after the row is deleted.          *)
(***************************************************************************)
CONSTANT Segs
VARIABLES row, footage

lifeVars == <<row, footage>>

RowStates == {"absent", "recording", "playable", "unplayable", "deleted"}

Init == row = [r \in Segs |-> "absent"] /\ footage = {}

Create(r) ==
  /\ row[r] = "absent" /\ r \notin footage
  /\ footage' = footage \cup {r}
  /\ UNCHANGED row

Begin(r) ==
  /\ row[r] = "absent" /\ r \in footage
  /\ row' = [row EXCEPT ![r] = "recording"]
  /\ UNCHANGED footage

Publish(r) ==
  /\ row[r] \in {"absent", "recording"} /\ r \in footage
  /\ \E s \in {"playable", "unplayable"} : row' = [row EXCEPT ![r] = s]
  /\ UNCHANGED footage

\* A restart makes every segment still recording playable.
Seal ==
  /\ row' = [r \in Segs |-> IF row[r] = "recording" THEN "playable" ELSE row[r]]
  /\ UNCHANGED footage

Delete(r) ==
  /\ row[r] = "playable"
  /\ row' = [row EXCEPT ![r] = "deleted"]
  /\ UNCHANGED footage

Reclaim(r) ==
  /\ row[r] = "deleted"
  /\ footage' = footage \ {r}
  /\ UNCHANGED row

Next ==
  \/ Seal
  \/ \E r \in Segs : Create(r) \/ Begin(r) \/ Publish(r) \/ Delete(r) \/ Reclaim(r)

Spec == Init /\ [][Next]_lifeVars
=============================================================================
