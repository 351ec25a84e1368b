----------------------------- MODULE MCRecorder -----------------------------
(* Instances of Recorder for TLC. *)
EXTENDS Recorder

CONSTANTS c1, e1, d1, d2

\* One explicit schedule beside the default schedule of the same camera.
OneChannelOf == [e \in {e1} |-> c1]
OneStorage == [s \in {e1, c1} |-> IF s = c1 THEN d1 ELSE d2]
=============================================================================
