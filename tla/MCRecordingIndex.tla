-------------------------- MODULE MCRecordingIndex --------------------------
(* Instances of RecordingIndex for TLC: callers and channels are model values. *)
EXTENDS RecordingIndex, TLC

CONSTANTS k1, k2, ch1, ch2

\* Callers are interchangeable, and so are channels.
Symmetry == Permutations({k1, k2}) \cup Permutations({ch1, ch2})
=============================================================================
