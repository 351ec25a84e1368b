--------------------------- MODULE MCStreamSession ---------------------------
(* Instances of HTTPStream (and StreamSession) for TLC. *)
EXTENDS HTTPStream

\* Skip one step back, or one forward.
OffsetsUsed == {-1, 1}
=============================================================================
