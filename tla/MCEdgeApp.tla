------------------------------ MODULE MCEdgeApp ------------------------------
(* An instance of EdgeApp for TLC. *)
EXTENDS EdgeApp

CONSTANTS a, b, w1, w2

RowOf(id, name) == [ch |-> [id |-> id, name |-> name, site |-> 1]]
\* One camera is configured, or the file is missing.
FilesUsed == {<<[id |-> a, name |-> 1, site |-> 2]>>}
\* Two cameras with a row between them that is passed over, and a body that is not CSV.
ImportsUsed == {<<RowOf(a, 1), [skip |-> TRUE], RowOf(b, 1)>>, <<[bad |-> TRUE]>>}
=============================================================================
