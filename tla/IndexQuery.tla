----------------------------- MODULE IndexQuery -----------------------------
(***************************************************************************)
(* What the queries of the SQLite recording index return for one channel   *)
(* (pkg/recorder/index_sqlite.go).  Times are stored as RFC3339Nano text   *)
(* and compared as text by SQL: the format drops trailing zeros of the     *)
(* fraction, so the text order differs from the time order within a        *)
(* second.  A time is a number of hundredths; 0 is the zero time.          *)
(***************************************************************************)
EXTENDS Naturals, Sequences, FiniteSets, SequencesExt

CONSTANTS
  Times,       \* start and end times in use
  Ids          \* identifiers of rows, numbers

ASSUME QueryAssumption == Times \subseteq Nat \ {0} /\ Ids \subseteq Nat /\ IsFiniteSet(Ids)

VARIABLES
  rows,        \* id -> row, status "none" if there is none
  lo, hi,      \* bounds of the last query
  result       \* ids it returned, in order

vars == <<rows, lo, hi, result>>

Sec(t)  == t \div 100
Frac(t) == t % 100

\* The order of the formatted texts.  After the seconds comes ".d", ".dd" or "Z",
\* and '.' < '0' < ... < '9' < 'Z'.
TextRank(f) ==
  IF f = 0 THEN 110
  ELSE IF f % 10 = 0 THEN 11 * (f \div 10) + 10
  ELSE 11 * (f \div 10) + (f % 10)
TextLeq(a, b) ==
  \/ Sec(a) < Sec(b)
  \/ Sec(a) = Sec(b) /\ TextRank(Frac(a)) <= TextRank(Frac(b))

\* A filter that looks for rows inside the range instead of overlapping it.
Matches_Inside(r, from, to) ==
  /\ r.status \notin {"none", "recording", "deleted", "corrupted"}
  /\ from > 0 => TextLeq(from, r.start)
  /\ to > 0 => TextLeq(r.start, to)
\* The WHERE clause of QueryByChannel.
Matches(r, from, to) ==
  /\ r.status \notin {"none", "recording", "deleted", "corrupted"}
  /\ from > 0 => TextLeq(from, r.end)
  /\ to > 0 => TextLeq(r.start, to)

\* ORDER BY start_time ASC; ties in any order.
StartOrder(i, j) ==
  \/ rows[i].start # rows[j].start /\ TextLeq(rows[i].start, rows[j].start)
  \/ rows[i].start = rows[j].start /\ i < j

Sorted(S) ==
  CHOOSE s \in [1 .. Cardinality(S) -> S] :
    ToSet(s) = S /\ \A j, k \in DOMAIN s : j < k => StartOrder(s[j], s[k])

QueryByChannel(from, to) == Sorted({i \in Ids : Matches(rows[i], from, to)})
-----------------------------------------------------------------------------
Init ==
  /\ rows = [i \in Ids |-> [start |-> 0, end |-> 0, status |-> "none"]]
  /\ lo = 0 /\ hi = 0 /\ result = <<>>

\* A segment starts: the marker row has no end.
InsertMarker(i, s) ==
  /\ rows[i].status = "none"
  /\ rows' = [rows EXCEPT ![i] = [start |-> s, end |-> 0, status |-> "recording"]]
  /\ UNCHANGED <<lo, hi, result>>

\* INSERT OR REPLACE of the final row when the segment closes.
InsertFinal(i, e, valid) ==
  /\ rows[i].status = "recording"
  /\ e > rows[i].start
  /\ rows' = [rows EXCEPT ![i].end = e, ![i].status = valid]
  /\ UNCHANGED <<lo, hi, result>>

\* SealInterrupted changes nothing but the status.
SealInterrupted ==
  /\ rows' = [i \in Ids |-> IF rows[i].status = "recording"
                            THEN [rows[i] EXCEPT !.status = "interrupted"] ELSE rows[i]]
  /\ UNCHANGED <<lo, hi, result>>

Delete(i) ==
  /\ rows[i].status \notin {"none", "recording"}
  /\ rows' = [rows EXCEPT ![i].status = "deleted"]
  /\ UNCHANGED <<lo, hi, result>>

Query(from, to) ==
  /\ lo' = from /\ hi' = to
  /\ result' = QueryByChannel(from, to)
  /\ UNCHANGED rows

Next ==
  \/ \E i \in Ids, s \in Times : InsertMarker(i, s)
  \/ \E i \in Ids, e \in Times, valid \in {"complete", "corrupted"} : InsertFinal(i, e, valid)
  \/ SealInterrupted
  \/ \E i \in Ids : Delete(i)
  \/ \E from, to \in Times \cup {0} : Query(from, to)

Spec == Init /\ [][Next]_vars
-----------------------------------------------------------------------------
(* Properties. *)

Playable(i) == rows[i].status \in {"complete", "interrupted"}

\* A query is right to the second: it returns every completed segment that
\* overlaps the range by more than the fraction of a second, and none that misses
\* it by more than that; each once, and those that start in different seconds in the
\* order they started.
QueryRightToTheSecond ==
  [][Query(lo', hi') =>
       /\ \A i \in Ids :
            /\ /\ rows[i].status = "complete"
               /\ lo' > 0 => Sec(rows[i].end) > Sec(lo')
               /\ hi' > 0 => Sec(rows[i].start) < Sec(hi')
               => i \in ToSet(result')
            /\ i \in ToSet(result') =>
                 /\ Playable(i)
                 /\ lo' > 0 => Sec(rows[i].end) >= Sec(lo')
                 /\ hi' > 0 => Sec(rows[i].start) <= Sec(hi')
       /\ \A j, k \in DOMAIN result' : j < k =>
            /\ result'[j] # result'[k]
            /\ Sec(rows[result'[j]].start) <= Sec(rows[result'[k]].start)]_vars
=============================================================================
