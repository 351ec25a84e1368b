------------------------------ MODULE Playback ------------------------------
(***************************************************************************)
(* Recorded playback of one camera (pkg/edgeview/stream.go): how a request *)
(* is resolved to a start and a mode, how the demuxer factory opens the    *)
(* first segment, and how indexSource chains the segments that follow and  *)
(* goes over to the live packet buffer.  Each index query and each file    *)
(* open is a step of its own, so that the recorder and the retention of    *)
(* the same camera act in between.                                         *)
(***************************************************************************)
EXTENDS Naturals, Sequences, FiniteSets, SequencesExt

CONSTANTS
  GapThreshold, \* gapThreshold, in clock units
  Starts,       \* starts of requests and seeks
  Tos,          \* end bounds of requests; 0 is the zero time (follow mode)
  MaxClock,     \* bound: the clock stops here
  MaxSegs,      \* bound: segments recorded
  MaxLost,      \* bound: segments corrupted or deleted
  MaxEvents     \* bound: crashes, failed calls and seeks within a session, together

ASSUME PlaybackAssumption ==
  /\ GapThreshold \in Nat \ {0}
  /\ Starts \subseteq Nat \ {0} /\ Tos \subseteq Nat
  /\ MaxClock \in Nat /\ MaxSegs \in Nat /\ MaxLost \in Nat /\ MaxEvents \in Nat

VARIABLES
  clock, crashes, errors, seeks,
  rows,        \* index rows of the camera in start order: [start, end, status]
  files,       \* rows whose path is on disk
  pc,          \* where the playback session is
  resolved, to, \* the request; its start as ResolvePlaybackStart resolved it
  entries, idx, seen, usedBuf,    \* indexSource
  lastSegEnd, lastGap,
  after,       \* waitForNext's afterTime
  shown,       \* what the session has played so far
  since        \* start asked of the packet buffer

recVars  == <<rows, files, crashes, seeks>>
reqVars  == <<resolved, to>>
srcVars  == <<entries, idx, seen, usedBuf, lastSegEnd, lastGap>>
playVars == <<shown, since, after>>
vars == <<clock, errors, recVars, pc, reqVars, srcVars, playVars>>

Ids  == 1 .. MaxSegs
Live == 0      \* in shown: the packet buffer instead of a segment

Init ==
  /\ clock = 1 /\ crashes = 0 /\ errors = 0 /\ seeks = 0
  /\ rows = <<>> /\ files = {}
  /\ pc = "idle" /\ to = 0 /\ resolved = 0
  /\ entries = <<>> /\ idx = 0 /\ seen = {} /\ usedBuf = FALSE
  /\ lastSegEnd = 0 /\ lastGap = 0
  /\ shown = <<>> /\ since = 0 /\ after = 0

\* An index query or a file open fails, within the bound.
Bounded == crashes + errors + seeks < MaxEvents
Fails == Bounded /\ errors' = errors + 1
-----------------------------------------------------------------------------
(* The recorder and its retention (module Recorder), seen from one camera with *)
(* one recording at a time.  A crash ends every session, so it comes before.   *)

Elapse ==
  /\ clock < MaxClock
  /\ clock' = clock + 1
  /\ UNCHANGED <<errors, recVars, pc, reqVars, srcVars, playVars>>

\* Another segment may get lost, within the bound.
Spared == Cardinality({i \in DOMAIN rows : rows[i].status \in {"corrupted", "deleted"}}) < MaxLost

OpenSegment ==
  /\ Len(rows) < MaxSegs
  /\ \A i \in DOMAIN rows : rows[i].status # "recording" /\ rows[i].start < clock
  /\ rows' = Append(rows, [start |-> clock, end |-> 0, status |-> "recording"])
  /\ files' = files \cup {Len(rows) + 1}
  /\ UNCHANGED <<clock, errors, crashes, seeks, pc, reqVars, srcVars, playVars>>

CloseSegment ==
  /\ \E i \in DOMAIN rows : \E valid \in {"complete", "corrupted"} :
       /\ rows[i].status = "recording"
       /\ clock > rows[i].start
       /\ valid = "corrupted" => Spared
       /\ rows' = [rows EXCEPT ![i].status = valid, ![i].end = clock]
  /\ UNCHANGED <<clock, errors, files, crashes, seeks, pc, reqVars, srcVars, playVars>>

\* A restart seals the open row, whose end stays zero and whose path is stale
\* when onClose had already renamed the file.
SealInterrupted ==
  /\ pc = "idle"
  /\ Bounded
  /\ crashes' = crashes + 1
  /\ \E i \in DOMAIN rows :
       /\ rows[i].status = "recording"
       /\ rows' = [rows EXCEPT ![i].status = "interrupted"]
       /\ files' \in {files, files \ {i}}
  /\ UNCHANGED <<clock, errors, seeks, pc, reqVars, srcVars, playVars>>

Playable(i) == rows[i].status \in {"complete", "interrupted"}

DeleteRow(i) ==
  /\ i \in DOMAIN rows /\ Playable(i) /\ Spared
  /\ rows' = [rows EXCEPT ![i].status = "deleted"]
  /\ UNCHANGED <<clock, errors, files, crashes, seeks, pc, reqVars, srcVars, playVars>>

RemoveFile(i) ==
  /\ i \in files /\ rows[i].status = "deleted"
  /\ files' = files \ {i}
  /\ UNCHANGED <<clock, errors, rows, crashes, seeks, pc, reqVars, srcVars, playVars>>
-----------------------------------------------------------------------------
(* The index queries. *)

\* The rows in S in start order.
Increasing(s) == \A j, k \in DOMAIN s : j < k => s[j] < s[k]
Sorted(S) == CHOOSE s \in [1 .. Cardinality(S) -> S] : ToSet(s) = S /\ Increasing(s)

\* The rows QueryByChannel selects: a zero bound is no bound; a zero end_time is
\* before any bound.
Matching(lo, hi) ==
  {i \in DOMAIN rows : /\ Playable(i)
                       /\ lo > 0 => rows[i].end >= lo
                       /\ hi > 0 => rows[i].start <= hi}
QueryByChannel(lo, hi) == Sorted(Matching(lo, hi))
Available == {i \in DOMAIN rows : Playable(i)}
LastAvailable == CHOOSE i \in Available : \A j \in Available : j <= i
FirstAvailable == CHOOSE i \in Available : \A j \in Available : i <= j
-----------------------------------------------------------------------------
(* ResolvePlaybackStart. *)

\* A request goes through ResolvePlaybackStart (WebSocket) or straight to the
\* demuxer factory (HTTP).
Request(from, t) ==
  /\ pc = "idle"
  /\ resolved' = from /\ to' = t
  /\ pc' \in {"last", "factory"}
  /\ UNCHANGED <<clock, errors, recVars, srcVars, playVars>>

\* Beyond the latest recording the request is for live.  With no recording at
\* all (or a failed query) it is so only if it lies in the future.
ResolveLast ==
  /\ pc = "last"
  /\ \/ /\ Available # {}
        /\ pc' = IF resolved > rows[LastAvailable].end THEN "live" ELSE "query"
        /\ UNCHANGED errors
     \/ /\ IF Available = {} THEN UNCHANGED errors ELSE Fails
        /\ pc' = IF resolved > clock THEN "live" ELSE "failed"
  /\ UNCHANGED <<clock, recVars, reqVars, srcVars, playVars>>

\* In a gap the start snaps forward to the next segment.
ResolveQuery ==
  /\ pc = "query"
  /\ LET found == QueryByChannel(resolved, to) IN
       \/ /\ found # <<>>
          /\ resolved' = IF resolved < rows[found[1]].start THEN rows[found[1]].start ELSE resolved
          /\ pc' = "factory"
       \/ /\ found = <<>>
          /\ pc' = "first" /\ UNCHANGED resolved
  /\ UNCHANGED <<clock, errors, recVars, to, srcVars, playVars>>

\* With nothing from there on, playback starts with the first recording.
ResolveFirst ==
  /\ pc = "first"
  /\ \/ /\ Available # {}
        /\ resolved' = rows[FirstAvailable].start
        /\ pc' = "factory"
     \/ /\ Available = {}
        /\ pc' = "failed" /\ UNCHANGED resolved
  /\ UNCHANGED <<clock, errors, recVars, to, srcVars, playVars>>

\* An error of these queries, or of an open for another reason than a missing
\* file, ends the request.
QueryFails ==
  /\ pc \in {"query", "first", "factory", "open", "next", "polled", "wait"}
  /\ pc \notin {"query", "first", "factory"} => idx < Len(entries)
  /\ Fails
  /\ pc' = "failed"
  /\ UNCHANGED <<clock, recVars, reqVars, srcVars, playVars>>
-----------------------------------------------------------------------------
(* RecordedDemuxerFactory. *)

\* List the segments and note them as seen.
FactoryQuery ==
  /\ pc = "factory"
  /\ entries' = QueryByChannel(resolved, to)
  /\ seen' = ToSet(entries')
  /\ idx' = 0
  /\ pc' = "open"
  /\ UNCHANGED <<clock, errors, recVars, reqVars, usedBuf, lastSegEnd, lastGap, playVars>>

\* openFirstSegment that does not get past a file that is gone.
OpenFirst_Retries ==
  /\ pc = "open"
  /\ idx < Len(entries)
  /\ entries[idx + 1] \in files
  /\ idx' = idx + 1
  /\ shown' = <<[id |-> entries[idx + 1], gap |-> 0]>>
  /\ pc' = "playing"
  /\ UNCHANGED <<clock, errors, recVars, reqVars, entries, seen, usedBuf, lastSegEnd, lastGap, since, after>>
\* openFirstSegment: the first entry whose file is still there.
OpenFirst ==
  /\ pc = "open"
  /\ idx < Len(entries)
  /\ idx' = idx + 1
  /\ IF entries[idx + 1] \in files
     THEN /\ shown' = <<[id |-> entries[idx + 1], gap |-> 0]>>
          /\ pc' = "playing"
     ELSE UNCHANGED <<shown, pc>>
  /\ UNCHANGED <<clock, errors, recVars, reqVars, entries, seen, usedBuf, lastSegEnd, lastGap, since, after>>

\* liveFallback when nothing could be opened: the packet buffer, in follow mode
\* and if the camera has one.  No indexSource: when the buffer ends, so does it.
LiveFallback ==
  /\ pc = "open"
  /\ idx = Len(entries)
  /\ \/ /\ to = 0
        /\ shown' = <<[id |-> Live, gap |-> 0]>>
        /\ since' = resolved /\ UNCHANGED after
        /\ pc' = "done"
     \/ /\ pc' = "failed" /\ UNCHANGED playVars
  /\ UNCHANGED <<clock, errors, recVars, reqVars, srcVars>>
-----------------------------------------------------------------------------
(* indexSource.Next, called by the chaining demuxer at the end of a segment. *)

EndTime(i) == rows[i].end
AfterTime == IF entries = <<>> THEN 0 ELSE EndTime(Last(entries))

\* The current demuxer is exhausted.
Finish ==
  /\ pc = "playing"
  /\ pc' = "next"
  /\ UNCHANGED <<clock, errors, recVars, reqVars, srcVars, playVars>>

\* openEntry's gap tracking.  GapOf_Late takes the threshold as exclusive.
SegEnd(i) == IF EndTime(i) > 0 THEN EndTime(i) ELSE lastSegEnd
GapOf_Late(i) ==
  IF lastSegEnd > 0 /\ rows[i].start > lastSegEnd + GapThreshold
  THEN rows[i].start - lastSegEnd ELSE 0
GapOf(i) ==
  IF lastSegEnd > 0 /\ rows[i].start >= lastSegEnd + GapThreshold
  THEN rows[i].start - lastSegEnd ELSE 0

\* Next, waitForNextWithTimeout and waitForNext all open the next known entry,
\* skipping those whose file is gone.
OpenEntry ==
  /\ pc \in {"next", "polled", "wait"}
  /\ idx < Len(entries)
  /\ LET i == entries[idx + 1] IN
       \/ /\ i \in files
          /\ lastGap' = GapOf(i)
          /\ lastSegEnd' = SegEnd(i)
          /\ shown' = Append(shown, [id |-> i, gap |-> GapOf(i)])
          /\ after' = 0
          /\ pc' = "playing"
       \/ /\ i \notin files
          /\ UNCHANGED <<lastGap, lastSegEnd, shown, after, pc>>
  /\ idx' = idx + 1
  /\ UNCHANGED <<clock, errors, recVars, reqVars, entries, seen, usedBuf, since>>

EndOfFile ==
  /\ pc = "next"
  /\ idx = Len(entries)
  /\ to > 0
  /\ pc' = "done"
  /\ UNCHANGED <<clock, errors, recVars, reqVars, srcVars, playVars>>

\* New rows are appended to the known ones.  Merge_All appends the known again.
Merge_All(found) == entries' = entries \o found /\ seen' = seen \cup ToSet(found)
Merge(found) ==
  /\ entries' = entries \o Sorted(ToSet(found) \ seen)
  /\ seen' = seen \cup ToSet(found)

\* waitForNextWithTimeout: one poll; a failed query counts as nothing new.
QuickPoll ==
  /\ pc = "next"
  /\ idx = Len(entries)
  /\ to = 0
  /\ \/ Merge(QueryByChannel(AfterTime, 0)) /\ UNCHANGED errors
     \/ Fails /\ UNCHANGED <<entries, seen>>
  /\ pc' = "polled"
  /\ UNCHANGED <<clock, recVars, reqVars, idx, usedBuf, lastSegEnd, lastGap, playVars>>

\* A transition that asks the buffer for what is yet to come.
TryLive_Now ==
  /\ pc = "polled"
  /\ idx = Len(entries)
  /\ ~usedBuf
  /\ usedBuf' = TRUE
  /\ since' = clock
  /\ shown' = Append(shown, [id |-> Live, gap |-> 0])
  /\ pc' = "playing"
  /\ UNCHANGED <<clock, errors, recVars, reqVars, entries, idx, seen, lastSegEnd, lastGap, after>>
\* tryLiveTransition: the packet buffer from the end of the last known segment,
\* once, and if the camera has a buffer.
TryLive ==
  /\ pc = "polled"
  /\ idx = Len(entries)
  /\ ~usedBuf
  /\ usedBuf' = TRUE
  /\ since' = AfterTime
  /\ shown' = Append(shown, [id |-> Live, gap |-> 0])
  /\ pc' = "playing"
  /\ UNCHANGED <<clock, errors, recVars, reqVars, entries, idx, seen, lastSegEnd, lastGap, after>>

\* No buffer, or used before: go on polling the index.
KeepPolling ==
  /\ pc = "polled"
  /\ idx = Len(entries)
  /\ pc' = "wait"
  /\ after' = AfterTime
  /\ UNCHANGED <<clock, errors, recVars, reqVars, srcVars, shown, since>>

\* One round of waitForNext that only looks for rows at its after time.
WaitPoll_Point ==
  /\ pc = "wait"
  /\ idx = Len(entries)
  /\ Merge(QueryByChannel(after, after))
  /\ UNCHANGED <<clock, errors, recVars, pc, reqVars, idx, usedBuf, lastSegEnd, lastGap, playVars>>
\* One round of waitForNext, which keeps its after time between the rounds.
\* After a failed query it polls again.
WaitPoll ==
  /\ pc = "wait"
  /\ idx = Len(entries)
  /\ Merge(QueryByChannel(after, 0))
  /\ UNCHANGED <<clock, errors, recVars, pc, reqVars, idx, usedBuf, lastSegEnd, lastGap, playVars>>

\* The first of the entries whose file is on disk.
FirstOpenable(es) == CHOOSE k \in DOMAIN es : es[k] \in files /\ \A j \in 1 .. k - 1 : es[j] \notin files

\* OpenAt's new cursor: after the k-th of the entries found, all of them seen.
\* Restart_AtEnd starts after the last.
Restart_AtEnd(found, k) == entries' = found /\ idx' = Len(found) /\ seen' = seen \cup ToSet(found)
Restart(found, k) == entries' = found /\ idx' = k /\ seen' = seen \cup ToSet(found)

\* OpenAt, called by the chaining demuxer to seek: list the segments from ts on,
\* open the first that is there, and go on after it.  What was seen stays seen,
\* and a buffer that was used stays used.  With nothing to open, nothing changes.
OpenAt(ts) ==
  LET found == QueryByChannel(ts, 0) IN
  /\ pc = "playing"
  /\ Bounded
  /\ ToSet(found) \cap files # {}
  /\ LET k == FirstOpenable(found) IN
       /\ Restart(found, k)
       /\ lastSegEnd' = SegEnd(found[k])
       /\ shown' = <<[id |-> found[k], gap |-> 0]>>
  /\ lastGap' = 0
  /\ resolved' = ts
  /\ seeks' = seeks + 1
  /\ UNCHANGED <<clock, errors, rows, files, crashes, pc, to, usedBuf, since, after>>

\* The client leaves; waitForNext returns the context's error.
Cancel ==
  /\ pc \in {"playing", "wait"}
  /\ pc' = "done"
  /\ UNCHANGED <<clock, errors, recVars, reqVars, srcVars, playVars>>
-----------------------------------------------------------------------------
Resolve == ResolveLast \/ ResolveQuery \/ ResolveFirst \/ QueryFails
Play == FactoryQuery \/ OpenFirst \/ LiveFallback \/ Finish \/ OpenEntry \/ EndOfFile
        \/ QuickPoll \/ TryLive \/ KeepPolling \/ WaitPoll

Record == Elapse \/ OpenSegment \/ CloseSegment \/ SealInterrupted
          \/ \E i \in Ids : DeleteRow(i) \/ RemoveFile(i)

\* The recorder goes on until the session is over.
Next ==
  \/ pc \notin {"live", "done", "failed"} /\ Record
  \/ \E from \in Starts, t \in Tos : (t = 0 \/ t >= from) /\ Request(from, t)
  \/ Resolve \/ Play \/ Cancel
  \/ \E ts \in Starts : OpenAt(ts)

\* The session's goroutine runs, and segments it plays come to an end.
Spec == Init /\ [][Next]_vars /\ WF_vars(Resolve) /\ WF_vars(Play)
-----------------------------------------------------------------------------
(* Properties. *)

\* Where in what was shown the segments are; the last of them; and whether k is
\* the one that comes after j.
Played == {k \in DOMAIN shown : shown[k].id # Live}
LastPlayed == CHOOSE k \in Played : \A j \in Played : j <= k
Follows(j, k) == j < k /\ \A m \in Played : m <= j \/ k <= m

\* Segments are played in the order they were recorded and none twice, whatever
\* the recorder adds and retention removes between the polls, and whether or
\* not the packet buffer was played in between.
PlayedInOrder ==
  \A j, k \in Played : j < k => shown[j].id < shown[k].id

\* No footage is passed over: of the segments that end after the requested start,
\* every one before the last played was played, or is unplayable or removed.
\* (An interrupted segment has no end, and no query with a start finds it.)
NothingPassedOver ==
  Played # {} =>
    \A i \in DOMAIN rows :
      i < shown[LastPlayed].id /\ rows[i].status = "complete" /\ rows[i].end >= resolved =>
        \E k \in Played : shown[k].id = i

\* From the second transition on (the first after a seek), a break of GapThreshold
\* or more between two segments played one after the other is reported to the
\* chaining demuxer, and nothing shorter is, also where retention removed the
\* segments in between.
LaterGapsReported ==
  \A j, k \in Played :
    Follows(j, k) /\ (seeks > 0 \/ \E m \in Played : m < j) =>
      ((shown[k].gap > 0) <=> (rows[shown[k].id].start >= rows[shown[j].id].end + GapThreshold))

\* Follow mode catches up: while the session polls the index, a segment that is
\* completed after the last one played is played, unless retention takes it, the
\* client seeks past it or leaves, or an open fails and ends the session.
FollowCatchesUp ==
  \A i \in Ids :
    (/\ pc = "wait" /\ i \in DOMAIN rows /\ i \notin seen
     /\ rows[i].status = "complete" /\ rows[i].end >= AfterTime)
    ~> \/ \E k \in DOMAIN shown : shown[k].id = i
       \/ i \in DOMAIN rows /\ rows[i].status = "deleted"
       \/ i \in DOMAIN rows /\ rows[i].end < resolved
       \/ pc \in {"done", "failed"}

\* The packet buffer takes over where the index ends: whatever was completed since
\* the last poll and is not known to the session when it goes over to the buffer
\* does not begin before the time asked of the buffer.
BufferTakesOver ==
  [][pc = "polled" /\ pc' = "playing" /\ usedBuf' # usedBuf =>
       \A i \in DOMAIN rows \ seen :
         rows[i].status = "complete" /\ rows[i].end >= resolved => rows[i].start >= since']_vars

\* A session never hangs before it plays: resolution and opening end.
RequestSettles == pc = "last" ~> pc \in {"playing", "live", "done", "failed"}
=============================================================================
