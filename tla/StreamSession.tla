---------------------------- MODULE StreamSession ----------------------------
(***************************************************************************)
(* One /ws/stream session (pkg/edgeview/ws_stream.go): the handler         *)
(* goroutine, the reader goroutine that executes the client's commands,    *)
(* the live hub and the per-session playback hubs (a library) they attach  *)
(* consumers to, and the service's count of live viewers.  Where playback  *)
(* starts is the subject of module Playback; here a resolution has any     *)
(* outcome ResolvePlaybackStart allows.  The media sent and its codec are  *)
(* left out.                                                               *)
(***************************************************************************)
EXTENDS Integers, FiniteSets

CONSTANTS
  MaxClock,    \* bound: the clock stops here
  MaxCmds,     \* bound: commands the client sends
  MaxSeq,      \* bound: sequence numbers of seeks; 0 is no number
  Offsets,     \* offsets of skips
  PlaysOnce    \* the client starts the stream once and first, as the protocol asks

ASSUME SessionAssumption == MaxCmds \in Nat /\ MaxSeq \in Nat /\ PlaysOnce \in BOOLEAN

VARIABLES
  clock, cmds,
  phase,       \* the handler: connecting, running, ending, closed
  gone,        \* the client disconnected
  expired,     \* the request's context is done
  errChan,     \* the error channel (of size 1) holds an error
  rpc,         \* where the reader is
  seek,        \* the seek being executed: its sequence number, target and mode
  liveMode, playSM, consumer, liveHandle, untrack,   \* the session's fields
  lastSeqSeen, lastSeekTime,
  liveCons, recHubs,    \* consumers on the live hub, running playback hubs
  recCons,     \* playback hubs with a consumer
  paused,      \* playback hubs that are paused
  viewers,     \* activeConsumers
  fresh,       \* the consumer a Consume call returned, not yet in the fields
  answered     \* sequence number of the last seeked answer

fieldVars == <<liveMode, playSM, consumer, liveHandle, untrack>>
seekVars  == <<lastSeqSeen, lastSeekTime>>
hubVars   == <<liveCons, recHubs, recCons, paused, viewers, fresh>>
vars == <<clock, cmds, phase, gone, expired, errChan, rpc, seek, fieldVars, seekVars, hubVars, answered>>

Ids   == 1 .. 2 * MaxCmds + 1
NoSeek == [kind |-> "none", seq |-> 0, target |-> 0, mode |-> "none"]

Init ==
  /\ clock = 1 /\ cmds = 0
  /\ phase = "connecting" /\ gone = FALSE /\ expired = FALSE /\ errChan = FALSE
  /\ rpc = "read" /\ seek = NoSeek
  /\ liveMode = FALSE /\ playSM = 0 /\ consumer = 0 /\ liveHandle = 0
  /\ untrack = FALSE
  /\ lastSeqSeen = 0 /\ lastSeekTime = 0
  /\ liveCons = {} /\ recHubs = {} /\ recCons = {} /\ paused = {} /\ viewers = 0 /\ fresh = 0
  /\ answered = 0

\* A new name for a hub or a consumer.
NewId == CHOOSE i \in Ids : i \notin liveCons \cup recHubs /\ \A j \in 1 .. i - 1 : j \in liveCons \cup recHubs
-----------------------------------------------------------------------------
(* The environment: time, the client's connection, the hubs. *)

Elapse ==
  /\ clock < MaxClock
  /\ clock' = clock + 1
  /\ UNCHANGED <<cmds, phase, gone, expired, errChan, rpc, seek, fieldVars, seekVars, hubVars, answered>>

Disconnect ==
  /\ phase # "closed" /\ ~gone
  /\ gone' = TRUE
  /\ UNCHANGED <<clock, cmds, phase, expired, errChan, rpc, seek, fieldVars, seekVars, hubVars, answered>>

\* The router's Timeout middleware ends the request's context.  (A disconnect does
\* not: the connection was taken over from the HTTP server.)
Expire ==
  /\ phase # "closed" /\ ~expired
  /\ expired' = TRUE
  /\ UNCHANGED <<clock, cmds, phase, gone, errChan, rpc, seek, fieldVars, seekVars, hubVars, answered>>

\* A consumer fails (the socket stalls, the hub drops it): its error goes to the
\* channel unless that is full.
ConsumerFails ==
  /\ liveCons \cup recCons # {}
  /\ \/ liveCons' \in {liveCons \ {i} : i \in liveCons} /\ UNCHANGED recCons
     \/ recCons' \in {recCons \ {i} : i \in recCons} /\ UNCHANGED liveCons
  /\ errChan' = TRUE
  /\ UNCHANGED <<clock, cmds, phase, gone, expired, rpc, seek, fieldVars, seekVars, recHubs, paused, viewers, fresh, answered>>
-----------------------------------------------------------------------------
(* start, stop. *)

\* startLive and startRecordedAt (and the end of startResolved): the session's
\* fields for the new mode; a playback hub is started, which may fail.
StartLive ==
  /\ liveMode' = TRUE
  /\ playSM' = 0 /\ consumer' = 0 /\ liveHandle' = 0 /\ untrack' = FALSE
  /\ UNCHANGED hubVars

StartRecordedAt ==
  /\ recHubs' = recHubs \cup {NewId}
  /\ liveMode' = FALSE
  /\ playSM' = NewId /\ consumer' = 0 /\ liveHandle' = 0 /\ untrack' = FALSE
  /\ UNCHANGED <<liveCons, recCons, paused, viewers, fresh>>

\* start: without a start time, or with one beyond the recordings, live; else
\* recorded from the resolved time.  An error closes the connection.
Start ==
  /\ phase = "connecting"
  /\ \/ /\ StartLive /\ phase' = "running" /\ UNCHANGED lastSeekTime
     \/ /\ StartRecordedAt /\ phase' = "running"
        /\ lastSeekTime' \in 1 .. clock
     \/ /\ phase' = "closed" /\ UNCHANGED <<fieldVars, hubVars, lastSeekTime>>
  /\ UNCHANGED <<clock, cmds, gone, expired, errChan, rpc, seek, lastSeqSeen, answered>>

\* stop: take the fields, close the consumer, give the viewer back, stop the hub.
Release ==
  /\ liveMode' = FALSE /\ playSM' = 0 /\ consumer' = 0 /\ liveHandle' = 0
  /\ untrack' = FALSE
  /\ liveCons' = liveCons \ {liveHandle}
  /\ recHubs' = recHubs \ {playSM} /\ recCons' = recCons \ {playSM} /\ paused' = paused \ {playSM}
  /\ viewers' = IF untrack THEN viewers - 1 ELSE viewers
  /\ UNCHANGED fresh
-----------------------------------------------------------------------------
(* readLoop. *)

\* The next command, which may have been on its way when the client left; none is
\* read once the handler or the timeout has cancelled the reader.
Reads == phase = "running" /\ rpc = "read" /\ ~expired /\ cmds < MaxCmds /\ cmds' = cmds + 1

\* {"type":"mse"}: attach a consumer.
ReadPlay ==
  /\ Reads
  /\ PlaysOnce => cmds = 0
  /\ rpc' = "attach" /\ seek' = NoSeek
  /\ UNCHANGED <<clock, phase, gone, expired, errChan, fieldVars, seekVars, hubVars, answered>>

\* pause and resume reach the session's playback hub, never the live hub.
ReadPause(pause) ==
  /\ Reads
  /\ PlaysOnce => cmds > 0
  /\ paused' = IF liveMode \/ playSM = 0 THEN paused
               ELSE IF pause THEN paused \cup {playSM} ELSE paused \ {playSM}
  /\ UNCHANGED <<clock, phase, gone, expired, errChan, rpc, seek, fieldVars, seekVars, liveCons, recHubs,
                 recCons, viewers, fresh, answered>>

\* Debounce of a numbered seek.  Stale_Older lets a repeated number through.
Stale_Older(seq) == seq > 0 /\ seq < lastSeqSeen
Stale(seq) == seq > 0 /\ seq <= lastSeqSeen

\* handleSeek: "now" is live, a time is sought; a stale seek and a malformed time
\* (after its number was noted) change nothing else.
ReadSeek(kind, seq, target) ==
  /\ Reads
  /\ PlaysOnce => cmds > 0
  /\ IF Stale(seq)
     THEN UNCHANGED <<rpc, seek, lastSeqSeen>>
     ELSE /\ lastSeqSeen' = IF seq > 0 THEN seq ELSE lastSeqSeen
          /\ \/ /\ rpc' = "stop"
                /\ seek' = [kind |-> kind, seq |-> seq, target |-> target, mode |-> "none"]
             \/ kind # "now" /\ UNCHANGED <<rpc, seek>>
  /\ UNCHANGED <<clock, phase, gone, expired, errChan, fieldVars, lastSeekTime, hubVars, answered>>

\* handleSkip: relative to the last seek's time, or to now if there was none.
ReadSkip(seq, offset) ==
  LET base == IF lastSeekTime = 0 THEN clock ELSE lastSeekTime IN
  /\ Reads
  /\ PlaysOnce => cmds > 0
  /\ IF Stale(seq)
     THEN UNCHANGED <<rpc, seek, lastSeqSeen>>
     ELSE /\ lastSeqSeen' = IF seq > 0 THEN seq ELSE lastSeqSeen
          /\ rpc' = "stop"
          /\ seek' = [kind |-> "skip", seq |-> seq, target |-> base + offset, mode |-> "none"]
  /\ UNCHANGED <<clock, phase, gone, expired, errChan, fieldVars, lastSeekTime, hubVars, answered>>

\* A command that does not decode ends the reader ...
ReadMalformed ==
  /\ Reads
  /\ errChan' = TRUE
  /\ rpc' = "exited"
  /\ UNCHANGED <<clock, phase, gone, expired, seek, fieldVars, seekVars, hubVars, answered>>

\* ... and so does the end of the connection or of the reader's context; the
\* latter is not reported to the handler.
ReadEnds ==
  /\ rpc = "read" /\ phase # "connecting"
  /\ \/ gone /\ errChan' = TRUE
     \/ (expired \/ phase # "running") /\ UNCHANGED errChan
  /\ rpc' = "exited"
  /\ UNCHANGED <<clock, cmds, phase, gone, expired, seek, fieldVars, seekVars, hubVars, answered>>

\* A seek that leaves the old pipeline running.
SeekStop_Skipped ==
  /\ rpc = "stop"
  /\ rpc' = "resolve"
  /\ UNCHANGED <<clock, cmds, phase, gone, expired, errChan, seek, fieldVars, hubVars, seekVars, answered>>
\* executeSeek and "now" begin with stop ...
SeekStop ==
  /\ rpc = "stop"
  /\ Release
  /\ rpc' = "resolve"
  /\ UNCHANGED <<clock, cmds, phase, gone, expired, errChan, seek, seekVars, answered>>

\* ... then resolve and start the new mode: live for "now", for a target beyond the
\* latest recording and, even if the resolution fails, for one in the future.
SeekStart ==
  /\ rpc = "resolve"
  /\ \/ /\ StartLive
        /\ seek' = [seek EXCEPT !.mode = "live"]
        /\ rpc' = "attach"
     \/ /\ seek.kind # "now" /\ seek.target <= clock
        /\ StartRecordedAt
        /\ \E t \in 1 .. clock :
             seek' = [seek EXCEPT !.target = t,
                        !.mode = IF t >= seek.target THEN "recorded" ELSE "first_available"]
        /\ rpc' = "attach"
     \/ /\ seek.kind # "now" /\ seek.target <= clock
        /\ rpc' = "fail" /\ UNCHANGED <<fieldVars, hubVars, seek>>
  /\ UNCHANGED <<clock, cmds, phase, gone, expired, errChan, seekVars, answered>>

\* attachConsumer: Consume on the live hub or on the session's playback hub (which
\* takes one consumer); no hub, a refusal or another error ends the session.
Attach ==
  /\ rpc = "attach"
  /\ \/ /\ liveMode
        /\ liveCons' = liveCons \cup {NewId} /\ fresh' = NewId
        /\ rpc' = "store" /\ UNCHANGED recCons
     \/ /\ ~liveMode /\ playSM # 0 /\ playSM \notin recCons
        /\ recCons' = recCons \cup {playSM} /\ fresh' = playSM
        /\ rpc' = "store" /\ UNCHANGED liveCons
     \/ /\ rpc' = "fail" /\ UNCHANGED <<liveCons, recCons, fresh>>
  /\ UNCHANGED <<clock, cmds, phase, gone, expired, errChan, seek, fieldVars, seekVars, recHubs, paused, viewers, answered>>

\* ... count the viewer of a live stream and keep the handle.
Store ==
  /\ rpc = "store"
  /\ IF liveMode
     THEN liveHandle' = fresh /\ untrack' = TRUE /\ viewers' = viewers + 1 /\ UNCHANGED consumer
     ELSE consumer' = fresh /\ UNCHANGED <<liveHandle, untrack, viewers>>
  /\ fresh' = 0
  /\ rpc' = IF seek.kind = "none" THEN "read" ELSE "answer"
  /\ UNCHANGED <<clock, cmds, phase, gone, expired, errChan, seek, liveMode, playSM, seekVars, liveCons,
                 recHubs, recCons, paused, answered>>

\* The seeked answer.  executeSeek then notes the time; "now" does not.
Answer ==
  /\ rpc = "answer"
  /\ answered' = IF seek.seq > 0 THEN seek.seq ELSE answered
  /\ \/ /\ seek.kind = "now" /\ UNCHANGED lastSeekTime
     \/ /\ seek.kind # "now"
        /\ lastSeekTime' = IF seek.mode = "live" THEN clock ELSE seek.target
  /\ seek' = NoSeek
  /\ rpc' = "read"
  /\ UNCHANGED <<clock, cmds, phase, gone, expired, errChan, fieldVars, lastSeqSeen, hubVars>>

\* An error is reported to the client and to the handler.
Fail ==
  /\ rpc = "fail"
  /\ errChan' = TRUE
  /\ rpc' = "exited"
  /\ UNCHANGED <<clock, cmds, phase, gone, expired, seek, fieldVars, seekVars, hubVars, answered>>
-----------------------------------------------------------------------------
(* The handler goroutine. *)

\* It waits for the end of the request's context or an error, and cancels the reader.
Wake ==
  /\ phase = "running"
  /\ expired \/ errChan
  /\ phase' = "ending"
  /\ errChan' = FALSE
  /\ UNCHANGED <<clock, cmds, gone, expired, rpc, seek, fieldVars, seekVars, hubVars, answered>>

\* A handler that does not wait for the reader.
Finish_Hasty ==
  /\ phase = "ending"
  /\ Release
  /\ phase' = "closed"
  /\ UNCHANGED <<clock, cmds, gone, expired, errChan, rpc, seek, seekVars, answered>>
\* It waits for the reader to return and stops the session.
Finish ==
  /\ phase = "ending"
  /\ rpc = "exited"
  /\ Release
  /\ phase' = "closed"
  /\ UNCHANGED <<clock, cmds, gone, expired, errChan, rpc, seek, seekVars, answered>>
-----------------------------------------------------------------------------
Reader == ReadEnds \/ SeekStop \/ SeekStart \/ Attach \/ Store \/ Answer \/ Fail

Next ==
  \/ Elapse \/ Disconnect \/ Expire \/ ConsumerFails
  \/ Start \/ ReadPlay \/ ReadMalformed
  \/ \E pause \in BOOLEAN : ReadPause(pause)
  \/ \E seq \in 0 .. MaxSeq : \/ ReadSeek("now", seq, 0)
                              \/ \E t \in 1 .. MaxClock : ReadSeek("seek", seq, t)
                              \/ \E d \in Offsets : ReadSkip(seq, d)
  \/ Reader \/ Wake \/ Finish

Spec == Init /\ [][Next]_vars
-----------------------------------------------------------------------------
(* Properties. *)

\* Two pipelines never write to the client's socket at once: a seek starts the
\* new one only after the old one is gone.
OnePipeline == Cardinality(liveCons) + Cardinality(recHubs) <= 1

\* Numbered seeks are answered in order and a repeated one is not executed again.
AnswersAdvance ==
  [][rpc = "answer" /\ rpc' = "read" /\ seek.seq > 0 => seek.seq > answered]_vars
=============================================================================
