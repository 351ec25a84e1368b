----------------------------- MODULE HTTPStream -----------------------------
(***************************************************************************)
(* One request to a stream endpoint of edgeview: the router's middleware   *)
(* (authentication, request timeout, the metrics recorder around the       *)
(* response), fMP4 over HTTP live (httpStreamLive) and recorded            *)
(* (httpStreamRecorded), detections over a WebSocket (wsAnalytics), and    *)
(* the /ws/stream session of module StreamSession, whose handler starts    *)
(* once the upgrade is accepted.  All of them share the live hub, playback *)
(* hubs, the viewer count and the request's context with that module; for  *)
(* plain HTTP the server also ends the context when the client leaves.     *)
(***************************************************************************)
EXTENDS StreamSession

VARIABLES
  metrics,     \* the router has the metrics middleware (the metrics store opened)
  route,       \* ws, live, recorded or analytics
  req,         \* where the handler is
  status,      \* the status of the response, 0 while none is decided
  done,        \* the recorded stream's done channel is closed
  subs,        \* the handler is subscribed to the analytics hub
  queued       \* its channel holds a detection

requestVars  == <<metrics, route, req, status, done, subs, queued>>
endpointVars == <<vars, requestVars>>

Upgrades == {"ws", "analytics"}

\* The end of the request's context as a plain HTTP handler sees it.
ContextDone == gone \/ expired

\* The handler has returned.
Returned == req = "returned" \/ (req = "session" /\ phase = "closed")

EndpointInit ==
  /\ Init
  /\ metrics \in BOOLEAN
  /\ route \in {"ws", "live", "recorded", "analytics"}
  /\ req = "arrived" /\ status = 0
  /\ done = FALSE /\ subs = FALSE /\ queued = FALSE
-----------------------------------------------------------------------------
(* Middleware and checks of the request. *)

\* No token; no camera or a malformed start; no upgrade headers; no analytics hub.
Refusals ==
  {401, 400} \cup (IF route \in Upgrades THEN {426} ELSE {})
             \cup (IF route = "analytics" THEN {503} ELSE {})

Refuse ==
  /\ req = "arrived"
  /\ status' \in Refusals
  /\ req' = "returned"
  /\ UNCHANGED <<vars, metrics, route, done, subs, queued>>

\* websocket.Accept needs a response writer it can take the connection from, which
\* the metrics middleware's statusRecorder is not: the answer is then 501.
AcceptStatus == IF metrics THEN 501 ELSE 101

Accept ==
  /\ req = "arrived" /\ route \in Upgrades
  /\ status' = AcceptStatus
  /\ req' = IF AcceptStatus # 101 THEN "returned" ELSE IF route = "ws" THEN "session" ELSE "subscribed"
  /\ subs' = (req' = "subscribed")
  /\ UNCHANGED <<vars, metrics, route, done, queued>>
-----------------------------------------------------------------------------
(* httpStreamLive. *)

\* TrackConsumer; giving the viewer back is deferred.
Track ==
  /\ req = "arrived" /\ route = "live"
  /\ viewers' = viewers + 1
  /\ req' = "tracked"
  /\ UNCHANGED <<clock, cmds, phase, gone, expired, errChan, rpc, seek, fieldVars, seekVars, liveCons,
                 recHubs, recCons, paused, fresh, answered, metrics, route, status, done, subs, queued>>

\* Consume on the live hub, or its refusal.
ConsumeLive ==
  /\ req = "tracked"
  /\ \/ liveCons' = liveCons \cup {NewId} /\ req' = "waiting" /\ UNCHANGED status
     \/ req' = "untrack" /\ status' = 404 /\ UNCHANGED liveCons
  /\ UNCHANGED <<clock, cmds, phase, gone, expired, errChan, rpc, seek, fieldVars, seekVars, recHubs,
                 recCons, paused, viewers, fresh, answered, metrics, route, done, subs, queued>>

\* The handler waits for the end of its context, of its consumer or of the recording.
Awake ==
  /\ req = "waiting"
  /\ ContextDone \/ errChan \/ done
  /\ req' = "close"
  /\ errChan' = FALSE
  /\ UNCHANGED <<clock, cmds, phase, gone, expired, rpc, seek, fieldVars, seekVars, hubVars, answered,
                 metrics, route, status, done, subs, queued>>

\* The deferred calls, last first: the handle is closed (which closes the muxer of a
\* recorded stream and with it done) ...
CloseHandle ==
  /\ req = "close"
  /\ liveCons' = {} /\ recCons' = {}
  /\ req' = IF route = "live" THEN "untrack" ELSE "stop"
  /\ done' = (route = "recorded")
  /\ UNCHANGED <<clock, cmds, phase, gone, expired, errChan, rpc, seek, fieldVars, seekVars, recHubs,
                 paused, viewers, fresh, answered, metrics, route, status, subs, queued>>

\* ... and the viewer is given back.
Untrack ==
  /\ req = "untrack"
  /\ viewers' = viewers - 1
  /\ req' = "returned"
  /\ UNCHANGED <<clock, cmds, phase, gone, expired, errChan, rpc, seek, fieldVars, seekVars, liveCons,
                 recHubs, recCons, paused, fresh, answered, metrics, route, status, done, subs, queued>>
-----------------------------------------------------------------------------
(* httpStreamRecorded. *)

\* A playback hub of its own, which may fail to start.
StartHub ==
  /\ req = "arrived" /\ route = "recorded"
  /\ \/ recHubs' = recHubs \cup {NewId} /\ req' = "started" /\ UNCHANGED status
     \/ req' = "returned" /\ status' = 500 /\ UNCHANGED recHubs
  /\ UNCHANGED <<clock, cmds, phase, gone, expired, errChan, rpc, seek, fieldVars, seekVars, liveCons,
                 recCons, paused, viewers, fresh, answered, metrics, route, done, subs, queued>>

ConsumeRecorded ==
  /\ req = "started"
  /\ \/ recCons' = recHubs /\ req' = "waiting" /\ UNCHANGED status
     \/ req' = "stop" /\ status' = 404 /\ UNCHANGED recCons
  /\ UNCHANGED <<clock, cmds, phase, gone, expired, errChan, rpc, seek, fieldVars, seekVars, liveCons,
                 recHubs, paused, viewers, fresh, answered, metrics, route, done, subs, queued>>

\* The hub closes the muxer of a source that ended: notifyMuxer closes done.
SourceEnds ==
  /\ req = "waiting" /\ recCons # {}
  /\ recCons' = {} /\ done' = TRUE
  /\ UNCHANGED <<clock, cmds, phase, gone, expired, errChan, rpc, seek, fieldVars, seekVars, liveCons,
                 recHubs, paused, viewers, fresh, answered, metrics, route, req, status, subs, queued>>

\* The deferred Stop of the hub.
StopHub ==
  /\ req = "stop"
  /\ recHubs' = {} /\ recCons' = {}
  /\ req' = "returned"
  /\ UNCHANGED <<clock, cmds, phase, gone, expired, errChan, rpc, seek, fieldVars, seekVars, liveCons,
                 paused, viewers, fresh, answered, metrics, route, status, done, subs, queued>>
-----------------------------------------------------------------------------
(* wsAnalytics. *)

\* The hub publishes a detection; a full channel drops it.
Publish ==
  /\ subs
  /\ queued' = TRUE
  /\ UNCHANGED <<vars, metrics, route, req, status, done, subs>>

\* The handler writes it, which may succeed for a while after the client has left.
Forward ==
  /\ req = "subscribed" /\ queued
  /\ queued' = FALSE
  /\ req' = "subscribed" \/ (gone /\ req' = "unsubscribe")
  /\ UNCHANGED <<vars, metrics, route, status, done, subs>>

\* A loop that waits for messages only.
Quit_Deaf == req = "subscribed" /\ expired /\ queued /\ req' = "unsubscribe"
\* It leaves the loop, or a stalled write, when the context ends.  The connection was
\* taken over and nothing reads it: a disconnect alone does not end the context.
Quit == req = "subscribed" /\ expired /\ req' = "unsubscribe"

QuitAnalytics == Quit /\ UNCHANGED <<vars, metrics, route, status, done, subs, queued>>

\* The hub closes the channel.
HubCloses ==
  /\ req = "subscribed"
  /\ req' = "unsubscribe"
  /\ UNCHANGED <<vars, metrics, route, status, done, subs, queued>>

Unsubscribe ==
  /\ req = "unsubscribe"
  /\ subs' = FALSE /\ queued' = FALSE
  /\ req' = "returned"
  /\ UNCHANGED <<vars, metrics, route, status, done>>
-----------------------------------------------------------------------------
Handler ==
  \/ Accept \/ Track \/ ConsumeLive \/ Awake \/ CloseHandle \/ Untrack
  \/ StartHub \/ ConsumeRecorded \/ StopHub
  \/ QuitAnalytics \/ Unsubscribe

\* The client, the timeout and the hubs, before and without a session.
Surroundings == Disconnect \/ Expire \/ ConsumerFails

InSession(step) == req = "session" /\ step /\ UNCHANGED requestVars

EndpointNext ==
  \/ Refuse \/ Handler \/ SourceEnds \/ Publish \/ Forward \/ HubCloses
  \/ ~Returned /\ req # "session" /\ Surroundings /\ UNCHANGED requestVars
  \/ InSession(Next)

\* Handler, session and hubs run on; the timeout of a request fires.  Only the
\* analytics handler needs it: no other waits for a client it does not hear of.
EndpointSpec ==
  /\ EndpointInit /\ [][EndpointNext]_endpointVars
  /\ WF_endpointVars(Handler)
  /\ WF_endpointVars(InSession(Start)) /\ WF_endpointVars(InSession(Reader))
  /\ WF_endpointVars(InSession(Wake)) /\ WF_endpointVars(InSession(Finish))
  /\ WF_endpointVars(route = "analytics" /\ Expire /\ UNCHANGED requestVars)
-----------------------------------------------------------------------------
(* Properties. *)

\* However the handler ends (a refused consumer, a hub that does not start, a client
\* that leaves between two steps, a timeout in the middle of a seek), no consumer, no
\* playback hub and no subscription is left, and no viewer is counted.
NothingLeft ==
  Returned => liveCons = {} /\ recHubs = {} /\ viewers = 0 /\ ~subs

\* When the client leaves, the request times out, a consumer fails or the session's
\* reader gives up, the handler of every route returns: no goroutine waits for
\* another, or for a client that is gone, for ever.
RequestEnds == gone \/ expired \/ errChan \/ rpc = "exited" ~> Returned
=============================================================================
