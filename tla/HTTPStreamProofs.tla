-------------------------- MODULE HTTPStreamProofs --------------------------
(* Proofs about the stream endpoints: for any number of commands and any time *)
(* at which a client leaves, a request times out or a consumer fails.         *)
EXTENDS HTTPStream, FiniteSetTheorems, TLAPS

\* The client keeps to the protocol: it starts the stream once, and first.
Protocol == PlaysOnce = TRUE

-----------------------------------------------------------------------------
(* Numbered seeks. *)

\* The seek that is being executed is the newest one, and newer than the last that
\* was answered.
SeekInv ==
  /\ lastSeqSeen \in Nat /\ answered \in Nat /\ seek.seq \in Nat
  /\ answered <= lastSeqSeen
  /\ rpc \in {"stop", "resolve", "attach", "store", "answer"} /\ seek.seq > 0 =>
       seek.seq = lastSeqSeen /\ answered < seek.seq
  /\ seek = [kind |-> seek.kind, seq |-> seek.seq, target |-> seek.target, mode |-> seek.mode]

LEMMA SeekInit == EndpointInit => SeekInv
  BY DEF EndpointInit, Init, SeekInv, NoSeek

\* Only the reader's own steps touch its seek, and they take the numbers in order.
LEMMA SeekStep == SeekInv /\ [EndpointNext]_endpointVars => SeekInv'
<1> SUFFICES ASSUME SeekInv, [EndpointNext]_endpointVars PROVE SeekInv'
  OBVIOUS
<1>1. ASSUME UNCHANGED <<rpc, seek, lastSeqSeen, answered>> PROVE SeekInv'
  BY <1>1 DEF SeekInv
<1>2. CASE UNCHANGED endpointVars
  BY <1>1, <1>2 DEF endpointVars, vars, seekVars
<1>3. CASE Refuse \/ Publish \/ Forward \/ HubCloses \/ Accept \/ QuitAnalytics \/ Unsubscribe
  BY <1>1, <1>3 DEF Refuse, Publish, Forward, HubCloses, Accept, QuitAnalytics, Unsubscribe, vars, seekVars
<1>4. CASE Track \/ ConsumeLive \/ Awake \/ CloseHandle \/ Untrack \/ StartHub \/ ConsumeRecorded \/ StopHub \/ SourceEnds
  BY <1>1, <1>4 DEF Track, ConsumeLive, Awake, CloseHandle, Untrack, StartHub, ConsumeRecorded, StopHub, SourceEnds, seekVars
<1>5. CASE Surroundings \/ Elapse \/ Wake \/ Finish
  BY <1>1, <1>5 DEF Surroundings, Disconnect, Expire, ConsumerFails, Elapse, Wake, Finish, seekVars
<1>6. CASE Start \/ \E pause \in BOOLEAN : ReadPause(pause)
  BY <1>1, <1>6 DEF Start, ReadPause, seekVars
<1>7. CASE ReadPlay \/ ReadMalformed \/ ReadEnds \/ SeekStop \/ Attach \/ Store \/ Fail
  BY <1>7 DEF ReadPlay, ReadMalformed, ReadEnds, SeekStop, Attach, Store, Fail, Reads, NoSeek, SeekInv, seekVars
<1>8. ASSUME NEW kind, NEW seq \in 0 .. MaxSeq, NEW t, ReadSeek(kind, seq, t) PROVE SeekInv'
  BY <1>8, SessionAssumption DEF ReadSeek, Reads, Stale, SeekInv
<1>9. ASSUME NEW seq \in 0 .. MaxSeq, NEW d, ReadSkip(seq, d) PROVE SeekInv'
  BY <1>9, SessionAssumption DEF ReadSkip, Reads, Stale, SeekInv
<1>10. CASE SeekStart
  <2>1. /\ rpc = "resolve" /\ rpc' \in {"attach", "fail"} /\ UNCHANGED <<lastSeqSeen, answered>>
        /\ seek'.seq = seek.seq
        /\ seek' = [kind |-> seek'.kind, seq |-> seek'.seq, target |-> seek'.target, mode |-> seek'.mode]
    BY <1>10 DEF SeekStart, seekVars, SeekInv
  <2> QED
    BY <2>1 DEF SeekInv
<1>11. CASE Answer
  BY <1>11 DEF Answer, NoSeek, SeekInv
<1>12. CASE Next
  BY <1>5, <1>6, <1>7, <1>8, <1>9, <1>10, <1>11, <1>12 DEF Next, Reader, Surroundings
<1> QED
  BY <1>2, <1>3, <1>4, <1>5, <1>12 DEF EndpointNext, Handler, InSession

\* Numbered seeks are answered in order, each once, however the answers interleave with
\* commands, failures and the end of the session.
THEOREM SeeksAnsweredInOrder == EndpointSpec => AnswersAdvance
<1>1. SeekInv /\ [EndpointNext]_endpointVars =>
        [rpc = "answer" /\ rpc' = "read" /\ seek.seq > 0 => seek.seq > answered]_vars
  BY DEF SeekInv
<1> QED
  BY <1>1, SeekInit, SeekStep, PTL DEF EndpointSpec, AnswersAdvance
-----------------------------------------------------------------------------
(* Pipelines, and the viewers that are counted. *)

\* There is at most one pipeline, a live consumer or a playback hub, and it has the
\* first free name.
PipelineInv ==
  /\ liveCons \in {{}, {1}} /\ recHubs \in {{}, {1}} /\ recCons \subseteq recHubs
  /\ liveCons = {} \/ recHubs = {}

\* No session, or one that has not started.
RestInv ==
  /\ cmds \in Nat
  /\ req # "session" => phase = "connecting"
  /\ phase = "connecting" => rpc = "read" /\ cmds = 0 /\ playSM = 0 /\ liveHandle = 0 /\ untrack = FALSE
  /\ req = "session" /\ phase = "connecting" => liveCons = {} /\ recHubs = {}

\* A session's fields say what it has to release: the pipeline is the one they name,
\* but for a live consumer that was returned and not yet stored.
FieldInv ==
  req = "session" =>
    /\ untrack \in BOOLEAN /\ viewers = IF untrack THEN 1 ELSE 0
    /\ recHubs = IF playSM = 0 THEN {} ELSE {playSM}
    /\ liveMode => recHubs = {}
    /\ liveCons # {} => liveMode /\ (liveHandle = 1 \/ rpc = "store")
    /\ rpc = "store" /\ liveMode => fresh = 1
    /\ rpc \in {"resolve", "attach", "store"} => liveHandle = 0 /\ ~untrack
    /\ rpc \in {"resolve", "attach"} => liveCons = {}
    /\ rpc = "resolve" => recHubs = {}
    /\ cmds = 0 => liveCons = {} /\ ~untrack /\ liveHandle = 0 /\ rpc \in {"read", "exited"}
    /\ phase = "closed" => liveCons = {} /\ recHubs = {} /\ ~untrack /\ rpc \in {"read", "exited"}

\* What the other handlers hold between their deferred calls.
RouteInv ==
  /\ req \in {"arrived", "session", "tracked", "waiting", "close", "untrack", "started", "stop", "subscribed",
              "unsubscribe", "returned"}
  /\ req \in {"tracked", "untrack"} => route = "live"
  /\ req \in {"started", "stop"} => route = "recorded"
  /\ req \in {"waiting", "close"} => route \in {"live", "recorded"}
  /\ req # "session" =>
       /\ viewers = IF req \in {"tracked", "untrack"} \/ (req \in {"waiting", "close"} /\ route = "live") THEN 1 ELSE 0
       /\ liveCons # {} => route = "live" /\ req \in {"waiting", "close"}
       /\ recHubs # {} => route = "recorded" /\ req \in {"started", "waiting", "close", "stop"}
  /\ subs => req \in {"subscribed", "unsubscribe"}

StreamInv == PipelineInv /\ RestInv /\ FieldInv /\ RouteInv

LEMMA StreamInit == EndpointInit => StreamInv
  BY DEF EndpointInit, Init, StreamInv, PipelineInv, RestInv, FieldInv, RouteInv

\* Where nothing runs the first name is taken.
LEMMA FirstId == liveCons = {} /\ recHubs = {} => NewId = 1
<1> SUFFICES ASSUME liveCons = {}, recHubs = {} PROVE NewId = 1
  OBVIOUS
<1>1. 1 \in Ids /\ Ids \subseteq Nat \ {0}
  BY SessionAssumption DEF Ids
<1>2. \A i \in Ids : (i \notin liveCons \cup recHubs /\ \A j \in 1 .. i - 1 : j \in liveCons \cup recHubs) <=> i = 1
  BY <1>1
<1> QED
  BY <1>1, <1>2 DEF NewId

\* The steps of the environment, in a session or not: pipelines only get fewer.
LEMMA SurroundingsStep ==
  ASSUME StreamInv, Surroundings \/ Elapse, UNCHANGED requestVars
  PROVE  StreamInv'
<1>1. /\ UNCHANGED <<phase, rpc, cmds, playSM, liveHandle, untrack, viewers, recHubs, liveMode, fresh, route, req, subs>>
      /\ liveCons' \subseteq liveCons /\ recCons' \subseteq recCons
  BY DEF Surroundings, Disconnect, Expire, ConsumerFails, Elapse, requestVars, fieldVars, hubVars
<1>2. PipelineInv'
  BY <1>1 DEF StreamInv, PipelineInv
<1>3. RestInv' /\ RouteInv'
  BY <1>1 DEF StreamInv, RestInv, RouteInv
<1>4. FieldInv'
  BY <1>1 DEF StreamInv, FieldInv
<1> QED
  BY <1>2, <1>3, <1>4 DEF StreamInv

\* What stop leaves.
LEMMA ReleaseAll ==
  ASSUME StreamInv, req = "session", rpc # "store", Release
  PROVE  /\ liveCons' = {} /\ recHubs' = {} /\ recCons' = {} /\ viewers' = 0
         /\ playSM' = 0 /\ liveHandle' = 0 /\ untrack' = FALSE /\ liveMode' = FALSE
  BY DEF StreamInv, PipelineInv, FieldInv, Release

\* The session's own steps.
LEMMA SessionStep ==
  ASSUME Protocol, StreamInv, InSession(Next)
  PROVE  StreamInv'
<1>0. req = "session" /\ UNCHANGED <<req, route, subs>> /\ PipelineInv /\ RestInv /\ FieldInv /\ RouteInv
  BY DEF InSession, requestVars, StreamInv
<1>1. RouteInv'
  BY <1>0 DEF RouteInv
<1>2. CASE Elapse \/ Disconnect \/ Expire \/ ConsumerFails
  BY <1>2, SurroundingsStep DEF Surroundings, InSession
<1>3. ASSUME UNCHANGED <<playSM, liveHandle, untrack, liveMode, liveCons, recHubs, recCons, viewers>>,
             phase # "connecting" /\ phase' # "connecting", cmds' \in Nat /\ cmds \in Nat /\ cmds' >= cmds,
             phase' = "closed" => phase = "closed" /\ rpc' \in {"read", "exited"},
             rpc' \in {"attach", "resolve", "store"} => rpc' = rpc \/ (rpc' = "attach" /\ cmds = 0),
             cmds' > cmds \/ rpc' = rpc \/ rpc' \in {"read", "exited"},
             rpc = "store" => rpc' = "store", UNCHANGED fresh
      PROVE  StreamInv'
  <2>1. PipelineInv' /\ RestInv'
    BY <1>0, <1>3 DEF PipelineInv, RestInv
  <2>2. FieldInv'
    BY <1>0, <1>3 DEF FieldInv
  <2> QED
    BY <1>1, <2>1, <2>2 DEF StreamInv
<1>4. CASE Start
  <2>1. NewId = 1 /\ phase = "connecting" /\ UNCHANGED <<rpc, cmds>>
    BY <1>0, <1>4, FirstId DEF Start, RestInv
  <2>2. CASE StartLive /\ phase' = "running"
    BY <1>0, <1>1, <2>1, <2>2 DEF StartLive, hubVars, StreamInv, PipelineInv, RestInv, FieldInv
  <2>3. CASE StartRecordedAt /\ phase' = "running"
    <3>1. /\ recHubs' = {1} /\ playSM' = 1 /\ liveMode' = FALSE /\ liveHandle' = 0 /\ untrack' = FALSE
          /\ UNCHANGED <<liveCons, recCons, viewers>> /\ liveCons = {} /\ recHubs = {} /\ untrack = FALSE /\ rpc = "read"
      BY <1>0, <2>1, <2>3 DEF StartRecordedAt, RestInv
    <3>2. PipelineInv' /\ RestInv'
      BY <1>0, <2>1, <2>3, <3>1 DEF PipelineInv, RestInv
    <3>3. FieldInv'
      <4>1. viewers' = 0 /\ recHubs' = IF playSM' = 0 THEN {} ELSE {playSM'}
        BY <1>0, <2>1, <3>1 DEF FieldInv
      <4> QED
        BY <1>0, <2>1, <2>3, <3>1, <4>1 DEF FieldInv
    <3> QED
      BY <1>1, <3>2, <3>3 DEF StreamInv
  <2>4. CASE phase' = "closed" /\ UNCHANGED <<fieldVars, hubVars>>
    BY <1>0, <1>1, <2>1, <2>4 DEF fieldVars, hubVars, StreamInv, PipelineInv, RestInv, FieldInv
  <2> QED
    BY <1>4, <2>2, <2>3, <2>4 DEF Start
<1>5. CASE ReadPlay \/ ReadMalformed \/ \E pause \in BOOLEAN : ReadPause(pause)
  BY <1>0, <1>3, <1>5 DEF ReadPlay, ReadMalformed, ReadPause, Reads, Protocol, RestInv, fieldVars, hubVars
<1>6. ASSUME NEW kind, NEW seq, NEW t, ReadSeek(kind, seq, t) PROVE StreamInv'
  BY <1>0, <1>3, <1>6 DEF ReadSeek, Reads, RestInv, fieldVars, hubVars
<1>7. ASSUME NEW seq, NEW d, ReadSkip(seq, d) PROVE StreamInv'
  BY <1>0, <1>3, <1>7 DEF ReadSkip, Reads, RestInv, fieldVars, hubVars
<1>8. CASE ReadEnds \/ Answer \/ Fail \/ Wake
  BY <1>0, <1>3, <1>8 DEF ReadEnds, Answer, Fail, Wake, RestInv, FieldInv, fieldVars, hubVars
<1>9. CASE SeekStop \/ Finish
  <2>1. /\ liveCons' = {} /\ recHubs' = {} /\ recCons' = {} /\ viewers' = 0
        /\ playSM' = 0 /\ liveHandle' = 0 /\ untrack' = FALSE /\ liveMode' = FALSE
    BY <1>0, <1>9, ReleaseAll DEF SeekStop, Finish
  <2>2. phase' # "connecting" /\ cmds' = cmds /\ rpc' # "store" /\ (phase' = "closed" => rpc' = "exited")
    BY <1>0, <1>9 DEF SeekStop, Finish, RestInv, FieldInv
  <2>3. cmds = 0 => rpc' \in {"read", "exited"}
    BY <1>0, <1>9 DEF SeekStop, Finish, FieldInv
  <2>4. PipelineInv' /\ RestInv'
    BY <1>0, <2>1, <2>2 DEF PipelineInv, RestInv
  <2>5. FieldInv'
    BY <1>0, <2>1, <2>2, <2>3 DEF FieldInv
  <2> QED
    BY <1>1, <2>4, <2>5 DEF StreamInv
<1>10. CASE SeekStart
  <2>1. /\ rpc = "resolve" /\ rpc' \in {"attach", "fail"} /\ UNCHANGED <<phase, cmds>> /\ phase \notin {"connecting", "closed"}
        /\ liveCons = {} /\ recHubs = {} /\ recCons = {} /\ liveHandle = 0 /\ ~untrack /\ viewers = 0 /\ NewId = 1
        /\ cmds # 0
    <3>1. rpc = "resolve" /\ rpc' \in {"attach", "fail"} /\ UNCHANGED <<phase, cmds>>
      BY <1>10 DEF SeekStart
    <3>2. phase \notin {"connecting", "closed"} /\ cmds # 0
      BY <1>0, <3>1 DEF RestInv, FieldInv
    <3>3. liveCons = {} /\ recHubs = {} /\ liveHandle = 0 /\ ~untrack /\ viewers = 0
      BY <1>0, <3>1 DEF FieldInv
    <3> QED
      BY <1>0, <3>1, <3>2, <3>3, FirstId DEF PipelineInv
  <2>2. CASE StartLive
    BY <1>0, <1>1, <2>1, <2>2 DEF StartLive, hubVars, StreamInv, PipelineInv, RestInv, FieldInv
  <2>3. CASE StartRecordedAt
    <3>1. /\ recHubs' = {1} /\ playSM' = 1 /\ liveMode' = FALSE /\ liveHandle' = 0 /\ untrack' = FALSE
          /\ UNCHANGED <<liveCons, recCons, viewers>>
      BY <2>1, <2>3 DEF StartRecordedAt
    <3>2. PipelineInv' /\ RestInv'
      BY <1>0, <2>1, <2>3, <3>1 DEF PipelineInv, RestInv
    <3>3. FieldInv'
      <4>1. viewers' = 0 /\ recHubs' = IF playSM' = 0 THEN {} ELSE {playSM'}
        BY <1>0, <2>1, <3>1 DEF FieldInv
      <4> QED
        BY <1>0, <2>1, <2>3, <3>1, <4>1 DEF FieldInv
    <3> QED
      BY <1>1, <3>2, <3>3 DEF StreamInv
  <2>4. CASE UNCHANGED <<fieldVars, hubVars>>
    BY <1>0, <1>1, <2>1, <2>4 DEF fieldVars, hubVars, StreamInv, PipelineInv, RestInv, FieldInv
  <2> QED
    BY <1>10, <2>2, <2>3, <2>4 DEF SeekStart
<1>11. CASE Attach
  <2>1. /\ rpc = "attach" /\ rpc' \in {"store", "fail"} /\ phase \notin {"connecting", "closed"} /\ liveCons = {}
        /\ UNCHANGED <<phase, cmds, liveMode, playSM, liveHandle, untrack, recHubs, viewers>>
        /\ liveHandle = 0 /\ ~untrack /\ cmds # 0
    BY <1>0, <1>11 DEF Attach, RestInv, FieldInv, fieldVars
  <2>2. CASE liveMode /\ liveCons' = liveCons \cup {NewId} /\ fresh' = NewId /\ rpc' = "store" /\ UNCHANGED recCons
    <3>1. recHubs = {} /\ NewId = 1
      BY <1>0, <2>1, <2>2, FirstId DEF FieldInv
    <3> QED
      BY <1>0, <1>1, <2>1, <2>2, <3>1 DEF StreamInv, PipelineInv, RestInv, FieldInv
  <2>3. CASE ~liveMode /\ playSM # 0 /\ recCons' = recCons \cup {playSM} /\ UNCHANGED liveCons
    BY <1>0, <1>1, <2>1, <2>3 DEF StreamInv, PipelineInv, RestInv, FieldInv
  <2>4. CASE rpc' = "fail" /\ UNCHANGED <<liveCons, recCons, fresh>>
    BY <1>0, <1>1, <2>1, <2>4 DEF StreamInv, PipelineInv, RestInv, FieldInv
  <2> QED
    BY <1>11, <2>2, <2>3, <2>4 DEF Attach
<1>12. CASE Store
  <2>1. /\ rpc = "store" /\ rpc' \in {"read", "answer"} /\ phase \notin {"connecting", "closed"}
        /\ UNCHANGED <<phase, cmds, liveMode, playSM, recHubs, recCons, liveCons>>
        /\ liveHandle = 0 /\ ~untrack /\ viewers = 0
    BY <1>0, <1>12 DEF Store, RestInv, FieldInv
  <2>2. CASE liveMode /\ liveHandle' = fresh /\ untrack' = TRUE /\ viewers' = viewers + 1
    BY <1>0, <1>1, <2>1, <2>2 DEF StreamInv, PipelineInv, RestInv, FieldInv
  <2>3. CASE ~liveMode /\ UNCHANGED <<liveHandle, untrack, viewers>>
    BY <1>0, <1>1, <2>1, <2>3 DEF StreamInv, PipelineInv, RestInv, FieldInv
  <2> QED
    BY <1>12, <2>2, <2>3 DEF Store
<1> QED
  BY <1>2, <1>4, <1>5, <1>6, <1>7, <1>8, <1>9, <1>10, <1>11, <1>12 DEF InSession, Next, Reader

\* The steps of the other handlers.
LEMMA HandlerStep ==
  ASSUME StreamInv, Refuse \/ Handler \/ SourceEnds \/ Publish \/ Forward \/ HubCloses
  PROVE  StreamInv'
<1>0. PipelineInv /\ RestInv /\ FieldInv /\ RouteInv
  BY DEF StreamInv
<1>1. CASE Refuse \/ Publish \/ Forward \/ HubCloses \/ QuitAnalytics \/ Unsubscribe
  <2>1. UNCHANGED vars
    BY <1>1 DEF Refuse, Publish, Forward, HubCloses, QuitAnalytics, Unsubscribe
  <2>2. UNCHANGED <<phase, rpc, cmds, playSM, liveHandle, untrack, viewers, recHubs, recCons, liveCons, liveMode, fresh>>
    BY <2>1 DEF vars, fieldVars, hubVars
  <2>3. /\ UNCHANGED route /\ (req' = "session" <=> req = "session")
        /\ req' # req => req \in {"arrived", "subscribed", "unsubscribe"} /\ req' \in {"returned", "unsubscribe"}
        /\ subs' => subs /\ req' \in {"subscribed", "unsubscribe"}
    BY <1>0, <1>1 DEF Refuse, Publish, Forward, HubCloses, QuitAnalytics, Quit, Unsubscribe, RouteInv
  <2>4. PipelineInv' /\ RestInv' /\ FieldInv'
    BY <1>0, <2>2, <2>3 DEF PipelineInv, RestInv, FieldInv
  <2>5. RouteInv'
    BY <1>0, <2>2, <2>3 DEF RouteInv
  <2> QED
    BY <2>4, <2>5 DEF StreamInv
<1>2. CASE Accept
  <2>1. UNCHANGED <<phase, rpc, cmds, playSM, liveHandle, untrack, viewers, recHubs, recCons, liveCons, liveMode, fresh, route>>
    BY <1>2 DEF Accept, vars, fieldVars, hubVars
  <2>2. /\ req = "arrived" /\ req' \in {"returned", "session", "subscribed"} /\ (subs' => req' = "subscribed")
        /\ liveCons = {} /\ recHubs = {} /\ viewers = 0 /\ phase = "connecting" /\ rpc = "read" /\ ~untrack /\ liveHandle = 0
    BY <1>0, <1>2 DEF Accept, RouteInv, RestInv
  <2>3. PipelineInv' /\ RestInv' /\ RouteInv'
    BY <1>0, <2>1, <2>2 DEF PipelineInv, RestInv, RouteInv
  <2>4. FieldInv'
    BY <1>0, <2>1, <2>2 DEF FieldInv, RestInv
  <2> QED
    BY <2>3, <2>4 DEF StreamInv
<1>3. ASSUME req # "session", req' # "session", UNCHANGED <<phase, rpc, cmds, playSM, liveHandle, untrack, route, subs>>,
             PipelineInv', RouteInv'
      PROVE  StreamInv'
  BY <1>0, <1>3 DEF StreamInv, RestInv, FieldInv
<1>4. CASE Track \/ Untrack \/ Awake \/ CloseHandle
  <2>1. /\ req # "session" /\ req' # "session" /\ UNCHANGED <<phase, rpc, cmds, playSM, liveHandle, untrack, route, subs>>
    BY <1>0, <1>4 DEF Track, Untrack, Awake, CloseHandle, fieldVars
  <2>2. PipelineInv'
    BY <1>0, <1>4 DEF Track, Untrack, Awake, CloseHandle, PipelineInv, hubVars
  <2>3. RouteInv'
    BY <1>0, <1>4 DEF Track, Untrack, Awake, CloseHandle, RouteInv, hubVars
  <2> QED
    BY <1>3, <2>1, <2>2, <2>3
<1>5. CASE ConsumeLive \/ StartHub \/ ConsumeRecorded \/ StopHub \/ SourceEnds
  <2>1. /\ req # "session" /\ req' # "session" /\ UNCHANGED <<phase, rpc, cmds, playSM, liveHandle, untrack, route, subs, viewers>>
    BY <1>0, <1>5 DEF ConsumeLive, StartHub, ConsumeRecorded, StopHub, SourceEnds, fieldVars
  <2>2. CASE ConsumeLive \/ StartHub
    <3>1. liveCons = {} /\ recHubs = {} /\ NewId = 1 /\ recCons' = recCons /\ recCons = {}
      BY <1>0, <2>2, FirstId DEF ConsumeLive, StartHub, RouteInv, PipelineInv
    <3>2. PipelineInv'
      BY <2>2, <3>1 DEF ConsumeLive, StartHub, PipelineInv
    <3>3. RouteInv'
      BY <1>0, <2>1, <2>2, <3>1 DEF ConsumeLive, StartHub, RouteInv
    <3> QED
      BY <1>3, <2>1, <3>2, <3>3
  <2>3. CASE ConsumeRecorded \/ StopHub \/ SourceEnds
    <3>1. PipelineInv'
      BY <1>0, <2>3 DEF ConsumeRecorded, StopHub, SourceEnds, PipelineInv
    <3>2. RouteInv'
      BY <1>0, <2>1, <2>3 DEF ConsumeRecorded, StopHub, SourceEnds, RouteInv
    <3> QED
      BY <1>3, <2>1, <3>1, <3>2
  <2> QED
    BY <1>5, <2>2, <2>3
<1> QED
  BY <1>1, <1>2, <1>4, <1>5 DEF Handler

LEMMA StreamStep == ASSUME Protocol PROVE StreamInv /\ [EndpointNext]_endpointVars => StreamInv'
<1> SUFFICES ASSUME StreamInv, [EndpointNext]_endpointVars PROVE StreamInv'
  OBVIOUS
<1>1. CASE UNCHANGED endpointVars
  BY <1>1 DEF endpointVars, vars, requestVars, fieldVars, hubVars, StreamInv, PipelineInv, RestInv, FieldInv, RouteInv
<1>2. CASE Surroundings /\ UNCHANGED requestVars
  BY <1>2, SurroundingsStep
<1> QED
  BY <1>1, <1>2, SessionStep, HandlerStep DEF EndpointNext

\* Of a client that keeps to the protocol: however its session or request goes, two
\* pipelines never feed its socket at once.
THEOREM OnePipelineAtATime == ASSUME Protocol PROVE EndpointSpec => []OnePipeline
<1>1. StreamInv => OnePipeline
  <2> SUFFICES ASSUME StreamInv PROVE Cardinality(liveCons) + Cardinality(recHubs) <= 1
    BY DEF OnePipeline
  <2>1. Cardinality({}) = 0 /\ Cardinality({1}) = 1
    BY FS_EmptySet, FS_Singleton
  <2> QED
    BY <2>1 DEF StreamInv, PipelineInv
<1> QED
  BY <1>1, StreamInit, StreamStep, PTL DEF EndpointSpec

\* Of such a client: whichever way its handler ends, no consumer, playback hub or
\* subscription is left and no viewer is counted.
THEOREM NothingIsLeft == ASSUME Protocol PROVE EndpointSpec => []NothingLeft
<1>1. StreamInv => NothingLeft
  BY DEF StreamInv, FieldInv, RouteInv, NothingLeft, Returned
<1> QED
  BY <1>1, StreamInit, StreamStep, PTL DEF EndpointSpec
=============================================================================
