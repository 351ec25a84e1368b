------------------------------- MODULE Grabber -------------------------------
(***************************************************************************)
(* The demuxer of a camera (internal/avgrabber/demuxer.go, session.go):    *)
(* frames of an RTSP session, from the C library, become packets.          *)
(* GetCodecs reads up to the first complete parameter set, ReadPacket from *)
(* there; each looks at the context and then waits in NextFrame for a      *)
(* frame, at most 50 ms, and so on.  A new parameter set is announced with *)
(* the next key frame.                                                     *)
(*                                                                         *)
(* The camera and the library are external: frames in the order            *)
(* avgrabber_api.h gives them (a parameter set before the key frame it is  *)
(* for, audio anywhere), 64-bit ticks that grow except where a frame is    *)
(* flagged as a discontinuity; the clock rate is the same in all parameter *)
(* sets.  A time.Duration is a number of Width values around zero and      *)
(* arithmetic on it wraps.                                                 *)
(***************************************************************************)
EXTENDS AnnexB, FiniteSets

CONSTANTS
  Second,      \* time units of a second (time.Second)
  VideoClk,    \* ticks of video per second
  AudioClk,    \* ticks of audio per second
  NominalDur,  \* a frame's duration by the parameter set
  Width,       \* values of a time.Duration (2^64)
  MaxTicks,    \* bound: ticks stop here
  MaxFrames,   \* bound: frames the session delivers
  Versions     \* parameter sets the camera's encoder switches between

ASSUME ClockAssumption ==
  /\ Second \in Nat /\ VideoClk \in 1 .. Second /\ AudioClk \in 1 .. Second
  /\ NominalDur \in Nat \ {0} /\ Width \in Nat \ {0} /\ MaxTicks \in Nat /\ MaxFrames \in Nat
\* A unit's last byte is not 0, and parameter sets are told apart by theirs.
ASSUME VersionAssumption == Versions \subseteq 1 .. 255

VARIABLES
  \* the camera and its session
  codec, audio,        \* video codec, audio codec
  frames,              \* frames delivered so far
  session,             \* running, stopped, refused, closed
  version, paramSent,  \* the encoder's parameter set, and whether it was sent whole
  keyDue,              \* the next video frame is a key frame
  videoTicks, audioTicks,
  \* the demuxer and its reader
  phase,               \* in GetCodecs, in ReadPacket, failed, closed
  loopAt,              \* before the loop's check of the context, or waiting in NextFrame
  ctxDone,
  videoCodec, codecDirty,
  audioReady, audioClk,
  lastVideoDTS, lastAudioDTS,   \* NoDTS before the first packet
  \* what the reader was given
  pkt,                 \* the packet the last call returned, until the next call, or NoPkt
  announced,           \* the streams it was told of
  told                 \* since audio is known: 0 nothing, 1 a parameter set came, 2 and its key frame

camVars == <<codec, audio, frames, session, version, paramSent, keyDue, videoTicks, audioTicks>>
demVars == <<videoCodec, codecDirty, audioReady, audioClk, lastVideoDTS, lastAudioDTS>>
outVars == <<pkt, announced, told>>
vars == <<camVars, phase, loopAt, ctxDone, demVars, outVars>>

NoPkt == [idx |-> -1]
NoDTS == [none |-> TRUE]
DTS(t) == [none |-> FALSE, at |-> t]

\* Parameter sets (VPS, SPS, PPS) of a version, and slices with their SEI.
ParamNals(v) ==
  IF codec = "h264" THEN <<<<103, v>>, <<104, v>>>> ELSE <<<<64, v>>, <<66, v>>, <<68, v>>>>
KeyNals == IF codec = "h264" THEN <<<<6, 5>>, <<101, 136>>>> ELSE <<<<78, 5>>, <<38, 1>>>>
DeltaNals == IF codec = "h264" THEN <<<<65, 0, 1>>>> ELSE <<<<2, 1>>>>

Init ==
  /\ codec \in {"h264", "h265"} /\ audio \in {"none", "pcm", "aac"}
  /\ frames = 0 /\ session = "running"
  /\ version \in Versions /\ paramSent = FALSE /\ keyDue = TRUE
  /\ videoTicks = 0 /\ audioTicks = 0
  /\ phase = "codecs" /\ loopAt = "check" /\ ctxDone = FALSE
  /\ videoCodec = <<>> /\ codecDirty = FALSE /\ audioReady = FALSE /\ audioClk = 0
  /\ lastVideoDTS = NoDTS /\ lastAudioDTS = NoDTS
  /\ pkt = NoPkt /\ announced = [video |-> <<>>, audio |-> FALSE] /\ told = 0
-----------------------------------------------------------------------------
(* The library: NextFrame. *)

\* An Annex-B payload: each unit behind a start code of three or four bytes; the
\* first one's may have been removed.
StartCode(n) == IF n = 4 THEN <<0, 0, 0, 1>> ELSE <<0, 0, 1>>
AnnexBOf(nals, lens) ==
  LET from[i \in 1 .. Len(nals) + 1] ==
        IF i > Len(nals) THEN <<>>
        ELSE (IF lens[i] = 0 THEN <<>> ELSE StartCode(lens[i])) \o nals[i] \o from[i + 1]
  IN from[1]
Payloads(nals) ==
  {AnnexBOf(nals, lens) : lens \in {l \in [1 .. Len(nals) -> {0, 3, 4}] : \A i \in 2 .. Len(nals) : l[i] # 0}}
\* Key frames may carry their parameter set as well.
KeyPayloads ==
  LET nals == ParamNals(version) \o KeyNals IN
  Payloads(KeyNals) \cup {AnnexBOf(nals, [i \in 1 .. Len(nals) |-> 4])}

Delivers == session = "running" /\ frames < MaxFrames /\ frames' = frames + 1

\* The next video frame of a kind: ticks grow, or jump where the frame says so.
VideoTicks(disc) ==
  IF disc THEN videoTicks' \in 0 .. MaxTicks ELSE videoTicks' \in videoTicks + 1 .. MaxTicks

\* A parameter set, of the same version or a new one (a reconnect, a changed encoder);
\* only some of its units, perhaps.
SendsParamSet(v, nals) ==
  /\ Delivers
  /\ \/ nals = ParamNals(v) /\ paramSent' = TRUE
     \/ nals = Tail(ParamNals(v)) /\ paramSent' = FALSE
  /\ version' = v /\ keyDue' = TRUE
  /\ UNCHANGED <<codec, audio, session, videoTicks, audioTicks>>

SendsKey(disc) ==
  /\ Delivers
  /\ VideoTicks(disc) /\ keyDue' = FALSE
  /\ UNCHANGED <<codec, audio, session, version, paramSent, audioTicks>>

SendsDelta(disc) ==
  /\ Delivers /\ ~keyDue
  /\ VideoTicks(disc)
  /\ UNCHANGED <<codec, audio, session, version, paramSent, keyDue, audioTicks>>

SendsAudio ==
  /\ Delivers /\ audio # "none" /\ audioTicks < MaxTicks
  /\ audioTicks' = audioTicks + 1
  /\ UNCHANGED <<codec, audio, session, version, paramSent, keyDue, videoTicks>>

SendsUnknown ==
  /\ Delivers
  /\ UNCHANGED <<codec, audio, session, version, paramSent, keyDue, videoTicks, audioTicks>>
-----------------------------------------------------------------------------
(* Codecs. *)

\* The last unit of each type that a parameter set needs; <<>> unless all are there.
ParamSetIn(data) ==
  LET nals == splitAnnexB(data)
      of(t) == {i \in 1 .. Len(nals) : nalType(nals[i], codec) = t}
      last(t) == nals[CHOOSE i \in of(t) : \A j \in of(t) : j <= i]
  IN IF \E t \in ParamTypes(codec) : of(t) = {} THEN <<>>
     ELSE IF codec = "h264" THEN <<last(7), last(8)>> ELSE <<last(32), last(33), last(34)>>

\* A parameter set that is not announced, and one that is announced only if it
\* differs from the one before.
applyParamSet_Quiet(data) ==
  /\ videoCodec' = IF ParamSetIn(data) = <<>> THEN videoCodec ELSE ParamSetIn(data)
  /\ UNCHANGED codecDirty
applyParamSet_Changed(data) ==
  IF ParamSetIn(data) = <<>> THEN UNCHANGED <<videoCodec, codecDirty>>
  ELSE /\ videoCodec' = ParamSetIn(data)
       /\ codecDirty' = (codecDirty \/ videoCodec' # videoCodec)
\* applyParamSet (H.264 and H.265): an incomplete set is ignored.
applyParamSet(data) ==
  IF ParamSetIn(data) = <<>> THEN UNCHANGED <<videoCodec, codecDirty>>
  ELSE videoCodec' = ParamSetIn(data) /\ codecDirty' = TRUE

\* What each applied set sets along with the codec; 0 before the first.
videoClk        == IF videoCodec = <<>> THEN 0 ELSE VideoClk
nominalVideoDur == IF videoCodec = <<>> THEN 0 ELSE NominalDur

buildStreams(video, ready) == [video |-> video, audio |-> ready]

\* tryAudioFromStreamInfo: the session may not know the rate yet; AAC is not learnt here.
tryAudioFromStreamInfo ==
  \/ audio # "none" /\ audioClk' = AudioClk /\ audioReady' = (audio # "aac")
  \/ UNCHANGED <<audioClk, audioReady>>

\* tryAudioFromFrame: an AAC header may be malformed.
tryAudioFromFrame ==
  \/ audioClk' = AudioClk /\ audioReady' = TRUE
  \/ audio = "aac" /\ UNCHANGED <<audioClk, audioReady>>
-----------------------------------------------------------------------------
(* Time stamps. *)

\* Two's complement, and Go's division, which rounds towards zero.
Wrap(x) == ((x + Width \div 2) % Width) - Width \div 2
Quotient(x, y) == IF x >= 0 THEN x \div y ELSE - ((- x) \div y)

\* basePacket's DTS.  ticksToDTS_Narrow keeps half of the ticks' range.
ticksToDTS_Narrow(ticks, clk) == Quotient((ticks % ((MaxTicks + 1) \div 2)) * Second, clk)
ticksToDTS(ticks, clk) ==
  IF clk = 0 THEN 0 ELSE Quotient(Wrap(ticks * Second), clk)

\* videoDuration: the distance from the packet before, or the nominal duration.
videoDuration(dts) ==
  IF lastVideoDTS # NoDTS /\ Wrap(dts - lastVideoDTS.at) > 0 THEN Wrap(dts - lastVideoDTS.at) ELSE nominalVideoDur

audioDuration(dts, durationTicks) ==
  CASE audioClk' > 0 /\ durationTicks > 0 -> ticksToDTS(durationTicks, audioClk')
    [] lastAudioDTS # NoDTS /\ Wrap(dts - lastAudioDTS.at) > 0 -> Wrap(dts - lastAudioDTS.at)
    [] OTHER -> 0
-----------------------------------------------------------------------------
(* The loops of GetCodecs and ReadPacket around NextFrame. *)

Running == phase \in {"codecs", "reading"}

\* NextFrame returns a frame; the loop, or the owner's next call, starts over.
FrameComes == loopAt = "wait" /\ loopAt' = "check"

\* The context is not done: NextFrame is called.
Poll ==
  /\ Running /\ loopAt = "check" /\ ~ctxDone
  /\ loopAt' = "wait" /\ pkt' = NoPkt
  /\ UNCHANGED <<camVars, phase, ctxDone, demVars, announced, told>>

\* A loop that on a timeout waits on, without looking at the context.
NotReady_Waits ==
  /\ Running /\ loopAt = "wait" /\ session = "running"
  /\ UNCHANGED vars
\* No frame within the timeout.
NotReady ==
  /\ Running /\ loopAt = "wait" /\ session = "running"
  /\ loopAt' = "check"
  /\ UNCHANGED <<camVars, phase, ctxDone, demVars, outVars>>

Ends == Running /\ phase' = "failed" /\ loopAt' = "check" /\ pkt' = NoPkt

\* The context is done.
ContextDone ==
  /\ Ends /\ loopAt = "check" /\ ctxDone
  /\ UNCHANGED <<camVars, ctxDone, demVars, announced, told>>

\* A session that is stopped, or refused by the camera, ends a wait and both loops, a
\* stop that was only a pause too.
SessionError ==
  /\ Ends /\ loopAt = "wait" /\ session \in {"stopped", "refused"}
  /\ UNCHANGED <<camVars, ctxDone, demVars, announced, told>>
-----------------------------------------------------------------------------
(* GetCodecs. *)

InGetCodecs ==
  /\ phase = "codecs" /\ FrameComes
  /\ pkt' = NoPkt /\ UNCHANGED <<ctxDone, lastVideoDTS, lastAudioDTS>>

\* The first complete parameter set ends it; the parser may refuse the set.
GetCodecsParamSet(v) ==
  /\ InGetCodecs
  /\ \E nals \in {ParamNals(v), Tail(ParamNals(v))} : \E data \in Payloads(nals) :
       /\ SendsParamSet(v, nals)
       /\ \/ /\ applyParamSet(data)
             /\ IF audioReady THEN UNCHANGED <<audioClk, audioReady>> ELSE tryAudioFromStreamInfo
             /\ phase' = IF videoCodec' = <<>> THEN "codecs" ELSE "reading"
             /\ announced' = IF videoCodec' = <<>> THEN announced ELSE buildStreams(videoCodec', audioReady')
          \/ /\ ParamSetIn(data) # <<>>
             /\ phase' = "failed"
             /\ UNCHANGED <<videoCodec, codecDirty, audioClk, audioReady, announced>>
  /\ UNCHANGED told

\* The first audio frame may tell the codec; other frames are dropped.
GetCodecsOther ==
  /\ InGetCodecs
  /\ \/ /\ SendsAudio
        /\ IF audioReady THEN UNCHANGED <<audioClk, audioReady>> ELSE tryAudioFromFrame
     \/ /\ SendsUnknown \/ \E disc \in BOOLEAN : SendsKey(disc) \/ SendsDelta(disc)
        /\ UNCHANGED <<audioClk, audioReady>>
  /\ UNCHANGED <<phase, videoCodec, codecDirty, announced, told>>
-----------------------------------------------------------------------------
(* ReadPacket. *)

InReadPacket == phase = "reading" /\ FrameComes /\ UNCHANGED ctxDone

ReadParamSet(v) ==
  /\ InReadPacket /\ pkt' = NoPkt
  /\ \E nals \in {ParamNals(v), Tail(ParamNals(v))} : \E data \in Payloads(nals) :
       /\ SendsParamSet(v, nals)
       /\ \/ /\ applyParamSet(data)
             /\ told' = IF audioReady /\ told = 0 /\ ParamSetIn(data) # <<>> THEN 1 ELSE told
             /\ UNCHANGED phase
          \/ /\ ParamSetIn(data) # <<>>
             /\ phase' = "failed" /\ UNCHANGED <<videoCodec, codecDirty, told>>
  /\ UNCHANGED <<audioReady, audioClk, lastVideoDTS, lastAudioDTS, announced>>

VideoPacket(key, disc, nals, data) ==
  LET dts == ticksToDTS(videoTicks', videoClk) IN
  /\ pkt' = [idx |-> 0, key |-> key, disc |-> disc, dts |-> dts, dur |-> videoDuration(dts),
             of |-> nals, data |-> videoPayloadToAVCC(data, codec)]
  /\ lastVideoDTS' = DTS(dts)

\* A key frame announces the codecs if they may have changed.
ReadKey(disc) ==
  /\ InReadPacket
  /\ SendsKey(disc)
  /\ \E data \in KeyPayloads : VideoPacket(TRUE, disc, KeyNals, data)
  /\ announced' = IF codecDirty THEN buildStreams(videoCodec, audioReady) ELSE announced
  /\ codecDirty' = FALSE
  /\ told' = IF told = 1 THEN 2 ELSE told
  /\ UNCHANGED <<phase, videoCodec, audioReady, audioClk, lastAudioDTS>>

ReadDelta(disc) ==
  /\ InReadPacket
  /\ SendsDelta(disc)
  /\ \E data \in Payloads(DeltaNals) : VideoPacket(FALSE, disc, DeltaNals, data)
  /\ UNCHANGED <<phase, videoCodec, codecDirty, audioReady, audioClk, lastAudioDTS, announced, told>>

\* Audio of an unknown codec and, later, a malformed AAC frame are skipped; the
\* library may not know the number of samples.
ReadAudio ==
  /\ InReadPacket
  /\ SendsAudio
  /\ IF audioReady THEN UNCHANGED <<audioReady, audioClk>> ELSE tryAudioFromFrame
  /\ \/ /\ audioReady'
        /\ \E samples \in {0, 1} :
             LET dts == ticksToDTS(audioTicks', audioClk') IN
             /\ pkt' = [idx |-> 1, dts |-> dts, dur |-> audioDuration(dts, samples)]
             /\ lastAudioDTS' = DTS(dts)
     \/ /\ ~ audioReady' \/ (audioReady /\ audio = "aac")
        /\ pkt' = NoPkt /\ UNCHANGED lastAudioDTS
  /\ UNCHANGED <<phase, videoCodec, codecDirty, lastVideoDTS, announced, told>>

ReadUnknown ==
  /\ InReadPacket
  /\ SendsUnknown
  /\ pkt' = NoPkt
  /\ UNCHANGED <<phase, demVars, announced, told>>
-----------------------------------------------------------------------------
(* The owner's calls, which may come at any time, and the camera's refusal. *)

Cancel ==
  /\ ~ctxDone /\ phase # "closed"
  /\ ctxDone' = TRUE
  /\ UNCHANGED <<camVars, phase, loopAt, demVars, outVars>>

SetSession(s) ==
  /\ session' = s
  /\ UNCHANGED <<codec, audio, frames, version, paramSent, keyDue, videoTicks, audioTicks, loopAt, ctxDone, demVars, outVars>>

Pause   == session = "running" /\ phase # "closed" /\ SetSession("stopped") /\ UNCHANGED phase
\* Resume reconnects.
Resume  == session = "stopped" /\ phase # "closed" /\ SetSession("running") /\ UNCHANGED phase
Refused == session = "running" /\ phase # "closed" /\ SetSession("refused") /\ UNCHANGED phase
\* The owner closes the demuxer when its reader has returned.
Close   == phase = "failed" /\ SetSession("closed") /\ phase' = "closed"
-----------------------------------------------------------------------------
Next ==
  \/ \E v \in Versions : GetCodecsParamSet(v) \/ ReadParamSet(v)
  \/ GetCodecsOther \/ ReadAudio \/ ReadUnknown
  \/ \E disc \in BOOLEAN : ReadKey(disc) \/ ReadDelta(disc)
  \/ Poll \/ NotReady \/ ContextDone \/ SessionError
  \/ Cancel \/ Pause \/ Resume \/ Refused \/ Close

\* The reader calls again and its loop goes on; NextFrame returns after its timeout, or at
\* once when the session has ended.
Spec ==
  /\ Init /\ [][Next]_vars
  /\ WF_vars(Poll \/ ContextDone) /\ WF_vars(NotReady \/ SessionError)
-----------------------------------------------------------------------------
(* Properties. *)

\* A decoder set up from what the reader was told can decode each key frame: if the
\* camera sent the key frame's parameter set whole, the last announcement has it.
KeyDecodable ==
  pkt # NoPkt /\ pkt.idx = 0 /\ pkt.key /\ paramSent => announced.video = ParamNals(version)

\* An audio stream that was learnt only after GetCodecs had returned (AAC is never
\* known earlier unless a frame came before the parameter set) is announced with
\* the next parameter set's key frame, also when that set is not a new one.
LateAudioAnnounced == told = 2 => announced.audio

\* A sample holds all of the frame's units but the parameter sets, in order, each
\* behind its length, whichever start codes the camera used.
SampleWhole == pkt # NoPkt /\ pkt.idx = 0 => pkt.data = Packed(pkt.of, {})

\* Frame.PTSTicks, Frame.DTSTicks: the ticks are 64 bits wide and grow, and so does the
\* DTS of the packets, except where a packet is marked as a discontinuity.
DTSAdvances ==
  [][pkt' # pkt /\ pkt'.idx = 0 /\ lastVideoDTS # NoDTS => pkt'.disc \/ pkt'.dts > lastVideoDTS.at]_vars

\* A reader returns that was cancelled or whose camera refused the session, also when the
\* camera has gone silent, and wherever in the loop it is.
ReaderReturns == ctxDone \/ session = "refused" ~> ~Running
=============================================================================
