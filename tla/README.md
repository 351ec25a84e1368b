# A TLA+ model of vrtc's edge service

vrtc's edge service records RTSP cameras into fragmented-MP4 segments, keeps an
index of them in SQLite, deletes what its retention policies no longer cover,
and streams live and recorded video to browsers over WebSocket and HTTP. This
directory holds TLA+ modules of the parts of that service that carry state, the
TLC configurations that check them on small instances, and proofs, checked by
TLAPS, of what matters most for every instance.

Paths below are relative to the repository. Its SDK (relay hub, segment muxer,
chaining demuxer, packet buffer, MSE writer) is not part of it: what a module
says of the SDK is taken from how the code uses it, and marked external.

## 1. Inventory

| part | state | operations | interacts with |
|---|---|---|---|
| recording manager, `pkg/recorder/recorder.go` | active map, manager context, segment files, index rows | `Start`, `Stop`, `tick` and a goroutine per active schedule, muxer factory, `onClose`, `enforceRetention`, `deleteSegment` | schedule and channel providers, relay hub (calls it, and is called back), index, disk |
| retention evaluator, `pkg/recorder/retention.go` | none (pure) | `EvaluateRetention` | recording manager |
| recording index, `pkg/recorder/index_sqlite.go` | one database handle per channel, access times; rows on disk | `Insert`, `QueryByChannel`, `First/LastAvailable`, `Delete`, `SealInterrupted`, `Close` | recorder, retention, playback, timeline, all concurrently |
| playback resolution and segment source, `pkg/edgeview/stream.go` | `indexSource`: entries, cursor, seen set, gap tracking, whether the buffer was used | `ResolvePlaybackStart`, demuxer factory, `Next`, `OpenAt`, polls, live transition | index, segment files, packet buffer |
| WebSocket session, `pkg/edgeview/ws_stream.go` | the session's pipeline fields, sequence number and time of the last seek | play, pause, resume, seek, skip, stop; reader and handler goroutine | live hub, a playback hub per session, viewer count |
| HTTP stream endpoints, `pkg/edgeview/http_handler.go`, `ws_analytics.go`, `pkg/metrics/middleware.go` | the request's context, its place in the handler, a subscription | live and recorded fMP4, detections, the upgrade to a session | the same hubs and factories, viewer count, analytics hub |
| camera registry and API, `pkg/edgeview/http_cameras.go`, `stream.go` | camera map | upsert, delete, get, list by pages, CSV import | channel provider |
| channel providers, `pkg/channel` | a JSON file and its mutex, or a database | load, save, delete, list | recorder, registry, grabber factory |
| schedule providers, `pkg/schedule` | a JSON file or a database, read-only | list | recorder |
| RTSP grabber, `internal/avgrabber` | codec parameters, audio codec, last timestamps, session handle | `GetCodecs`, `ReadPacket`, `Pause`, `Resume`, `Close` | C library, relay hub |
| application, `internal/edge`, and metrics collector, `pkg/metrics` | what runs, the deferred stops, the snapshot loop | start, ordered shutdown, request timeout | everything |

The hard behaviours: goroutines of one tick and callbacks of the hub interleave
over the same rows and files; a crash can fall between any two writes to index
and disk; several index methods run in steps under different locks; a playback
session holds the result of a query while recorder and retention change what it
was about; a session's reader tears pipelines down and builds them up while the
handler, the client and the consumers may end at any time; camera requests
rewrite one file while others read it, and the process may end in between; a
camera sends parameter sets, key frames and audio in any order, with clocks that
jump.

What makes each part correct:

* recorder: a playable row has its footage; footage being written is never
  removed; a consumer is never lost; rotation is on time; a camera is recorded
  by its default schedule exactly when no explicit one covers it; tick and Stop
  end;
* retention: the caps are reached, with the oldest footage and no more than
  needed; tags only lengthen a segment's life; limited passes get there,
  past rows that cannot be removed;
* index: one handle per channel, a bounded number of them, a deletion that
  reports success is one; queries return the segments of the range in order;
* playback: segments in order, once each, none left out, gaps reported, what
  the index lacks is asked of the buffer, a follower catches up;
* sessions and streams: one pipeline at a time, all of it released however the
  request ends, answers in order, and an end;
* camera configuration: no save or delete lost in another, the file readable
  unless a fault hit it, memory and file in agreement;
* grabber: a decoder set up from what was announced can decode every key frame,
  samples are whole, time advances, a cancelled reader returns;
* application: a part finds what it calls running (at shutdown, samples for the metrics
  and what `Run` does not wait for apart), and termination ends.

`PROJECT.json` lists the components with those left out, and the hazards, each
at its line.

## 2. Modules

| module | models | checked by |
|---|---|---|
| `Recorder` | recording manager, with the rows and files it writes and the hub's consumers | `MCRecorder`; proofs in `RecorderProofs` |
| `SegmentLifecycle` | abstract: what the recorder promises about one segment | as property `FollowsLifecycle` of `Recorder`, and proved |
| `Retention` | `EvaluateRetention` and the passes over one channel | `MCRetention`; proofs in `RetentionProofs` |
| `IndexQuery` | rows of one channel and the text comparison of their times | itself; proofs in `IndexQueryProofs` |
| `RecordingIndex` | handles of the index under concurrent callers | `MCRecordingIndex`; proofs in `RecordingIndexProofs` |
| `Playback` | one playback session beside a recorder and its retention | itself; proofs in `PlaybackProofs` |
| `StreamSession` | one WebSocket session | through `HTTPStream` |
| `HTTPStream` | one request to any stream endpoint; extends `StreamSession` | `MCStreamSession`; proofs in `HTTPStreamProofs` |
| `CameraConfig` | file provider, camera registry and camera requests | through `EdgeApp` |
| `ChannelStore` | abstract: what a channel provider promises | as property `ImplementsStore` of `CameraConfig`, and proved |
| `EdgeApp` | start, shutdown and end of the process; extends `CameraConfig` | `MCEdgeApp`; proofs in `EdgeAppProofs` |
| `AnnexB` | the byte format of the grabber's video payloads | through `Grabber`; proofs in `GrabberProofs` |
| `Grabber` | the demuxer of a camera; extends `AnnexB` | itself; proofs in `GrabberProofs` |

**Recorder.** `pc` says where the manager loop (`Main`) and the goroutine of each
schedule are; `active`, `held` and `grip` are the handles in the map, taken out
to be closed, and being closed. `status` and `ending` are the index rows (a row
is named by schedule and start second, its path by its end second), `files` the
paths on disk. `hub` is the state of each consumer: it creates a file
(`OpenFile`), inserts the marker row (`MarkRecording`), and at the end renames
(`CloseSegment`) and inserts the final row (`PublishSegment`), each a step
because a crash or a retention pass may come between. A tick is `TickBegin`
(list, defaults, launch), the goroutines' `CheckDisk`, `Query`, `DeleteRow`,
`RemoveFile`, `DecideStart`/`DecideKeep`, `Rotate`, `Consume`, `Register`, then
`CollectStale` ... `TickEnd`. Which segments retention flags is left open (any
subset of the visible rows, within the batch limit), so what holds here holds
for every policy. I/O fails and the process crashes, up to a bound. The ring
buffer and the byte counters are left out; a size-based rotation may happen at
any tick.

**Retention.** Rows of one channel with size, bytes on disk and tags. An
interrupted row has size 0 although its file has bytes, as `SealInterrupted`
leaves it. The walk over the entries (`DropOldest`) is stated as what it
selects: an entry goes while those gone before it do not make up for the excess.
A pass is one step, whatever of it fails: the query, and there is no pass; the disk check,
and the free space is taken for unknown; the update of a row, which then stays with its
file while the next one's turn comes (`kept`); the removal of a file, whose bytes stay
on the disk without a row (`leftover`). Calls fail by chance, up to a bound (`faults`),
or every time, for the rows that are `damaged`.
The schedule providers in this repository do not carry retention fields, so a
policy reaches the manager only from another `ScheduleSource`.

**IndexQuery.** A time is a number of hundredths of a second; `TextRank` gives
the order of its RFC3339Nano text, which drops trailing zeros.

**RecordingIndex.** Each critical section of `getDB` is a step, each SQL statement
is one, and `Delete` goes through its snapshot handle by handle. The row of a
channel stands for the one the caller has queried.

**Playback.** Every index query and every file open is a step. The recorder has one
recording of the camera at a time; a crash comes before the session, since it
would end it. Requests and seeks start at times of `Starts`, and up to `MaxLost` segments
are corrupted or deleted. `shown` is what the session has played, `since` what it asked of
the packet buffer. In this repository `to` is the zero time in every call, and
`OpenAt` is called by the SDK's chaining demuxer.

**StreamSession.** `rpc` and `phase` are the two goroutines. `liveCons`, `recHubs`,
`recCons`, `paused` are the hubs' side, the fields the session's side; between
`Attach` and `Store` a consumer is in neither. The request context ends by the
router's 60 s timeout (`internal/edge/app.go`), not by a disconnect, because the
connection was taken over. `stop`'s calls are one step: it runs on the goroutine
that executes the seek, or after that goroutine has returned. `PlaysOnce` is the
protocol's rule that a client sends play once and first.

**HTTPStream.** `route` is the endpoint, `req` where its handler is; hubs, viewers,
error channel and context are `StreamSession`'s variables, so that a session is the
route `ws` once its upgrade is accepted (`InSession`). Refusals come first, the
deferred calls (`CloseHandle`, `Untrack`, `StopHub`, `Unsubscribe`) last and one by
one. For plain HTTP the context also ends with the connection (`ContextDone`); a
taken-over connection that nothing reads ends only by the timeout or a failing
write (`Forward`, `Quit`).

**CameraConfig.** `disk` is the file (missing, torn, or a list of channels), `mu` the
provider's mutex, `cameras` the view service's map, and each worker a goroutine
with a request. Load, truncation and write of `save` are three steps, the update of
`cameras` a fourth outside the mutex; readers look at `disk` whenever they like. A
channel is an id, a name and a site, which stands for what an import resets. In the
refinement `StoreView`, a file being written is still the table it was, a write is
the abstract save or delete, and a torn file nobody is writing is the lost table.

**EdgeApp.** `stage` is the next step of `Run`, `defers` its stack of deferred stops,
which is what unwinds after a failed start and after termination alike. Parts that
`Run` stops next to each other and that do not call one another are one entry.
`Calls` is who calls whom, through what it was given too: the samples that the hub's
demuxers, the recorder and the handlers hand to the collector and it to the metrics store,
the calls of the servers and their requests, and the health logger's. `Up` is what may
run; `Unprotected` names the calls the order of the deferred stops does not protect.
`Kill` ends all goroutines, at whichever step. The servers are stopped by a
goroutine nobody waits for.

**Grabber, AnnexB.** `Sends...` are the camera and the library, `Read...` and
`GetCodecs...` the demuxer's reaction, in the same step, since the demuxer keeps
nothing while it waits. Both loops poll: `Poll` is the check of the context and the call
of `NextFrame`, `NotReady` its return after 50 ms without a frame, `ContextDone` and
`SessionError` the two ways out, and `loopAt` where in its loop the reader is. A parameter set
also sets the video clock and the nominal duration; they are zero before the first one, and
every set of a camera gives the same values. Payloads are bytes: every mixture of three- and four-byte
start codes, a first unit without one, key frames with embedded parameter sets.
`Wrap` and `Quotient` give durations Go's 64-bit arithmetic, scaled to `Width`.
`announced` is what the consumer of packets knows, `told` observes whether audio
had its chance to be announced. Timing of single frames, statistics and the AAC
configuration are left out.

## 3. Runs

Every bound is a constant of the module (`Max...`, `Batch`, `Threshold`).
Deadlock is not checked where the clock, the segments or the commands run out.

| run | instance | shows |
|---|---|---|
| `recorder` | one camera, its default schedule (rotated by time) and an explicit one (rotated by size, retention on, both thresholds), two seconds, one fault, one crash | `TypeOK`, `VisibleHasFootage`, `OpenKeepsFile`, `NoLeakedConsumer`, `RotationOnTime`, `DefaultYields`, `OrphansOnlyAfterFaults` |
| `recorder_live` | the same, one crash, no fault, fair | `FollowsLifecycle` (refinement), `TickCompletes`, `StopCompletes` |
| `recorder_defaults` | one fault | violates `UncoveredKeepsRecording` |
| `retention` | three segments of two sizes with any tags, or interrupted; three days; three policies that combine tiers and caps; batches of two; one call failing by chance, one damaged row; fair | `GoalsReached`, `OldestAndNoMore`, `TagsNeverShorten`, `PassesConverge` |
| `index_query` | two rows, five times in two seconds, some with the same second | `QueryRightToTheSecond` |
| `index_handles` | two callers, two channels, threshold 1, two opens, one `Close` | `MapMatchesOpen`, `ThresholdHolds` |
| `index_delete` | the same without `Close` | violates `DeleteMarks` |
| `playback` | three segments in five time units, up to two of them lost; one crash, failed call or seek; starts at the first and the fourth unit, open and bounded, fair | `PlayedInOrder`, `NothingPassedOver`, `LaterGapsReported`, `BufferTakesOver`, `FollowCatchesUp`, `RequestSettles` |
| `session` | each of four routes with and without metrics; in a session four commands, sequence numbers up to 2, three time units, fair | `NothingLeft`, `OnePipeline`, `AnswersAdvance`, `RequestEnds` |
| `edge` | two lives of the process, two cameras, two workers, two requests, pages of one, fair | `TornOnlyByFaults`, `ListedAsStored`, `PagesCover`, `UsersStopFirst`, `ImplementsStore` (refinement), `NoFalseAbsence`, `RequestsAnswered`, `TerminationEnds` |
| `grabber` | five frames, two parameter sets, H.264 and H.265, three kinds of audio, fair | `KeyDecodable`, `LateAudioAnnounced`, `SampleWhole`, `DTSAdvances`, `ReaderReturns` |
| `grabber_overflow` | the same with 32 values of a duration instead of 256, four ticks | violates `DTSAdvances` |

Why the bounds are enough for what is asked: two seconds give the recorder a tick
with a recording to rotate, close or leave alone and a segment from the
incarnation before the crash; two schedules on one camera are the least with two
concurrent passes over the same rows. Three segments are the least for a gap
after the first transition, a segment removed between two others, and for a
storage cap that gives up one entry, keeps one and has one expired; a batch of two
holds one damaged row and one behind it that must go all the same. Five time units are the
least in which a gap comes between the second and the third segment while the follower has
not sought: four hold three segments only end to end. Two callers
are the least for a race of handles, and threshold 1 makes each second channel
evict. Four commands hold a play, a pause or seek, a repeated and a newer seek.
Two requests are the least that race for a file, two lives the least in which one
finds what another left torn, and a page of one makes two cameras two pages. Five
frames hold a parameter set, a key frame, audio, a new parameter set and its key
frame; 256 values are more than the products of three ticks need, 32 fewer than
those of four do.
The safety properties do not rest on these bounds: section 4 proves them for all.
`RecordingIndex` is checked up to a permutation of callers and of channels, which
no definition tells apart; runs with liveness use no symmetry.

**Fairness.** `Recorder`: goroutines that can run do run, the hub ends the
consumers it was told to close, and the loop's `select`, which Go resolves at
random, does not take the tick for ever when the context is cancelled (strong
fairness of `StopAll`). The loop is not assumed to start a tick, nor a consumer to
end by itself. `Retention`: the pass of every tick runs. `Playback`: the session's
goroutine runs and a segment that plays comes to an end; neither the recorder nor
the clock is assumed to go on. `HTTPStream`: handler and
session goroutines run, and hub and index calls return; nothing is assumed of the
client. The timeout is assumed to fire for the analytics route only, which has no
other way to learn of a client that left. `EdgeApp`: the main goroutine, snapshots
and requests go on, and the snapshot loop's `select` does not take its ticker for
ever once it is cancelled (strong fairness of `EndSnapshots`); nothing is assumed of
the goroutine that stops the servers, which may wait for an ingestion client.
`Grabber`: the reader's loop goes on, from the check of the context into `NextFrame`
or out, and `NextFrame` returns, after its 50 ms without a frame or because the session has
ended; the camera may stay silent, and fairness names no single way out of the loop.

### What the violations show

* `recorder_defaults` (`recorder.go:802`): when `ListChannels` fails,
  `appendDefaults` adds nothing, and the tick closes every default recording as
  stale. The next tick starts them again; the footage in between is lost.
* `index_delete` (`index_sqlite.go:289`): `Delete` tries only open databases and
  returns nil when none has the row. If the channel's database was evicted after
  the query, the row stays visible, and `deleteSegment` goes on to remove the file.
* `grabber_overflow` (`demuxer.go:266`): ticks times 10^9 wrap after about 28 hours at
  90 kHz; the DTS then falls without a discontinuity.

### Divergences seen while modelling, without a run

* `recorder.go:716` says that an orphan file "will be cleaned up by the next
  retention pass"; passes take their candidates from `QueryByChannel`, which leaves
  deleted rows out. `OrphansOnlyAfterFaults` shows when orphans can arise.
* `index_sqlite.go:536`: `getDB` may hand out a handle evicted between the read lock
  of its lookup and the write lock that notes the access; the statement then fails
  with "database is closed".
* `index_sqlite.go:464`: a channel whose first segment is being recorded is reported
  as `ErrAllCorrupted`.
* `index_sqlite.go:99`: within a second, rows are not in start order.
* `retention.go:70` counts interrupted segments with size 0 towards the "hard cap";
  `retention.go:128` lets a tagged tier shorter than `ContinuousDays` win over it;
  `recorder.go:696` does not lift the batch limit when no byte is free.
* `recorder.go:719`: a row whose update fails stays, and the next pass lists it again. If
  the oldest flagged rows are of this kind and fill a batch (10), each pass tries the same
  ones, and nothing behind them is ever deleted unless the disk gets critically low.
  `PassesConverge` and `PassesDelete` say that fewer than a batch do no harm; with
  `MaxDamaged` equal to `Batch` and without that condition TLC finds the passes stuck.
* `stream.go:381`: no gap is reported before the second segment of a session, since
  the factory leaves `lastSegEnd` zero. Interrupted segments are passed over by
  every query with a start. At the live transition the part of the segment in
  progress that has left the 30 s buffer is not played.
* `ws_stream.go:566`: a skip starts from the last seek, not from the current
  position; `ws_stream.go:617`: media may precede the `seeked` answer;
  `ws_stream.go:627`: the first seek of a session never reports a codec change.
* `stream.go:275`: an interrupted row has no end time; if it is the latest, every
  requested start is after it and resolves to live, though the comment at
  `stream.go:253` speaks of a start after all recordings.
* `ws_stream.go:355`, `stream.go:324`: a second play command overwrites handle and
  untrack function of the first, whose viewer is counted for ever (`PlaysOnce`).
* `docs/recorded-view-flow-audit.md:59`: HTTP streams end after 60 s, not only on
  disconnect or error; the router's timeout (`app.go:245`) ends sessions as well.
* `pkg/metrics/middleware.go`: the recorder around the response has neither `Hijack`
  nor `Unwrap`. With the metrics store open, `websocket.Accept` answers 501 where the
  API documents 101 (`AcceptStatus`), and `w.(http.Flusher)` fails, so that fMP4 over
  HTTP is never flushed.
* `pkg/channel/file.go:57`: a wrapped error is tested with `os.IsNotExist`, so the first
  save on a missing file fails, although a comment there means to start with an empty
  list. A torn file stays so: every later load fails, a save's too.
* `http_cameras.go:122`: an upsert and a delete of one camera at the same time can leave
  memory and file different until a restart; `ListedAsStored` leaves such cameras
  (`raced`) out. An import puts a camera at site 1 and drops its other extra fields.
* `ListCameras` walks a Go map: its pages come in an order of their own each time, and
  a client that reads several may miss a camera. The pages checked by `PagesCover` are
  those of `/api/cameras/config`, which follow the file.
* `app.go:326`: `Run` does not wait for the HTTP server's shutdown: an orderly
  termination can tear the camera file, and requests may still run on closed stores, nor
  does it wait for the health logger. `app.go:225` and `app.go:230` stop the collector and
  close the metrics store before `app.go:153` and `app.go:168` stop recorder and hub,
  though both hand samples to the collector (`app.go:138`, `app.go:229`) and it to the store.
  `UsersStopFirst` excepts these calls while the deferred stops run, and no others.
  `app.go:117`: the collector's closure reads variables `Run` assigns later, without
  synchronisation.
* `demuxer.go:198`: audio that is learnt from a frame after `GetCodecs` is announced only
  with the key frame after the next parameter set; packets of it may come before. The
  last DTS is kept across a discontinuity. A paused session ends its reader. A camera
  without parameter sets (MJPEG) never leaves `GetCodecs`.
* `convert.go`: SEI units stay in the sample, though a comment speaks of slices only; a
  payload of nothing but start codes becomes a unit.
* The timeline lists segments, though its documentation speaks of contiguous periods.

## 4. Proofs

The theorems hold for every value of the constants: any cameras, schedules,
callers, workers, segments and commands, any clock, and any number of faults and
crashes. Each rests on an inductive invariant `...Inv`, proved of the initial states
and then preserved action by action; TLC checked each invariant on the module's
instance before it was proved.

| module | theorem | states | under |
|---|---|---|---|
| `RecorderProofs` | `TypeCorrect` | `TypeOK` | |
| | `FootageCorrect` | `VisibleHasFootage` | `DistinctDirs` |
| | `OpenFileCorrect` | `OpenKeepsFile` | `DistinctDirs` |
| | `NoConsumerLeaks` | `NoLeakedConsumer` | |
| | `RotatesOnTime` | `RotationOnTime` | |
| | `DefaultGivesWay` | `DefaultYields` | |
| | `LifecycleFollowed` | `FollowsLifecycle`, a refinement | `DistinctDirs` |
| | `NoOrphans` | `OrphansOnlyAfterFaults` | `DistinctDirs` |
| `RetentionProofs` | `CapsMeetTheirGoals` | `GoalsReached` | |
| | `CapsSpareWhatTheyCan` | `OldestAndNoMore` | |
| | `TagsOnlyProlong` | `TagsNeverShorten` | |
| | `PassesDelete` | a pass leaves fewer rows | an undamaged row is flagged, damaged rows do not fill a batch, no call fails by chance |
| `IndexQueryProofs` | `QueriesRight` | `QueryRightToTheSecond` | |
| `RecordingIndexProofs` | `MapAndOpenAgree` | `MapMatchesOpen` | |
| | `EvictionBounds` | `ThresholdHolds` | |
| `PlaybackProofs` | `PlaysInOrder` | `PlayedInOrder` | |
| | `PassesNothingOver` | `NothingPassedOver` | |
| | `ReportsGaps` | `LaterGapsReported` | |
| | `BufferContinues` | `BufferTakesOver` | |
| `HTTPStreamProofs` | `SeeksAnsweredInOrder` | `AnswersAdvance` | |
| | `OnePipelineAtATime` | `OnePipeline` | `Protocol` |
| | `NothingIsLeft` | `NothingLeft` | `Protocol` |
| `EdgeAppProofs` | `StopsInOrder` | `UsersStopFirst` | |
| | `TornByFaultsOnly` | `TornOnlyByFaults` | |
| | `FileIsAStore` | `ImplementsStore`, a refinement | |
| | `AbsenceIsTrue` | `NoFalseAbsence` | |
| | `ListFollowsFile` | `ListedAsStored` | |
| | `PagesAreComplete` | `PagesCover` | |
| `GrabberProofs` | `LateAudioIsAnnounced` | `LateAudioAnnounced` | |
| | `KeysAreDecodable` | `KeyDecodable` | |
| | `SplitRoundTrip` | `splitAnnexB(AnnexBOf(nals, lens)) = nals` | clean units |
| | `SamplesAreWhole` | `SampleWhole` | |
| | `DTSAlwaysAdvances` | `DTSAdvances` | `NoOverflow` |

**Assumptions.** Each module names what it assumes of its constants
(`ConstantsAssumption`, `IndexAssumption`, `PlaybackAssumption`, `SessionAssumption`,
`ConfigAssumption`, `InputsAssumption`, `RetentionAssumption`, `QueryAssumption`,
`ClockAssumption`, `VersionAssumption`), and TLC evaluates it on the instance: bounds are
numbers, names of different kinds differ, the file at the start lists no camera twice, a
pass may delete at least one segment, no time is zero (zero is "unbounded" to a query), a
clock is not faster than `time.Second`, the byte that tells parameter sets apart and ends
them is not zero (`rbsp_trailing_bits` ends every unit with a set bit). Some theorems need
more:

* `DistinctDirs`: no two schedules of a channel share a storage path. The code does not
  enforce it, and without it the claims are false: two segments that start in the same
  second would share a file.
* `Protocol`: the client sends play once and first (`PlaysOnce`), the rule of the
  protocol. The code does not enforce it either, and a second play leaks a viewer
  (section 3, divergences).
* `NoOverflow`: ticks times `time.Second` fit a `time.Duration`. Run `grabber_overflow`
  shows what happens beyond.
* `SplitRoundTrip` is about clean units: not empty, without a start code inside, not
  ending with a zero byte. Annex B demands this of an encoder (emulation prevention,
  trailing bits); the model's units are clean (`UnitsSent`), so `KeysAreDecodable` and
  `SamplesAreWhole` do not assume it.

**Recorder, footage** (`RecorderInv`). Neither footage property is inductive: that a row
has its file says nothing of a pass that has already marked the row and is about to remove
the file, or of a consumer about to insert a row for the file it has just renamed. The
invariant adds what they rest on:

* `TypeInv`: types; a pass was announced before it queries; a consumer that
  writes has a segment;
* `ControlInv`: what the manager's position says of its goroutines;
* `OwnerInv`, `FreshInv`: a segment has one writer, and a row or file exists only
  for segments already started, so a new segment never meets an old file;
* `WriterInv`: from creation to insert, the file is there under the name the
  consumer knows, and its row is absent or still recording;
* `DeleteInv`: what a pass is about to remove is a row it has marked deleted, and
  what it has listed is not being written;
* `FileInv`: a visible or recording row has its file, if need be under the final
  name.

Steps that leave rows, files and consumers alone share the lemma `FootageFrame`, and
`PathInj` says that, with `DistinctDirs`, different segments have different paths.
Deletion is taken as the atomic update that `RecordingIndex.Delete` promises; run
`index_delete` shows where the SQLite index breaks that promise, and there the footage
property fails with it.

**Recorder, ticks** (`TickInv`). What holds between ticks is a fact about what each
goroutine left when it returned: `DueInv`, its recording was young enough; `BusyInv`, a
goroutine between close and register has no entry in the active map, so that its new
handle replaces none; `HeldInv`, handles are out of the map only while they are closed;
`YieldInv`, a tick has no default schedule beside an explicit one.

**Recorder, lifecycle.** `LifeStep` maps each action to one step of `SegmentLifecycle` or
none, from `RecorderInv`. `NoOrphans` follows every file to whoever names it: a row, a
consumer, or the goroutine removing it (`NamedInv`). It needs that without a fault the
marker row is there while the file is open, and the working name gone after the rename
(`MarkerInv`), that a victim belongs to an actor that is removing it (`VictimInv`), and
that a consumer's name is used once (`ConsumerInv`).

**Retention** (`RowsInv`). The invariant holds types only: whatever rows a channel has, what is
proved is about one evaluation or one pass. What the caps select rests on running sums. `TotalRuns` gives
the sum over the first rows of a list, `TotalAdds` splits a sum over disjoint sets, and
`WalkDrops` says what the walk of `DropOldest` leaves: it takes a prefix of the entries not
yet gone, and when it stops, what it took makes up for the excess and did not without its
last one. `CapsReached` and `CapsSpare` put the two caps after each other, where the second
starts from what the first has flagged. `TagsOnlyProlong` compares `TierDays` of an entry
with fewer tags, tier by tier. `PassesDelete` is the safety half of `PassesConverge`: the
oldest undamaged row among the flagged has only damaged ones before it, which are fewer than
a batch, so the batch reaches it (`BatchReaches`), its update does not fail, and the rows
become fewer (`WithoutShortens`); only finitely many such passes can come in a row.

**Index queries** (`QueryInv`). `TextOrder`: comparing RFC3339Nano texts is comparing seconds
first, and within a second a total order, although not that of the fractions
(`RankInjective`). A query's result is chosen as a sorted list of the matching rows;
`ListExists` shows that one exists for any finite set, since a least set without one would
have, without its greatest row, one that extends to it.

**Index handles** (`IndexInv`). `Accessed`, an open database has an access time, is what keeps
eviction from overlooking one; `EvictionBounds` is a theorem about steps, from the
loop of `evictIdleLocked`.

**Playback** (`PlayInv`). The queries that make up a session's list are made at different
times, while rows are added, completed and deleted. `EntriesInv` says that the list is
ordered, that everything in it was seen, and that no wanted row below an entry is missing:
a row can only become playable above all the others, because recordings of one camera are
disjoint intervals in start order and only the last is still open (`RowsInv`). The lemmas
`...Grows` say this of each step of recorder and retention, `MergeKeeps` that merging a
further result keeps the list without holes. `ShownInv` ties what was played to the
entries before the cursor, `WaitInv` the time after which a poll asks to the end of the
last entry, `GapInv` `lastSegEnd` to the end of the segment played last. That a query's
result exists and is sorted is proved from the least element of a set of naturals
(`LeastElement`, `OrderExists`, `SortedIsOrdered`).

**Sessions and requests** (`StreamInv`, `SeekInv`). `PipelineInv`: a live consumer or a
playback hub, not both; `FieldInv`: the pipeline is the one the session's fields name, but
for a live consumer returned and not yet stored, and the one reader executes no other
command in between; `RouteInv`: what a plain handler holds between two of its deferred calls;
`RestInv`: nothing before the session starts. `SeekInv`: the seek being executed is the
newest, and newer than the last one answered.

**Camera configuration** (`ConfigInv`). `MutexInv`: whoever loads, truncates or writes
holds the mutex, and the file is torn exactly between truncation and write;
`BufferInv`: what is about to be written is the file's content with this one change, which
is what makes the write an abstract save or delete. The lemmas on `Saved` and `Deleted`
say what they do to the table a list stands for and that no camera comes to be listed
twice, on which `PagesAreComplete` rests (`PageInv`: the pages read are a prefix of the
file). `ListInv` says how a camera between write and apply differs from the list in
memory, with `RaceInv` for the ones two requests changed at once and `ServersInv` for
when requests are served.

**Application** (`DeferInv`, `SnapInv`). The stack of deferred stops is one of nine, given
by the stage; whatever is left on it finds what it calls on it too, samples apart
(`StackClosed`), and while requests are served everything is (`ServingComplete`); a snapshot runs only while nothing it reads
has been stopped.

**Grabber, announcements and time** (`AudioInv`, `CodecInv`, `DTSInv`). `AudioInv`: audio known
when a parameter set comes is pending until its key frame. `CodecInv`: what the demuxer has
is announced or marked dirty. `DTSInv`: the last DTS is that of the camera's ticks;
`TicksAdvance` carries the order of ticks through Go's multiplication and division.

**Grabber, bytes** (`SampleInv`). A payload is a layout: unit `i` lies behind the first
`at[i]` bytes and its start code (`PayloadLaid`). `NoCodeInUnit` is the heart of the round
trip: no start code begins inside a clean unit or reaches from its end into the next start
code, because a unit does not end with a zero byte; so `splitAnnexB`, standing at the start
of a unit, next finds the code that `AnnexBOf` put behind it, of the length it put there
(`CodeFound`, `SplitLaid`). From there `PackedTail` says that units which are skipped leave
no trace, and `ParamUnits` that exactly the parameter sets are skipped. `SetsAreRead`, that a
whole parameter set is found and a part of one is not, makes `KeysAreDecodable` a theorem
about the parser and the order of frames together.

**Recursion without induction theorems.** The library's induction theorems take the
proposition as an operator, which the provers cannot instantiate. Where a recursive function
or a sum is computed, the proofs say instead that a set of numbers has a least element
(`LeastElement`, from `NatLessThanWellFounded`): the least, or greatest, index at which a
claim fails has a neighbour at which it holds (`CountingUp`, `CountingDown`). That the
recursive function exists at all is proved the same way (`RunExists`, `KeptExists`,
`WalkExists`, `JoinExists`).

**Only model-checked:** liveness under fairness, which the prover does not handle:
`TickCompletes`, `StopCompletes`, `PassesConverge`, `FollowCatchesUp`, `RequestSettles`,
`RequestEnds`, `RequestsAnswered`, `TerminationEnds`, `ReaderReturns`. Every safety property a
passing run checks is also a theorem.

## 5. Not modelled

* The SDK and the C library, beyond how the code uses them; media beyond the framing
  of video units; the AAC configuration.
* JSON, timeline and analytics query endpoints: they keep no state and pass a query
  to the index, the hub or a reader. The paging they share is `CameraConfig.Page`.
* Schedule providers: read-only, and `Recorder` lets each tick see any schedules.
* Metric samples, health log, configuration, logging, API export, tools, the cloud
  stub: no state that the rest reads.
* The browser client, except as one that sends any commands.
* `InsertSeekEntries`, `SeekInSegment` and `Vacuum` of the index, which have no caller.

## 6. Plan

Done: the modules above, and the theorems of section 4. Next, most important first:

1. `Playback` with overlapping recordings of two schedules, where `RowsInv` no longer
   holds and `EntriesInv` has to be stated by start time.
2. `HTTPStream` without `Protocol`: which properties survive a second play command.
3. `Recorder` without `DistinctDirs`: what is left of the footage of two schedules that
   share a directory.
4. The safety halves of the remaining liveness properties, as `PassesDelete` is of
   `PassesConverge`: a measure that each step of a fair action decreases.
