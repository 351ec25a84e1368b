------------------------------ MODULE Recorder ------------------------------
(***************************************************************************)
(* The recording manager (pkg/recorder/recorder.go) together with the      *)
(* rows it keeps in the recording index and the segment files on disk.     *)
(*                                                                         *)
(* A manager loop ticks.  A tick lists the schedules, adds a default one   *)
(* for every camera no schedule covers, processes the active schedules     *)
(* concurrently (one goroutine each: disk check, retention, start,         *)
(* rotation), closes the recordings whose schedule went away and runs      *)
(* retention.  The relay hub (a library) runs the consumers: it opens a    *)
(* segment file, writes it and closes it through the manager's callbacks.  *)
(* The process may crash between any two steps; rows and files survive.    *)
(***************************************************************************)
EXTENDS Naturals, FiniteSets

CONSTANTS
  Channels,    \* cameras; the default schedule of a camera has its name
  Explicit,    \* schedules of the schedule provider
  Main,        \* the manager goroutine
  NoCons,      \* no consumer
  NoSeg,       \* no segment
  ChannelOf,   \* the channel of each explicit schedule
  Storage,     \* the StoragePath of each schedule
  Timed,       \* schedules with SegmentMinutes > 0
  Sized,       \* schedules with SegmentSizeMB > 0
  Retaining,   \* schedules with a retention policy
  LowFree,     \* schedules with LowFreeGB > 0
  MinFree,     \* schedules with MinFreeGB > 0
  SegmentTime, \* SegmentMinutes, in clock units
  Batch,       \* segments one retention pass deletes at most (10)
  MaxClock,    \* bound: the clock stops here
  MaxFaults,   \* bound: failed I/O operations in a behaviour
  MaxCrashes   \* bound: crashes in a behaviour

Scheds == Explicit \cup Channels
Actors == Scheds \cup {Main}
Times  == 1 .. MaxClock

\* A segment (and its index row) is named by its schedule and its start, a
\* consumer by its schedule and the tick that created it.
Segs  == Scheds \X Times
Conss == Scheds \X Times

ASSUME ConstantsAssumption ==
  /\ Explicit \cap Channels = {}
  /\ Main \notin Scheds
  /\ NoCons \notin Conss /\ NoSeg \notin Segs
  /\ ChannelOf \in [Explicit -> Channels]
  /\ Timed \subseteq Scheds /\ Sized \subseteq Scheds
  /\ Retaining \subseteq Scheds /\ LowFree \subseteq Scheds /\ MinFree \subseteq Scheds
  /\ SegmentTime \in Nat \ {0} /\ Batch \in Nat
  /\ MaxClock \in Nat \ {0} /\ MaxFaults \in Nat /\ MaxCrashes \in Nat

Chan(s) == IF s \in Channels THEN s ELSE ChannelOf[s]

\* SegmentPath and SegmentPathFinal: storage path, channel, start second and,
\* once the segment is final, end second (0 for the working name).
SegmentPath(s, start, end) == <<Storage[s], Chan(s), start, end>>
Paths == {SegmentPath(s, t, e) : s \in Scheds, t \in Times, e \in 0 .. MaxClock}

VARIABLES
  clock,       \* seconds
  ctxDone,     \* Stop cancelled the manager's context
  halting,     \* the manager is in stopAll
  pc,          \* where the manager and each schedule's goroutine are
  cameras,     \* the channel provider's cameras
  tickNow, tickScheds, tickRunning,   \* locals of tick
  active,      \* rm.active: schedule -> tick of its consumer, 0 if none
  held,        \* handles the manager has taken out of active to close
  grip,        \* the handle an actor is closing
  passes,      \* retention passes a disk check still has to make
  todo,        \* schedules the tick still has to enforce retention for
  doomed,      \* segments an actor's retention pass still has to delete
  victim,      \* segment whose file the actor is about to remove
  status,      \* index: status of each row, "none" if there is no row
  ending,      \* index: end second in the row's file path, 0 if working name
  files,       \* paths present on disk
  hub,         \* state of each consumer
  quit,        \* consumers told to close, or dead
  seg,         \* start of the segment a consumer writes
  out,         \* end second in the name onClose gave the file
  lastStart,   \* start of the schedule's latest segment
  faults, crashes

managerVars == <<ctxDone, halting, tickNow, tickScheds, tickRunning, active, held, todo>>
passVars    == <<passes, doomed, victim>>
rowVars     == <<status, ending>>
hubVars     == <<hub, quit, seg, out, lastStart>>
budgetVars  == <<clock, faults, crashes>>
vars == <<managerVars, pc, grip, passVars, rowVars, files, hubVars, budgetVars, cameras>>

Statuses == {"none", "recording", "complete", "corrupted", "interrupted", "deleted"}
HubStates == {"off", "create", "mark", "open", "insert"}
WorkerPcs == {"idle", "disk", "query", "delete", "remove", "decide", "closing",
              "consume", "register"}
MainPcs == {"down", "idle", "process", "stale", "closing", "retain", "delete",
            "remove", "stopped"}

TypeOK ==
  /\ clock \in Times /\ faults \in 0 .. MaxFaults /\ crashes \in 0 .. MaxCrashes
  /\ ctxDone \in BOOLEAN /\ halting \in BOOLEAN
  /\ pc \in [Actors -> WorkerPcs \cup MainPcs]
  /\ \A s \in Scheds : pc[s] \in WorkerPcs
  /\ pc[Main] \in MainPcs
  /\ cameras \in SUBSET Channels
  /\ tickNow \in 0 .. MaxClock
  /\ tickScheds \in SUBSET Scheds /\ tickRunning \in SUBSET tickScheds
  /\ active \in [Scheds -> 0 .. MaxClock]
  /\ held \in SUBSET Conss
  /\ grip \in [Actors -> Conss \cup {NoCons}]
  /\ passes \in [Scheds -> 0 .. 3]
  /\ todo \in SUBSET Scheds
  /\ doomed \in [Actors -> SUBSET Segs]
  /\ victim \in [Actors -> Segs \cup {NoSeg}]
  /\ status \in [Segs -> Statuses]
  /\ ending \in [Segs -> 0 .. MaxClock]
  /\ files \in SUBSET Paths
  /\ hub \in [Conss -> HubStates]
  /\ quit \in SUBSET Conss
  /\ seg \in [Conss -> 0 .. MaxClock]
  /\ out \in [Conss -> 0 .. MaxClock]
  /\ lastStart \in [Scheds -> 0 .. MaxClock]

Init ==
  /\ clock = 1 /\ faults = 0 /\ crashes = 0
  /\ ctxDone = FALSE /\ halting = FALSE
  /\ pc = [a \in Actors |-> IF a = Main THEN "down" ELSE "idle"]
  /\ cameras = Channels
  /\ tickNow = 0 /\ tickScheds = {} /\ tickRunning = {}
  /\ active = [s \in Scheds |-> 0]
  /\ held = {} /\ todo = {}
  /\ grip = [a \in Actors |-> NoCons]
  /\ passes = [s \in Scheds |-> 0]
  /\ doomed = [a \in Actors |-> {}]
  /\ victim = [a \in Actors |-> NoSeg]
  /\ status = [r \in Segs |-> "none"]
  /\ ending = [r \in Segs |-> 0]
  /\ files = {}
  /\ hub = [c \in Conss |-> "off"]
  /\ quit = {}
  /\ seg = [c \in Conss |-> 0]
  /\ out = [c \in Conss |-> 0]
  /\ lastStart = [s \in Scheds |-> 0]

RowPath(r) == SegmentPath(r[1], r[2], ending[r])

\* An I/O operation fails, within the bound.
Fails == faults < MaxFaults /\ faults' = faults + 1
Goto(a, next) == pc' = [pc EXCEPT ![a] = next]
-----------------------------------------------------------------------------
(* The environment. *)

Elapse ==
  /\ clock < MaxClock
  /\ clock' = clock + 1
  /\ UNCHANGED <<managerVars, pc, grip, passVars, rowVars, files, hubVars, faults, crashes, cameras>>

\* A camera is added to or removed from the channel provider.
EditCameras(c) ==
  /\ cameras' = IF c \in cameras THEN cameras \ {c} ELSE cameras \cup {c}
  /\ UNCHANGED <<managerVars, pc, grip, passVars, rowVars, files, hubVars, budgetVars>>
-----------------------------------------------------------------------------
(* Start, Stop, crash. *)

\* A seal that takes every row that is not complete.
SealInterrupted_All == [r \in Segs |-> IF status[r] \in {"none", "complete"} THEN status[r]
                                      ELSE "interrupted"]
SealInterrupted == [r \in Segs |-> IF status[r] = "recording" THEN "interrupted" ELSE status[r]]

\* Start: seal the rows a previous run left open (an error is logged and
\* start goes on), then launch the loop.
Start ==
  /\ pc[Main] = "down"
  /\ \/ status' = SealInterrupted /\ UNCHANGED faults
     \/ Fails /\ UNCHANGED status
  /\ Goto(Main, "idle")
  /\ UNCHANGED <<managerVars, grip, passVars, ending, files, hubVars, clock, crashes, cameras>>

\* Stop: cancel the loop's context.
Stop ==
  /\ pc[Main] \notin {"down", "stopped"}
  /\ ~ctxDone
  /\ ctxDone' = TRUE
  /\ UNCHANGED <<halting, tickNow, tickScheds, tickRunning, active, held, todo, pc, grip,
                 passVars, rowVars, files, hubVars, budgetVars, cameras>>

\* The process dies, or exits after Stop: what it held in memory is lost.  An
\* exit that cuts a consumer's close short counts as a crash.
Crash ==
  /\ pc[Main] # "down"
  /\ IF pc[Main] = "stopped" /\ \A c \in Conss : hub[c] = "off"
     THEN UNCHANGED crashes
     ELSE crashes < MaxCrashes /\ crashes' = crashes + 1
  /\ pc' = [a \in Actors |-> IF a = Main THEN "down" ELSE "idle"]
  /\ ctxDone' = FALSE /\ halting' = FALSE
  /\ tickScheds' = {} /\ tickRunning' = {}
  /\ active' = [s \in Scheds |-> 0]
  /\ held' = {} /\ todo' = {}
  /\ grip' = [a \in Actors |-> NoCons]
  /\ passes' = [s \in Scheds |-> 0]
  /\ doomed' = [a \in Actors |-> {}]
  /\ victim' = [a \in Actors |-> NoSeg]
  /\ hub' = [c \in Conss |-> "off"]
  /\ quit' = {}
  /\ seg' = [c \in Conss |-> 0]
  /\ out' = [c \in Conss |-> 0]
  /\ UNCHANGED <<tickNow, rowVars, files, lastStart, clock, faults, cameras>>
-----------------------------------------------------------------------------
(* The tick. *)

\* appendDefaults without its look at the covered channels.
Defaults_All(listed) == cameras
\* appendDefaults: a schedule for every camera no listed schedule covers.
Defaults(listed) == {c \in cameras : \A s \in listed : ChannelOf[s] # c}

\* tick lists the schedules; those in their time window run, and a goroutine
\* starts for each.  A failed ListSchedules ends the tick with nothing done; a
\* failed ListChannels adds no defaults.  Default schedules are always active.
TickBegin ==
  /\ pc[Main] = "idle"
  /\ clock > tickNow
  /\ \E listed \in SUBSET Explicit : \E inWindow \in SUBSET listed :
     \E defaults \in {Defaults(listed), {}} :
       /\ IF defaults = Defaults(listed) THEN UNCHANGED faults ELSE Fails
       /\ tickScheds' = listed \cup defaults
       /\ tickRunning' = inWindow \cup defaults
       /\ pc' = [a \in Actors |->
                   IF a = Main THEN "process"
                   ELSE IF a \notin inWindow \cup defaults THEN "idle"
                   ELSE IF a \in LowFree \cup MinFree THEN "disk" ELSE "decide"]
  /\ tickNow' = clock
  /\ UNCHANGED <<ctxDone, halting, active, held, todo, grip, passVars, rowVars, files,
                 hubVars, clock, crashes, cameras>>

\* All goroutines returned: take the recordings whose schedule is not running
\* out of the active map.
CollectStale ==
  /\ pc[Main] = "process"
  /\ \A s \in Scheds : pc[s] = "idle"
  /\ held' = {<<s, active[s]>> : s \in {x \in Scheds \ tickRunning : active[x] # 0}}
  /\ active' = [s \in Scheds |-> IF s \in tickRunning THEN active[s] ELSE 0]
  /\ Goto(Main, "stale")
  /\ UNCHANGED <<ctxDone, halting, tickNow, tickScheds, tickRunning, todo, grip, passVars,
                 rowVars, files, hubVars, budgetVars, cameras>>

\* stopAll that replaces the map without keeping its handles.
StopAll_Forgets ==
  /\ pc[Main] = "idle"
  /\ ctxDone
  /\ halting' = TRUE
  /\ active' = [s \in Scheds |-> 0]
  /\ Goto(Main, "stale")
  /\ UNCHANGED <<ctxDone, tickNow, tickScheds, tickRunning, held, todo, grip, passVars,
                 rowVars, files, hubVars, budgetVars, cameras>>
\* stopAll takes everything out of the active map.
StopAll ==
  /\ pc[Main] = "idle"
  /\ ctxDone
  /\ halting' = TRUE
  /\ held' = {<<s, active[s]>> : s \in {x \in Scheds : active[x] # 0}}
  /\ active' = [s \in Scheds |-> 0]
  /\ Goto(Main, "stale")
  /\ UNCHANGED <<ctxDone, tickNow, tickScheds, tickRunning, todo, grip, passVars,
                 rowVars, files, hubVars, budgetVars, cameras>>

\* closeHandle on the next handle taken out.
CloseStale ==
  /\ pc[Main] = "stale"
  /\ \E c \in held :
       /\ held' = held \ {c}
       /\ grip' = [grip EXCEPT ![Main] = c]
       /\ quit' = quit \cup {c}
  /\ Goto(Main, "closing")
  /\ UNCHANGED <<ctxDone, halting, tickNow, tickScheds, tickRunning, active, todo, passVars,
                 rowVars, files, hub, seg, out, lastStart, budgetVars, cameras>>

\* A slip of closeHandle: Close that a cancelled context keeps from returning.
CloseReturns_Deaf(a) ==
  /\ pc[a] = "closing"
  /\ hub[grip[a]] = "off" /\ ~ctxDone
  /\ grip' = [grip EXCEPT ![a] = NoCons]
  /\ Goto(a, IF a = Main THEN "stale" ELSE "consume")
  /\ UNCHANGED <<managerVars, passVars, rowVars, files, hubVars, budgetVars, cameras>>

\* handle.Close returns once the consumer is gone, or early when its context
\* ends (cancelled by Stop, or stopAll's 30 s timeout); its error is only logged.
CloseReturns(a) ==
  /\ pc[a] = "closing"
  /\ hub[grip[a]] = "off" \/ ctxDone
  /\ grip' = [grip EXCEPT ![a] = NoCons]
  /\ Goto(a, IF a = Main THEN "stale" ELSE "consume")
  /\ UNCHANGED <<managerVars, passVars, rowVars, files, hubVars, budgetVars, cameras>>

\* All handles closed: retention for every listed schedule with a policy, or,
\* in stopAll, the loop ends.
StaleClosed ==
  /\ pc[Main] = "stale"
  /\ held = {}
  /\ todo' = IF halting THEN {} ELSE tickScheds \cap Retaining
  /\ tickScheds' = {} /\ tickRunning' = {}
  /\ Goto(Main, IF halting THEN "stopped" ELSE "retain")
  /\ UNCHANGED <<ctxDone, halting, tickNow, active, held, grip,
                 passVars, rowVars, files, hubVars, budgetVars, cameras>>

TickEnd ==
  /\ pc[Main] = "retain"
  /\ todo = {}
  /\ Goto(Main, "idle")
  /\ UNCHANGED <<managerVars, grip, passVars, rowVars, files, hubVars, budgetVars, cameras>>
-----------------------------------------------------------------------------
(* processSchedule, in the goroutine of schedule s. *)

\* checkDiskSpace reads the free space once: two passes below LowFreeGB, one
\* more below MinFreeGB.
DiskPasses_LowTwice(s, low, critical) ==
  (IF low /\ s \in LowFree THEN 4 ELSE 0) + (IF critical /\ s \in MinFree THEN 1 ELSE 0)
DiskPasses(s, low, critical) ==
  (IF low /\ s \in LowFree THEN 2 ELSE 0) + (IF critical /\ s \in MinFree THEN 1 ELSE 0)

CheckDisk(s) ==
  /\ pc[s] = "disk"
  /\ \E low, critical \in BOOLEAN :
       LET n == DiskPasses(s, low, critical)
       IN /\ passes' = [passes EXCEPT ![s] = n]
          /\ Goto(s, IF n > 0 THEN "query" ELSE "decide")
  /\ UNCHANGED <<managerVars, grip, doomed, victim, rowVars, files, hubVars, budgetVars, cameras>>

\* Time-based rotation is due.
Due_Late(s) == s \in Timed /\ tickNow - active[s] > SegmentTime
Due(s) == s \in Timed /\ tickNow - active[s] >= SegmentTime

\* No recording: start one, unless the disk is below MinFreeGB.
DecideStart(s) ==
  /\ pc[s] = "decide"
  /\ active[s] = 0
  /\ \E next \in {"consume"} \cup (IF s \in MinFree THEN {"idle"} ELSE {}) : Goto(s, next)
  /\ UNCHANGED <<managerVars, grip, passVars, rowVars, files, hubVars, budgetVars, cameras>>

\* A recording that is neither old nor large enough goes on.
DecideKeep(s) ==
  /\ pc[s] = "decide"
  /\ active[s] # 0
  /\ ~Due(s)
  /\ Goto(s, "idle")
  /\ UNCHANGED <<managerVars, grip, passVars, rowVars, files, hubVars, budgetVars, cameras>>

\* rotateSegment: drop the recording from the active map, close it, start anew.
\* The byte count behind a size-based rotation is not modelled.
Rotate(s) ==
  /\ pc[s] = "decide"
  /\ active[s] # 0
  /\ Due(s) \/ s \in Sized
  /\ active' = [active EXCEPT ![s] = 0]
  /\ grip' = [grip EXCEPT ![s] = <<s, active[s]>>]
  /\ quit' = quit \cup {<<s, active[s]>>}
  /\ Goto(s, "closing")
  /\ UNCHANGED <<ctxDone, halting, tickNow, tickScheds, tickRunning, held, todo, passVars,
                 rowVars, files, hub, seg, out, lastStart, budgetVars, cameras>>

\* startSegment: Consume on the hub; on error the schedule is skipped until the
\* next tick.
Consume(s) ==
  /\ pc[s] = "consume"
  /\ \/ hub' = [hub EXCEPT ![<<s, tickNow>>] = "create"] /\ Goto(s, "register")
     \/ UNCHANGED hub /\ Goto(s, "idle")
  /\ UNCHANGED <<managerVars, grip, passVars, rowVars, files, quit, seg, out, lastStart,
                 budgetVars, cameras>>

\* registerActiveSegment.
Register(s) ==
  /\ pc[s] = "register"
  /\ active' = [active EXCEPT ![s] = tickNow]
  /\ Goto(s, "idle")
  /\ UNCHANGED <<ctxDone, halting, tickNow, tickScheds, tickRunning, held, todo, grip, passVars,
                 rowVars, files, hubVars, budgetVars, cameras>>
-----------------------------------------------------------------------------
(* enforceRetention, run by a goroutine (after a disk check) or by the tick. *)

\* Rows QueryByChannel returns: neither recording, nor deleted, nor corrupted.
Visible(r) == status[r] \in {"complete", "interrupted"}
\* Queryable_Recording lacks 'recording' in the query's exclusion list.
Queryable_Recording(ch) ==
  {r \in Segs : Chan(r[1]) = ch /\ status[r] \in {"complete", "interrupted", "recording"}}
Queryable(ch) == {r \in Segs : Chan(r[1]) = ch /\ Visible(r)}

\* The segments a pass may flag (module Retention says which it does): at most
\* Batch of them, unless the disk is below MinFreeGB.
Flagged(s) ==
  {D \in SUBSET Queryable(Chan(s)) : s \in MinFree \/ Cardinality(D) <= Batch}

Query(a, s) ==
  /\ \/ a = s /\ pc[a] = "query"
        /\ passes' = [passes EXCEPT ![s] = @ - 1] /\ UNCHANGED todo
     \/ a = Main /\ pc[a] = "retain" /\ s \in todo
        /\ todo' = todo \ {s} /\ UNCHANGED passes
  /\ \E D \in Flagged(s) : doomed' = [doomed EXCEPT ![a] = D]
  /\ Goto(a, "delete")
  /\ UNCHANGED <<ctxDone, halting, tickNow, tickScheds, tickRunning, active, held, grip, victim,
                 rowVars, files, hubVars, budgetVars, cameras>>

\* deleteSegment that goes on to the file when the index update failed.
DeleteRow_IgnoresError(a) ==
  /\ pc[a] = "delete"
  /\ \E r \in doomed[a] :
       /\ doomed' = [doomed EXCEPT ![a] = @ \ {r}]
       /\ victim' = [victim EXCEPT ![a] = r]
       /\ \/ status' = [status EXCEPT ![r] = "deleted"] /\ UNCHANGED faults
          \/ UNCHANGED status /\ Fails
  /\ Goto(a, "remove")
  /\ UNCHANGED <<managerVars, grip, passes, ending, files, hubVars, clock, crashes, cameras>>
\* deleteSegment marks the row first; when that fails the file is left alone.
DeleteRow(a) ==
  /\ pc[a] = "delete"
  /\ \E r \in doomed[a] :
       /\ doomed' = [doomed EXCEPT ![a] = @ \ {r}]
       /\ \/ /\ status' = [status EXCEPT ![r] = "deleted"]
             /\ victim' = [victim EXCEPT ![a] = r]
             /\ Goto(a, "remove")
             /\ UNCHANGED faults
          \/ /\ IF ctxDone THEN UNCHANGED faults ELSE Fails
             /\ UNCHANGED <<status, victim, pc>>
  /\ UNCHANGED <<managerVars, grip, passes, ending, files, hubVars, clock, crashes, cameras>>

\* deleteSegment that looks for the file under the name it was written with.
RemoveFile_Working(a) ==
  /\ pc[a] = "remove"
  /\ \/ files' = files \ {SegmentPath(victim[a][1], victim[a][2], 0)} /\ UNCHANGED faults
     \/ Fails /\ UNCHANGED files
  /\ victim' = [victim EXCEPT ![a] = NoSeg]
  /\ Goto(a, "delete")
  /\ UNCHANGED <<managerVars, grip, passes, doomed, rowVars, hubVars, clock, crashes, cameras>>
\* ... then removes the file; an error other than "not found" is logged.
RemoveFile(a) ==
  /\ pc[a] = "remove"
  /\ \/ files' = files \ {RowPath(victim[a])} /\ UNCHANGED faults
     \/ Fails /\ UNCHANGED files
  /\ victim' = [victim EXCEPT ![a] = NoSeg]
  /\ Goto(a, "delete")
  /\ UNCHANGED <<managerVars, grip, passes, doomed, rowVars, hubVars, clock, crashes, cameras>>

\* A disk check whose passes never end.
PassDone_Again(a) ==
  /\ pc[a] = "delete"
  /\ doomed[a] = {}
  /\ Goto(a, IF a = Main THEN "retain" ELSE "query")
  /\ passes' = IF a = Main THEN passes ELSE [passes EXCEPT ![a] = 1]
  /\ UNCHANGED <<managerVars, grip, doomed, victim, rowVars, files, hubVars, budgetVars, cameras>>
PassDone(a) ==
  /\ pc[a] = "delete"
  /\ doomed[a] = {}
  /\ Goto(a, IF a = Main THEN "retain" ELSE IF passes[a] > 0 THEN "query" ELSE "decide")
  /\ UNCHANGED <<managerVars, grip, passVars, rowVars, files, hubVars, budgetVars, cameras>>
-----------------------------------------------------------------------------
(* The hub's consumer c: it calls the muxer factory and, when a muxer ends, the *)
(* onClose callback.  One schedule opens at most one segment a second.          *)

\* The muxer factory creates the file ...
OpenFile(c) ==
  /\ hub[c] = "create"
  /\ c \notin quit
  /\ clock > lastStart[c[1]]
  /\ lastStart' = [lastStart EXCEPT ![c[1]] = clock]
  /\ seg' = [seg EXCEPT ![c] = clock]
  /\ files' = files \cup {SegmentPath(c[1], clock, 0)}
  /\ hub' = [hub EXCEPT ![c] = "mark"]
  /\ UNCHANGED <<managerVars, pc, grip, passVars, rowVars, quit, out, budgetVars, cameras>>

\* ... or fails, and the consumer with it (or it was closed before it opened).
OpenFails(c) ==
  /\ hub[c] = "create"
  /\ hub' = [hub EXCEPT ![c] = "off"]
  /\ quit' = quit \cup {c}
  /\ UNCHANGED <<managerVars, pc, grip, passVars, rowVars, files, seg, out, lastStart,
                 budgetVars, cameras>>

\* ... and then inserts the crash marker row; a failed insert is logged.
MarkRecording(c) ==
  /\ hub[c] = "mark"
  /\ \/ /\ status' = [status EXCEPT ![<<c[1], seg[c]>>] = "recording"]
        /\ ending' = [ending EXCEPT ![<<c[1], seg[c]>>] = 0]
        /\ UNCHANGED faults
     \/ Fails /\ UNCHANGED rowVars
  /\ hub' = [hub EXCEPT ![c] = "open"]
  /\ UNCHANGED <<managerVars, pc, grip, passVars, files, quit, seg, out, lastStart, clock,
                 crashes, cameras>>

\* A muxer ends (its consumer was closed, its size limit was reached, or it
\* failed) and onClose renames the file; when that fails the old name is kept.
CloseSegment(c) ==
  LET work == SegmentPath(c[1], seg[c], 0) IN
  /\ hub[c] = "open"
  /\ \/ c \in quit /\ UNCHANGED quit
     \/ c[1] \in Sized /\ UNCHANGED quit
     \/ quit' = quit \cup {c}
  /\ \/ /\ work \in files
        /\ files' = (files \ {work}) \cup {SegmentPath(c[1], seg[c], clock)}
        /\ out' = [out EXCEPT ![c] = clock]
        /\ UNCHANGED faults
     \/ /\ IF work \in files THEN Fails ELSE UNCHANGED faults
        /\ out' = [out EXCEPT ![c] = 0]
        /\ UNCHANGED files
  /\ hub' = [hub EXCEPT ![c] = "insert"]
  /\ UNCHANGED <<managerVars, pc, grip, passVars, rowVars, seg, lastStart, clock, crashes, cameras>>

\* onClose replaces the marker row by the segment's final row; a failed insert
\* is logged.  The consumer ends, or opens its next segment.
PublishSegment(c) ==
  /\ hub[c] = "insert"
  /\ \/ /\ \E valid \in {"complete", "corrupted"} :
             status' = [status EXCEPT ![<<c[1], seg[c]>>] = valid]
        /\ ending' = [ending EXCEPT ![<<c[1], seg[c]>>] = out[c]]
        /\ UNCHANGED faults
     \/ Fails /\ UNCHANGED rowVars
  /\ hub' = [hub EXCEPT ![c] = IF c \in quit THEN "off" ELSE "create"]
  /\ seg' = [seg EXCEPT ![c] = 0]
  /\ out' = [out EXCEPT ![c] = 0]
  /\ UNCHANGED <<managerVars, pc, grip, passVars, files, quit, lastStart, clock, crashes, cameras>>
-----------------------------------------------------------------------------
ManagerStep ==
  \/ TickBegin \/ CollectStale \/ StopAll \/ CloseStale \/ CloseReturns(Main)
  \/ StaleClosed \/ TickEnd
  \/ \E s \in Scheds : Query(Main, s)
  \/ DeleteRow(Main) \/ RemoveFile(Main) \/ PassDone(Main)

WorkerStep(s) ==
  \/ CheckDisk(s) \/ Query(s, s) \/ DeleteRow(s) \/ RemoveFile(s) \/ PassDone(s)
  \/ DecideStart(s) \/ DecideKeep(s) \/ Rotate(s) \/ CloseReturns(s) \/ Consume(s) \/ Register(s)

HubStep(c) ==
  OpenFile(c) \/ OpenFails(c) \/ MarkRecording(c) \/ CloseSegment(c) \/ PublishSegment(c)

Next ==
  \/ Elapse \/ Start \/ Stop \/ Crash
  \/ \E c \in Channels : EditCameras(c)
  \/ ManagerStep
  \/ \E s \in Scheds : WorkerStep(s)
  \/ \E c \in Conss : HubStep(c)

Spec == Init /\ [][Next]_vars

\* Goroutines that can run do run; the hub finishes the consumers it was told to
\* close; and the loop's select, random between a due tick and a cancelled
\* context, does not forever take the tick.
Fairness ==
  /\ WF_vars(ManagerStep /\ pc[Main] # "idle")
  /\ SF_vars(StopAll)
  /\ \A s \in Scheds : WF_vars(WorkerStep(s))
  /\ \A c \in Conss : WF_vars(c \in quit /\ HubStep(c))

FairSpec == Spec /\ Fairness
-----------------------------------------------------------------------------
(* Properties. *)

\* No two schedules write into the same directory.
DistinctDirs ==
  \A s, t \in Scheds : Storage[s] = Storage[t] /\ Chan(s) = Chan(t) => s = t

\* Playback never gets a row whose footage was removed (deleteSegment marks the
\* row first): the file of a visible row is on disk under the row's path or, when
\* a crash or a failed insert followed onClose's rename, under the final name.
VisibleHasFootage ==
  \A r \in Segs : Visible(r) =>
    \/ RowPath(r) \in files
    \/ status[r] = "interrupted" /\ \E e \in Times : SegmentPath(r[1], r[2], e) \in files

\* Retention, of whatever schedule, never removes the file a consumer is
\* writing: the file opened by the muxer factory stays until onClose renames it.
OpenKeepsFile ==
  \A c \in Conss : hub[c] \in {"mark", "open"} => SegmentPath(c[1], seg[c], 0) \in files

\* Every consumer that nobody told to close can still be closed: it is in the
\* active map, in the hands of the goroutine that started it, or among the
\* handles being closed.  So rotation, stale removal and Stop lose none.
NoLeakedConsumer ==
  \A c \in Conss : hub[c] # "off" /\ c \notin quit =>
    \/ active[c[1]] = c[2]
    \/ pc[c[1]] = "register" /\ tickNow = c[2]
    \/ c \in held

\* Between ticks no recording with SegmentMinutes is older than that, as of the
\* last tick: this also bounds how long a dead consumer stays unnoticed.
RotationOnTime ==
  pc[Main] # "process" =>
    \A s \in Timed : active[s] # 0 => tickNow < active[s] + SegmentTime

\* Between ticks a channel is not recorded by its default schedule and by an
\* explicit one at once, although the explicit one starts first.
DefaultYields ==
  pc[Main] # "process" =>
    \A s \in Explicit : active[s] # 0 => active[ChannelOf[s]] = 0

\* Without failed I/O and without a crash no file is left behind: every file is
\* named by a live row, or some step that will name or remove it is under way.
OrphansOnlyAfterFaults ==
  faults = 0 /\ crashes = 0 =>
    \A p \in files :
      \/ \E r \in Segs : status[r] \notin {"none", "deleted"} /\ p = RowPath(r)
      \/ \E c \in Conss : hub[c] \in {"mark", "insert"} /\
           p = SegmentPath(c[1], seg[c], IF hub[c] = "mark" THEN 0 ELSE out[c])
      \/ \E a \in Actors : victim[a] # NoSeg /\ p = RowPath(victim[a])

\* The abstract segment: a row's state, and whether its footage is on disk
\* under whatever name.
RowState(r) ==
  CASE status[r] = "none" -> "absent"
    [] status[r] = "recording" -> "recording"
    [] status[r] \in {"complete", "interrupted"} -> "playable"
    [] status[r] = "corrupted" -> "unplayable"
    [] status[r] = "deleted" -> "deleted"
OnDisk(r) == \E e \in 0 .. MaxClock : SegmentPath(r[1], r[2], e) \in files

Life == INSTANCE SegmentLifecycle WITH
          row <- [r \in Segs |-> RowState(r)],
          footage <- {r \in Segs : OnDisk(r)}

\* Every step of the manager, its goroutines, the hub's callbacks and a crash
\* keeps each segment to its life cycle: no deleted or final row is written
\* again, and footage is removed only after its row is marked deleted.
FollowsLifecycle == Life!Spec

\* appendDefaults' comment: it "adds a synthetic always-active schedule for every
\* channel that is not already covered by an explicit schedule".  Hence a tick does
\* not close the default recording of a camera that no listed schedule covers.
UncoveredKeepsRecording ==
  [][pc[Main] = "process" /\ pc'[Main] = "stale" =>
       \A c \in cameras : active[c] # 0 /\ active'[c] = 0 =>
         \E s \in tickScheds \cap Explicit : ChannelOf[s] = c]_vars

\* A tick ends: its goroutines do not wait for each other's consumers for ever.
TickCompletes == pc[Main] = "process" ~> pc[Main] \in {"idle", "down"}

\* Stop ends, whatever the tick was doing when the context was cancelled.
StopCompletes == ctxDone ~> pc[Main] \in {"stopped", "down"}
=============================================================================
