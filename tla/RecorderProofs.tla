--------------------------- MODULE RecorderProofs ---------------------------
(* Proofs about the recording manager, for every number of cameras and       *)
(* schedules, every clock bound and any number of faults and crashes: its    *)
(* types and footage, what a tick leaves behind, and the life cycle of each  *)
(* segment, which the recorder keeps to (it implements SegmentLifecycle).    *)
EXTENDS Recorder, TLAPS

-----------------------------------------------------------------------------
(* Types and footage. *)

\* A retention pass of a disk check was announced, and a writing consumer has
\* a segment: what the types of passes and files rest on.
PassInv == \A s \in Scheds : pc[s] = "query" => passes[s] # 0
Writing(c) == hub[c] \in {"mark", "open", "insert"}
SegInv == \A c \in Conss : Writing(c) => seg[c] \in Times
TypeInv == TypeOK /\ PassInv /\ SegInv

\* The manager's loop is an actor of its own, beside the schedules' goroutines.
LEMMA MainNotSched == Main \in Actors /\ \A s \in Scheds : s # Main /\ s \in Actors
  BY ConstantsAssumption DEF Actors

\* Names of segments and consumers are pairs of a schedule and a time.
LEMMA Pairs ==
  /\ \A c \in Conss : c[1] \in Scheds /\ c[2] \in Times /\ c = <<c[1], c[2]>>
  /\ \A r \in Segs : r[1] \in Scheds /\ r[2] \in Times /\ r = <<r[1], r[2]>>
  /\ \A s \in Scheds, t \in Times : <<s, t>> \in Conss /\ <<s, t>> \in Segs
  BY DEF Conss, Segs

\* SegmentPath stays within the set of paths the model knows.
LEMMA PathIn ==
  \A s \in Scheds, t \in Times, e \in 0 .. MaxClock : SegmentPath(s, t, e) \in Paths
  BY DEF Paths

\* The clock starts at 1; 0 stands for "no time yet".
LEMMA TimesFact == MaxClock \in Nat \ {0} /\ 1 \in Times /\ 0 \in 0 .. MaxClock
                   /\ \A t : t \in Times <=> t \in 0 .. MaxClock /\ t # 0
  BY ConstantsAssumption DEF Times

\* NewManager and an empty index are well typed.
LEMMA TypeInit == Init => TypeInv
<1> SUFFICES ASSUME Init PROVE TypeInv
  OBVIOUS
<1> USE ConstantsAssumption, MainNotSched, TimesFact
<1>1. /\ pc \in [Actors -> WorkerPcs \cup MainPcs]
      /\ \A s \in Scheds : pc[s] = "idle" /\ pc[s] \in WorkerPcs
      /\ pc[Main] \in MainPcs
  BY DEF Init, WorkerPcs, MainPcs
<1>2. /\ hub \in [Conss -> HubStates] /\ \A c \in Conss : ~Writing(c)
      /\ seg \in [Conss -> 0 .. MaxClock] /\ out \in [Conss -> 0 .. MaxClock]
  BY DEF Init, HubStates, Writing
<1>3. /\ status \in [Segs -> Statuses] /\ ending \in [Segs -> 0 .. MaxClock]
      /\ files \in SUBSET Paths
  BY DEF Init, Statuses
<1>4. /\ doomed \in [Actors -> SUBSET Segs] /\ victim \in [Actors -> Segs \cup {NoSeg}]
      /\ grip \in [Actors -> Conss \cup {NoCons}]
      /\ passes \in [Scheds -> 0 .. 3] /\ active \in [Scheds -> 0 .. MaxClock]
      /\ lastStart \in [Scheds -> 0 .. MaxClock]
  BY DEF Init
<1>5. /\ clock \in Times /\ faults \in 0 .. MaxFaults /\ crashes \in 0 .. MaxCrashes
      /\ tickNow \in 0 .. MaxClock
  BY DEF Init
<1>6. ctxDone \in BOOLEAN /\ halting \in BOOLEAN
  BY Zenon DEF Init
<1>7. /\ cameras \in SUBSET Channels /\ tickScheds \in SUBSET Scheds
      /\ tickRunning \in SUBSET tickScheds /\ held \in SUBSET Conss /\ todo \in SUBSET Scheds
      /\ quit \in SUBSET Conss
  BY DEF Init
<1> QED
  BY <1>1, <1>2, <1>3, <1>4, <1>5, <1>6, <1>7 DEF TypeInv, TypeOK, PassInv, SegInv

\* Every step of the loop, a goroutine, a hub callback or the environment
\* keeps the types; one case per action.
LEMMA TypeStep == TypeInv /\ [Next]_vars => TypeInv'
<1> SUFFICES ASSUME TypeInv, [Next]_vars PROVE TypeInv'
  OBVIOUS
<1> USE ConstantsAssumption, MainNotSched, TimesFact
<1> USE DEF TypeInv, TypeOK, PassInv, SegInv, Writing, Goto, Fails,
        managerVars, passVars, rowVars, hubVars, budgetVars
<1>1. CASE Elapse
  BY <1>1 DEF Elapse, Times
<1>2. CASE Start
  BY <1>2 DEF Start, SealInterrupted, Statuses, MainPcs
<1>3. CASE Stop
  BY <1>3 DEF Stop
<1>4. CASE Crash
  <2>1. /\ pc' \in [Actors -> WorkerPcs \cup MainPcs]
        /\ \A s \in Scheds : pc'[s] = "idle" /\ pc'[s] \in WorkerPcs
        /\ pc'[Main] \in MainPcs
    BY <1>4 DEF Crash, WorkerPcs, MainPcs
  <2>2. /\ hub' \in [Conss -> HubStates] /\ \A c \in Conss : ~Writing(c)'
        /\ seg' \in [Conss -> 0 .. MaxClock] /\ out' \in [Conss -> 0 .. MaxClock]
    BY <1>4 DEF Crash, HubStates
  <2>3. /\ doomed' \in [Actors -> SUBSET Segs] /\ victim' \in [Actors -> Segs \cup {NoSeg}]
        /\ grip' \in [Actors -> Conss \cup {NoCons}]
        /\ passes' \in [Scheds -> 0 .. 3] /\ active' \in [Scheds -> 0 .. MaxClock]
    BY <1>4 DEF Crash
  <2>4. crashes' \in 0 .. MaxCrashes
    BY <1>4 DEF Crash
  <2> QED
    BY <1>4, <2>1, <2>2, <2>3, <2>4 DEF Crash
<1>5. ASSUME NEW c \in Channels, EditCameras(c) PROVE TypeInv'
  BY <1>5 DEF EditCameras
<1>6. CASE TickBegin
  BY <1>6 DEF TickBegin, Defaults, Scheds, WorkerPcs, MainPcs
<1>7. CASE CollectStale
  BY <1>7, Pairs, PathIn DEF CollectStale, WorkerPcs, MainPcs
<1>8. CASE StopAll
  BY <1>8, Pairs, PathIn DEF StopAll, WorkerPcs, MainPcs
<1>9. CASE CloseStale
  BY <1>9, Pairs, PathIn DEF CloseStale, WorkerPcs, MainPcs
<1>10. ASSUME NEW a \in Actors, CloseReturns(a) PROVE TypeInv'
  BY <1>10 DEF CloseReturns, Actors, WorkerPcs, MainPcs
<1>11. CASE StaleClosed
  BY <1>11 DEF StaleClosed, WorkerPcs, MainPcs
<1>12. CASE TickEnd
  BY <1>12 DEF TickEnd, WorkerPcs, MainPcs
<1>13. ASSUME NEW s \in Scheds, CheckDisk(s) PROVE TypeInv'
  BY <1>13 DEF CheckDisk, DiskPasses, WorkerPcs, MainPcs
<1>14. ASSUME NEW s \in Scheds, DecideStart(s) PROVE TypeInv'
  BY <1>14 DEF DecideStart, WorkerPcs, MainPcs
<1>15. ASSUME NEW s \in Scheds, DecideKeep(s) PROVE TypeInv'
  BY <1>15 DEF DecideKeep, WorkerPcs, MainPcs
<1>16. ASSUME NEW s \in Scheds, Rotate(s) PROVE TypeInv'
  BY <1>16, Pairs, PathIn DEF Rotate, WorkerPcs, MainPcs
<1>17. ASSUME NEW s \in Scheds, Consume(s) PROVE TypeInv'
  <2>1. hub' \in [Conss -> HubStates] /\ pc' \in [Actors -> WorkerPcs \cup MainPcs]
    BY <1>17, SMTT(30) DEF Consume, WorkerPcs, HubStates
  <2>2. \A x \in Scheds : pc'[x] \in WorkerPcs /\ (pc'[x] = "query" => pc[x] = "query")
    BY <1>17 DEF Consume, WorkerPcs
  <2>3. pc'[Main] = pc[Main]
    BY <1>17 DEF Consume
  <2>4. \A c \in Conss : Writing(c)' => Writing(c)
    BY <1>17, SMTT(30) DEF Consume
  <2> QED
    BY <1>17, <2>1, <2>2, <2>3, <2>4 DEF Consume
<1>18. ASSUME NEW s \in Scheds, Register(s) PROVE TypeInv'
  BY <1>18 DEF Register, WorkerPcs, MainPcs
<1>19. ASSUME NEW a \in Actors, NEW s \in Scheds, Query(a, s) PROVE TypeInv'
  <2>1. /\ pc' \in [Actors -> WorkerPcs \cup MainPcs]
        /\ \A x \in Scheds : pc'[x] \in WorkerPcs /\ (pc'[x] = "query" => pc[x] = "query" /\ x # a)
        /\ pc'[Main] \in MainPcs
    BY <1>19 DEF Query, WorkerPcs, MainPcs
  <2>2. /\ passes' \in [Scheds -> 0 .. 3] /\ \A x \in Scheds : x # a => passes'[x] = passes[x]
        /\ todo' \in SUBSET Scheds
    BY <1>19 DEF Query
  <2>3. doomed' \in [Actors -> SUBSET Segs]
    BY <1>19 DEF Query, Flagged, Queryable
  <2>4. UNCHANGED <<ctxDone, halting, tickNow, tickScheds, tickRunning, active, held, grip, victim,
                    status, ending, files, hub, quit, seg, out, lastStart, clock, faults, crashes,
                    cameras>>
    BY <1>19 DEF Query
  <2>5. PassInv' /\ SegInv'
    BY <2>1, <2>2, <2>4
  <2> QED
    BY <2>1, <2>2, <2>3, <2>4, <2>5
<1>20. ASSUME NEW a \in Actors, DeleteRow(a) PROVE TypeInv'
  BY <1>20, SMTT(30) DEF DeleteRow, WorkerPcs, MainPcs, Statuses
<1>21. ASSUME NEW a \in Actors, RemoveFile(a) PROVE TypeInv'
  BY <1>21 DEF RemoveFile, WorkerPcs, MainPcs
<1>22. ASSUME NEW a \in Actors, PassDone(a) PROVE TypeInv'
  BY <1>22 DEF PassDone, Actors, WorkerPcs, MainPcs
<1>23. ASSUME NEW c \in Conss, OpenFile(c) PROVE TypeInv'
  <2>0. c[1] \in Scheds
    BY Pairs
  <2>1. hub' \in [Conss -> HubStates]
    BY <1>23 DEF OpenFile, HubStates
  <2>2. SegInv' /\ seg' \in [Conss -> 0 .. MaxClock] /\ out' \in [Conss -> 0 .. MaxClock]
    BY <1>23 DEF OpenFile
  <2>3. files' \in SUBSET Paths
    <3>1. SegmentPath(c[1], clock, 0) \in Paths
      BY <1>23, <2>0, PathIn DEF OpenFile
    <3> QED
      BY <1>23, <3>1 DEF OpenFile
  <2>4. faults' \in 0 .. MaxFaults
    BY <1>23 DEF OpenFile
  <2> QED
    BY <1>23, <2>0, <2>1, <2>2, <2>3, <2>4 DEF OpenFile
<1>24. ASSUME NEW c \in Conss, OpenFails(c) PROVE TypeInv'
  BY <1>24, Pairs, PathIn DEF OpenFails, HubStates
<1>25. ASSUME NEW c \in Conss, MarkRecording(c) PROVE TypeInv'
  <2>0. c[1] \in Scheds
    BY Pairs
  <2>1. hub' \in [Conss -> HubStates]
    BY <1>25 DEF MarkRecording, HubStates
  <2>2. SegInv' /\ seg' \in [Conss -> 0 .. MaxClock] /\ out' \in [Conss -> 0 .. MaxClock]
    BY <1>25 DEF MarkRecording
  <2>3. status' \in [Segs -> Statuses] /\ ending' \in [Segs -> 0 .. MaxClock]
    <3>1. \/ status' = status
          \/ status' = [status EXCEPT ![<<c[1], seg[c]>>] = "recording"]
      BY <1>25 DEF MarkRecording
    <3>2. ending' = ending \/ \E e \in 0 .. MaxClock : ending' = [ending EXCEPT ![<<c[1], seg[c]>>] = e]
      BY <1>25 DEF MarkRecording
    <3>3. status' \in [Segs -> Statuses]
      BY <3>1 DEF Statuses
    <3>4. ending' \in [Segs -> 0 .. MaxClock]
      BY <3>2, SMTT(30)
    <3> QED
      BY <3>3, <3>4
  <2>4. faults' \in 0 .. MaxFaults
    BY <1>25 DEF MarkRecording
  <2> QED
    BY <1>25, <2>0, <2>1, <2>2, <2>3, <2>4 DEF MarkRecording
<1>26. ASSUME NEW c \in Conss, CloseSegment(c) PROVE TypeInv'
  <2>0. c[1] \in Scheds
    BY Pairs
  <2>1. hub' \in [Conss -> HubStates]
    BY <1>26 DEF CloseSegment, HubStates
  <2>2. SegInv' /\ seg' \in [Conss -> 0 .. MaxClock] /\ out' \in [Conss -> 0 .. MaxClock]
    BY <1>26 DEF CloseSegment
  <2>3. files' \in SUBSET Paths
    <3>1. SegmentPath(c[1], seg[c], clock) \in Paths
      BY <1>26, <2>0, PathIn DEF CloseSegment
    <3> QED
      BY <1>26, <3>1 DEF CloseSegment
  <2>4. faults' \in 0 .. MaxFaults
    BY <1>26 DEF CloseSegment
  <2> QED
    BY <1>26, <2>0, <2>1, <2>2, <2>3, <2>4 DEF CloseSegment
<1>27. ASSUME NEW c \in Conss, PublishSegment(c) PROVE TypeInv'
  <2>0. c[1] \in Scheds
    BY Pairs
  <2>1. hub' \in [Conss -> HubStates]
    BY <1>27 DEF PublishSegment, HubStates
  <2>2. SegInv' /\ seg' \in [Conss -> 0 .. MaxClock] /\ out' \in [Conss -> 0 .. MaxClock]
    BY <1>27 DEF PublishSegment
  <2>3. status' \in [Segs -> Statuses] /\ ending' \in [Segs -> 0 .. MaxClock]
    <3>1. \/ status' = status
          \/ status' = [status EXCEPT ![<<c[1], seg[c]>>] = "complete"]
          \/ status' = [status EXCEPT ![<<c[1], seg[c]>>] = "corrupted"]
      BY <1>27 DEF PublishSegment
    <3>2. ending' = ending \/ \E e \in 0 .. MaxClock : ending' = [ending EXCEPT ![<<c[1], seg[c]>>] = e]
      BY <1>27 DEF PublishSegment
    <3>3. status' \in [Segs -> Statuses]
      BY <3>1 DEF Statuses
    <3>4. ending' \in [Segs -> 0 .. MaxClock]
      BY <3>2, SMTT(30)
    <3> QED
      BY <3>3, <3>4
  <2>4. faults' \in 0 .. MaxFaults
    BY <1>27 DEF PublishSegment
  <2> QED
    BY <1>27, <2>0, <2>1, <2>2, <2>3, <2>4 DEF PublishSegment
<1>28. CASE UNCHANGED vars
  BY <1>28 DEF vars
<1> HIDE DEF TypeInv
<1> QED
  BY <1>1, <1>2, <1>3, <1>4, <1>5, <1>6, <1>7, <1>8, <1>9, <1>10, <1>11, <1>12, <1>13, <1>14,
     <1>15, <1>16, <1>17, <1>18, <1>19, <1>20, <1>21, <1>22, <1>23, <1>24, <1>25, <1>26, <1>27,
     <1>28 DEF Next, ManagerStep, WorkerStep, HubStep

\* Type correctness of the manager's, the index's and the disk's state.
THEOREM TypeCorrect == Spec => []TypeOK
<1>1. TypeInv => TypeOK
  BY DEF TypeInv
<1> QED
  BY TypeInit, TypeStep, <1>1, PTL DEF Spec
-----------------------------------------------------------------------------
(* The goroutines of a tick run only while the tick waits for them, and a     *)
(* process that is down runs no consumer.                                     *)

ControlInv ==
  /\ pc[Main] # "process" => \A s \in Scheds : pc[s] = "idle"
  /\ pc[Main] = "down" => \A c \in Conss : hub[c] = "off"

\* Before Start nothing runs.
LEMMA ControlInit == Init => ControlInv
  BY MainNotSched DEF Init, ControlInv

\* wg.Wait keeps goroutines within the tick that spawned them, and a process
\* that is down runs no hub callback; every action preserves both.
LEMMA ControlStep == TypeInv /\ ControlInv /\ [Next]_vars => ControlInv'
<1> SUFFICES ASSUME TypeInv, ControlInv, [Next]_vars PROVE ControlInv'
  OBVIOUS
<1> USE MainNotSched
<1>1. pc \in [Actors -> WorkerPcs \cup MainPcs] /\ hub \in [Conss -> HubStates]
  BY DEF TypeInv, TypeOK
<1> USE <1>1 DEF ControlInv, Goto, managerVars, passVars, rowVars, hubVars, budgetVars
<1>2. CASE Elapse \/ Stop \/ \E c \in Channels : EditCameras(c)
  BY <1>2 DEF Elapse, Stop, EditCameras
<1>3. CASE Start
  BY <1>3 DEF Start
<1>4. CASE Crash
  BY <1>4 DEF Crash
<1>5. CASE TickBegin
  BY <1>5 DEF TickBegin
<1>6. CASE CollectStale \/ StopAll \/ CloseStale \/ StaleClosed \/ TickEnd
  BY <1>6 DEF CollectStale, StopAll, CloseStale, StaleClosed, TickEnd
<1>7. ASSUME NEW a \in Actors, CloseReturns(a) \/ DeleteRow(a) \/ RemoveFile(a) \/ PassDone(a)
      PROVE ControlInv'
  <2>1. CASE a = Main
    BY <1>7, <2>1 DEF CloseReturns, DeleteRow, RemoveFile, PassDone
  <2>2. CASE a \in Scheds
    BY <1>7, <2>2 DEF CloseReturns, DeleteRow, RemoveFile, PassDone
  <2> QED
    BY <2>1, <2>2 DEF Actors
<1>8. ASSUME NEW a \in Actors, NEW s \in Scheds, Query(a, s) PROVE ControlInv'
  BY <1>8 DEF Query
<1>9. ASSUME NEW s \in Scheds,
             CheckDisk(s) \/ DecideStart(s) \/ DecideKeep(s) \/ Rotate(s) \/ Consume(s) \/ Register(s)
      PROVE ControlInv'
  BY <1>9 DEF CheckDisk, DecideStart, DecideKeep, Rotate, Consume, Register
<1>10. ASSUME NEW c \in Conss, HubStep(c) PROVE ControlInv'
  BY <1>10 DEF HubStep, OpenFile, OpenFails, MarkRecording, CloseSegment, PublishSegment
<1>11. CASE UNCHANGED vars
  BY <1>11 DEF vars
<1> HIDE DEF ControlInv
<1> QED
  BY <1>2, <1>3, <1>4, <1>5, <1>6, <1>7, <1>8, <1>9, <1>10, <1>11 DEF Next, ManagerStep, WorkerStep
-----------------------------------------------------------------------------
(* Rows, files and consumers.  The argument: a segment's name is used once    *)
(* (FreshInv, OwnerInv); while a consumer writes it its row is not yet one    *)
(* that retention reads (WriterInv); so what retention marks and removes      *)
(* (DeleteInv) is never what a consumer or a visible row needs (FileInv).     *)

\* Each consumer that writes has a segment of its own, started by lastStart.
OwnerInv ==
  /\ \A c \in Conss : Writing(c) => seg[c] <= lastStart[c[1]]
  /\ \A c, d \in Conss : Writing(c) /\ Writing(d) /\ c[1] = d[1] /\ seg[c] = seg[d] => c = d

\* Neither a row nor a file exists of a segment that has not started.
FreshInv ==
  \A r \in Segs : r[2] > lastStart[r[1]] => status[r] = "none" /\ ~OnDisk(r)

\* The row of a segment that is being written is not visible, and its file exists.
WriterInv ==
  \A c \in Conss :
    /\ hub[c] = "mark" => status[<<c[1], seg[c]>>] = "none"
    /\ hub[c] \in {"open", "insert"} => status[<<c[1], seg[c]>>] \in {"none", "recording"}
    /\ hub[c] \in {"mark", "open"} => SegmentPath(c[1], seg[c], 0) \in files
    /\ hub[c] = "insert" => SegmentPath(c[1], seg[c], out[c]) \in files

\* Retention holds only rows that were visible; the row of a file it removes is
\* marked deleted.
DeleteInv ==
  \A a \in Actors :
    /\ \A r \in doomed[a] : Visible(r) \/ status[r] = "deleted"
    /\ pc[a] = "remove" => victim[a] \in Segs /\ status[victim[a]] = "deleted"

\* The files behind the rows.
FileInv ==
  \A r \in Segs :
    /\ status[r] = "complete" => RowPath(r) \in files
    /\ status[r] \in {"recording", "interrupted"} => ending[r] = 0 /\ OnDisk(r)

FootageInv == OwnerInv /\ FreshInv /\ WriterInv /\ DeleteInv /\ FileInv

\* With one directory per schedule, equal paths mean equal schedule and times.
LEMMA PathInj ==
  ASSUME DistinctDirs, NEW s \in Scheds, NEW t \in Scheds, NEW x, NEW y, NEW u, NEW v,
         SegmentPath(s, x, u) = SegmentPath(t, y, v)
  PROVE  s = t /\ x = y /\ u = v
  BY DEF SegmentPath, DistinctDirs

\* An empty index promises no footage.
LEMMA FootageInit == Init => FootageInv
<1> SUFFICES ASSUME Init PROVE FootageInv
  OBVIOUS
<1>1. OwnerInv /\ WriterInv
  BY DEF Init, OwnerInv, WriterInv, Writing
<1>2. FreshInv /\ FileInv
  BY DEF Init, FreshInv, FileInv, OnDisk
<1>3. DeleteInv
  BY MainNotSched DEF Init, DeleteInv
<1> QED
  BY <1>1, <1>2, <1>3 DEF FootageInv

\* What no step of the manager or of a goroutine touches except retention.
LEMMA FootageFrame ==
  ASSUME FootageInv, UNCHANGED <<rowVars, files, seg, out, lastStart, doomed, victim>>,
         \A c \in Conss : Writing(c)' => hub'[c] = hub[c],
         \A a \in Actors : pc'[a] = "remove" => pc[a] = "remove"
  PROVE  FootageInv'
<1> USE DEF FootageInv, rowVars
<1>1. OwnerInv' /\ FreshInv' /\ FileInv'
  BY DEF OwnerInv, FreshInv, FileInv, Writing, OnDisk, RowPath
<1>2. WriterInv'
  BY DEF WriterInv, Writing
<1>3. DeleteInv'
  BY DEF DeleteInv, Visible
<1> QED
  BY <1>1, <1>2, <1>3

\* Every step preserves the footage invariant: only onClose's rename and
\* retention's remove take a path away, and neither touches a visible row's.
LEMMA FootageStep ==
  ASSUME DistinctDirs, TypeInv, ControlInv, FootageInv, [Next]_vars PROVE FootageInv'
<1> USE MainNotSched
<1>0. /\ pc \in [Actors -> WorkerPcs \cup MainPcs] /\ hub \in [Conss -> HubStates]
      /\ status \in [Segs -> Statuses] /\ ending \in [Segs -> 0 .. MaxClock]
      /\ seg \in [Conss -> 0 .. MaxClock] /\ out \in [Conss -> 0 .. MaxClock]
      /\ lastStart \in [Scheds -> 0 .. MaxClock] /\ clock \in Times
      /\ doomed \in [Actors -> SUBSET Segs] /\ victim \in [Actors -> Segs \cup {NoSeg}]
  BY DEF TypeInv, TypeOK
<1>1. CASE Elapse \/ Stop \/ \E c \in Channels : EditCameras(c)
  BY <1>1, FootageFrame DEF Elapse, Stop, EditCameras, managerVars, passVars, rowVars, hubVars, Writing
<1>2. CASE Crash
  <2>1. UNCHANGED <<rowVars, files, lastStart>> /\ \A c \in Conss : ~Writing(c)'
    BY <1>2 DEF Crash, Writing
  <2>2. OwnerInv' /\ FreshInv' /\ FileInv'
    BY <2>1 DEF FootageInv, OwnerInv, FreshInv, FileInv, OnDisk, RowPath, rowVars
  <2>3. WriterInv' /\ DeleteInv'
    BY <1>2, <2>1 DEF WriterInv, DeleteInv, Writing, Crash
  <2> QED
    BY <2>2, <2>3 DEF FootageInv
<1>3. CASE Start
  <2>1. /\ UNCHANGED <<ending, files, seg, out, lastStart, hub, doomed, victim>>
        /\ \A c \in Conss : hub[c] = "off"
        /\ \A a \in Actors : pc'[a] = "remove" => pc[a] = "remove"
    BY <1>0, <1>3 DEF Start, ControlInv, managerVars, passVars, hubVars, Goto
  <2>2. \A r \in Segs : \/ status'[r] = status[r]
                        \/ status[r] = "recording" /\ status'[r] = "interrupted"
    BY <1>3 DEF Start, SealInterrupted
  <2>3. OwnerInv' /\ WriterInv'
    BY <2>1 DEF FootageInv, OwnerInv, WriterInv, Writing
  <2>4. FreshInv' /\ FileInv'
    BY <2>1, <2>2 DEF FootageInv, FreshInv, FileInv, OnDisk, RowPath
  <2>5. DeleteInv'
    BY <1>0, <2>1, <2>2 DEF FootageInv, DeleteInv, Visible
  <2> QED
    BY <2>3, <2>4, <2>5 DEF FootageInv
<1>4. CASE TickBegin \/ CollectStale \/ StopAll \/ CloseStale \/ StaleClosed \/ TickEnd
  <2>1. UNCHANGED <<rowVars, files, hub, seg, out, lastStart, doomed, victim>>
    BY <1>4 DEF TickBegin, CollectStale, StopAll, CloseStale, StaleClosed, TickEnd, passVars,
       hubVars
  <2>2. \A a \in Actors : pc'[a] = "remove" => pc[a] = "remove"
    BY <1>0, <1>4 DEF TickBegin, CollectStale, StopAll, CloseStale, StaleClosed, TickEnd, Goto
  <2> QED
    BY <2>1, <2>2, FootageFrame
<1>5. ASSUME NEW a \in Actors, CloseReturns(a) \/ PassDone(a) PROVE FootageInv'
  BY <1>0, <1>5, FootageFrame DEF CloseReturns, PassDone, Goto, passVars, hubVars
<1>6. ASSUME NEW s \in Scheds,
             CheckDisk(s) \/ DecideStart(s) \/ DecideKeep(s) \/ Rotate(s) \/ Consume(s) \/ Register(s)
      PROVE FootageInv'
  <2>1. /\ UNCHANGED <<rowVars, files, seg, out, lastStart, doomed, victim>>
        /\ \A c \in Conss : Writing(c)' => hub'[c] = hub[c]
    BY <1>0, <1>6 DEF CheckDisk, DecideStart, DecideKeep, Rotate, Consume, Register, passVars,
       hubVars, Writing
  <2>2. \A a \in Actors : pc'[a] = "remove" => pc[a] = "remove"
    BY <1>0, <1>6 DEF CheckDisk, DecideStart, DecideKeep, Rotate, Consume, Register, Goto
  <2> QED
    BY <2>1, <2>2, FootageFrame
<1>7. ASSUME NEW a \in Actors, NEW s \in Scheds, Query(a, s) PROVE FootageInv'
  <2>1. UNCHANGED <<rowVars, files, hub, seg, out, lastStart, victim>>
    BY <1>7 DEF Query, hubVars
  <2>2. OwnerInv' /\ FreshInv' /\ FileInv' /\ WriterInv'
    BY <2>1 DEF FootageInv, OwnerInv, FreshInv, FileInv, WriterInv, Writing, OnDisk, RowPath, rowVars
  <2>3. DeleteInv'
    BY <1>0, <1>7, <2>1 DEF FootageInv, DeleteInv, Query, Flagged, Queryable, Visible, Goto, rowVars
  <2> QED
    BY <2>2, <2>3 DEF FootageInv
<1>8. ASSUME NEW a \in Actors, DeleteRow(a) PROVE FootageInv'
  <2>1. PICK r \in doomed[a] :
          /\ doomed' = [doomed EXCEPT ![a] = @ \ {r}]
          /\ \/ /\ status' = [status EXCEPT ![r] = "deleted"]
                /\ victim' = [victim EXCEPT ![a] = r]
                /\ pc' = [pc EXCEPT ![a] = "remove"]
             \/ UNCHANGED <<status, victim, pc>>
    BY <1>8 DEF DeleteRow, Goto
  <2>2. UNCHANGED <<ending, files, hub, seg, out, lastStart>>
    BY <1>8 DEF DeleteRow, hubVars
  <2>3. r \in Segs /\ (Visible(r) \/ status[r] = "deleted")
    BY <1>0, <2>1 DEF FootageInv, DeleteInv
  <2>4. OwnerInv' /\ FreshInv'
    BY <1>0, <2>1, <2>2, <2>3 DEF FootageInv, OwnerInv, FreshInv, Writing, OnDisk, Visible
  <2>5. WriterInv'
    <3> SUFFICES ASSUME NEW c \in Conss, Writing(c) PROVE WriterInv!(c)'
      BY <2>2 DEF WriterInv, Writing
    <3>1. <<c[1], seg[c]>> \in Segs
      BY Pairs DEF TypeInv, SegInv
    <3>2. status[<<c[1], seg[c]>>] \in {"none", "recording"}
      BY DEF FootageInv, WriterInv, Writing
    <3>3. status'[<<c[1], seg[c]>>] = status[<<c[1], seg[c]>>]
      BY <1>0, <2>1, <2>3, <3>1, <3>2 DEF Visible
    <3> QED
      BY <2>2, <3>3 DEF FootageInv, WriterInv
  <2>6. DeleteInv'
    BY <1>0, <2>1, <2>2, <2>3 DEF FootageInv, DeleteInv, Visible
  <2>7. FileInv'
    BY <1>0, <2>1, <2>2, <2>3 DEF FootageInv, FileInv, OnDisk, RowPath
  <2> QED
    BY <2>4, <2>5, <2>6, <2>7 DEF FootageInv
<1>9. ASSUME NEW a \in Actors, RemoveFile(a) PROVE FootageInv'
  <2> DEFINE r == victim[a]
  <2>1. r \in Segs /\ status[r] = "deleted" /\ r[1] \in Scheds
    BY <1>9, Pairs DEF RemoveFile, FootageInv, DeleteInv
  <2>2. UNCHANGED <<rowVars, hub, seg, out, lastStart, doomed>>
    BY <1>9 DEF RemoveFile, hubVars
  <2>3. files' = files \/ files' = files \ {RowPath(r)}
    BY <1>9 DEF RemoveFile
  <2>4. ASSUME NEW s \in Scheds, NEW t \in Times, NEW e, <<s, t>> # r, SegmentPath(s, t, e) \in files
        PROVE  SegmentPath(s, t, e) \in files'
    BY <2>1, <2>3, <2>4, PathInj, Pairs DEF RowPath
  <2>5. OwnerInv' /\ FreshInv'
    BY <2>2, <2>3 DEF FootageInv, OwnerInv, FreshInv, Writing, OnDisk, rowVars
  <2>6. WriterInv'
    <3> SUFFICES ASSUME NEW c \in Conss, Writing(c) PROVE WriterInv!(c)'
      BY <2>2 DEF WriterInv, Writing
    <3> QED
      BY <2>1, <2>2, <2>4, Pairs DEF FootageInv, WriterInv, TypeInv, SegInv, Writing, rowVars
  <2>7. DeleteInv'
    BY <1>0, <1>9, <2>2 DEF FootageInv, DeleteInv, Visible, RemoveFile, Goto, rowVars
  <2>8. FileInv'
    <3> SUFFICES ASSUME NEW q \in Segs PROVE FileInv!(q)'
      BY DEF FileInv
    <3>1. CASE status[q] = "complete"
      BY <2>1, <2>2, <2>4, <3>1, Pairs DEF FootageInv, FileInv, RowPath, rowVars
    <3>2. CASE status[q] \in {"recording", "interrupted"}
      BY <2>1, <2>2, <2>4, <3>2, Pairs DEF FootageInv, FileInv, OnDisk, rowVars
    <3> QED
      BY <2>2, <3>1, <3>2 DEF rowVars
  <2> QED
    BY <2>5, <2>6, <2>7, <2>8 DEF FootageInv
<1>10. ASSUME NEW c \in Conss, OpenFile(c) PROVE FootageInv'
  <2>1. /\ hub[c] = "create" /\ clock > lastStart[c[1]]
        /\ lastStart' = [lastStart EXCEPT ![c[1]] = clock]
        /\ seg' = [seg EXCEPT ![c] = clock] /\ hub' = [hub EXCEPT ![c] = "mark"]
        /\ files' = files \cup {SegmentPath(c[1], clock, 0)}
        /\ UNCHANGED <<rowVars, out, doomed, victim, pc>>
    BY <1>10 DEF OpenFile, passVars
  <2>2. c[1] \in Scheds /\ <<c[1], clock>> \in Segs /\ clock \in Nat
        /\ \A s \in Scheds : lastStart[s] \in Nat
    BY <1>0, Pairs, TimesFact DEF Times
  <2>3. status[<<c[1], clock>>] = "none"
    BY <2>1, <2>2 DEF FootageInv, FreshInv
  <2>4. \A d \in Conss : d # c /\ Writing(d)' => /\ Writing(d) /\ hub'[d] = hub[d] /\ seg'[d] = seg[d]
                                                 /\ seg[d] <= lastStart[d[1]] /\ seg[d] \in Nat
    BY <1>0, <2>1, TimesFact DEF FootageInv, OwnerInv, Writing, TypeInv, SegInv, Times
  <2>5. OwnerInv'
    <3>1. \A d \in Conss : Writing(d)' => seg'[d] <= lastStart'[d[1]]
      BY <1>0, <2>1, <2>2, <2>4, Pairs
    <3>2. ASSUME NEW x \in Conss, NEW y \in Conss, Writing(x)', Writing(y)', x[1] = y[1],
                 seg'[x] = seg'[y]
          PROVE  x = y
      <4>1. CASE x # c /\ y # c
        BY <2>4, <3>2, <4>1 DEF FootageInv, OwnerInv
      <4>2. CASE x = c /\ y # c
        BY <1>0, <2>1, <2>2, <2>4, <3>2, <4>2
      <4>3. CASE x # c /\ y = c
        BY <1>0, <2>1, <2>2, <2>4, <3>2, <4>3
      <4> QED
        BY <4>1, <4>2, <4>3
    <3> QED
      BY <3>1, <3>2 DEF OwnerInv
  <2>6. FreshInv'
    <3> SUFFICES ASSUME NEW r \in Segs, r[2] > lastStart'[r[1]]
                 PROVE  status'[r] = "none" /\ ~OnDisk(r)'
      BY DEF FreshInv
    <3>1. r[1] \in Scheds /\ r[2] \in Nat
      BY Pairs, TimesFact DEF Times
    <3>2. r[2] > lastStart[r[1]] /\ ~(r[1] = c[1] /\ r[2] = clock)
      BY <1>0, <2>1, <2>2, <3>1
    <3>3. \A e : SegmentPath(r[1], r[2], e) # SegmentPath(c[1], clock, 0)
      BY <2>2, <3>1, <3>2, PathInj
    <3> QED
      BY <2>1, <3>2, <3>3 DEF FootageInv, FreshInv, OnDisk, rowVars
  <2>7. WriterInv'
    <3> SUFFICES ASSUME NEW d \in Conss, Writing(d)' PROVE WriterInv!(d)'
      BY DEF WriterInv, Writing
    <3>1. CASE d = c
      BY <1>0, <2>1, <2>3, <3>1 DEF rowVars
    <3>2. CASE d # c
      BY <2>1, <2>4, <3>2 DEF FootageInv, WriterInv, rowVars
    <3> QED
      BY <3>1, <3>2
  <2>8. DeleteInv' /\ FileInv'
    BY <2>1 DEF FootageInv, DeleteInv, FileInv, Visible, OnDisk, RowPath, rowVars
  <2> QED
    BY <2>5, <2>6, <2>7, <2>8 DEF FootageInv
<1>11. ASSUME NEW c \in Conss, OpenFails(c) PROVE FootageInv'
  BY <1>0, <1>11, FootageFrame DEF OpenFails, passVars, Writing
<1>12. ASSUME NEW c \in Conss, MarkRecording(c) PROVE FootageInv'
  <2> DEFINE r == <<c[1], seg[c]>>
  <2>1. /\ hub[c] = "mark" /\ hub' = [hub EXCEPT ![c] = "open"]
        /\ UNCHANGED <<files, seg, out, lastStart, doomed, victim, pc>>
        /\ \/ status' = [status EXCEPT ![r] = "recording"] /\ ending' = [ending EXCEPT ![r] = 0]
           \/ UNCHANGED rowVars
    BY <1>12 DEF MarkRecording, passVars
  <2>2. r \in Segs /\ status[r] = "none" /\ OnDisk(r)
    BY <2>1, Pairs, TimesFact DEF FootageInv, WriterInv, TypeInv, SegInv, Writing, OnDisk
  <2>3. OwnerInv'
    BY <1>0, <2>1 DEF FootageInv, OwnerInv, Writing
  <2>4. FreshInv'
    <3>1. ~(r[2] > lastStart[r[1]])
      BY <2>2 DEF FootageInv, FreshInv
    <3> HIDE DEF r
    <3> QED
      BY <1>0, <2>1, <2>2, <3>1 DEF FootageInv, FreshInv, OnDisk, rowVars
  <2>5. WriterInv'
    <3> SUFFICES ASSUME NEW d \in Conss, Writing(d)' PROVE WriterInv!(d)'
      BY DEF WriterInv, Writing
    <3>1. CASE d = c
      BY <1>0, <2>1, <2>2, <3>1 DEF FootageInv, WriterInv, rowVars
    <3>2. CASE d # c
      <4>1. Writing(d) /\ hub'[d] = hub[d]
        BY <1>0, <2>1, <3>2 DEF Writing
      <4>2. <<d[1], seg[d]>> # r
        BY <2>1, <3>2, <4>1 DEF FootageInv, OwnerInv, Writing
      <4>3. status'[<<d[1], seg[d]>>] = status[<<d[1], seg[d]>>]
        <5> HIDE DEF r
        <5>1. <<d[1], seg[d]>> \in Segs
          BY <4>1, Pairs DEF TypeInv, SegInv
        <5> QED
          BY <1>0, <2>1, <4>2, <5>1 DEF rowVars
      <4> QED
        BY <2>1, <4>1, <4>3 DEF FootageInv, WriterInv
    <3> QED
      BY <3>1, <3>2
  <2>6. DeleteInv' /\ FileInv'
    <3> HIDE DEF r
    <3> QED
      BY <1>0, <2>1, <2>2 DEF FootageInv, DeleteInv, FileInv, Visible, OnDisk, RowPath, rowVars
  <2> QED
    BY <2>3, <2>4, <2>5, <2>6 DEF FootageInv
<1>13. ASSUME NEW c \in Conss, CloseSegment(c) PROVE FootageInv'
  <2> DEFINE r == <<c[1], seg[c]>>
             work == SegmentPath(c[1], seg[c], 0)
  <2>1. /\ hub[c] = "open" /\ hub' = [hub EXCEPT ![c] = "insert"]
        /\ UNCHANGED <<rowVars, seg, lastStart, doomed, victim, pc>>
        /\ \/ /\ files' = (files \ {work}) \cup {SegmentPath(c[1], seg[c], clock)}
              /\ out' = [out EXCEPT ![c] = clock]
           \/ UNCHANGED files /\ out' = [out EXCEPT ![c] = 0]
    BY <1>13 DEF CloseSegment, passVars
  <2>2. /\ r \in Segs /\ r[1] = c[1] /\ r[2] = seg[c] /\ c[1] \in Scheds
        /\ status[r] \in {"none", "recording"} /\ work \in files
    BY <2>1, Pairs DEF FootageInv, WriterInv, TypeInv, SegInv, Writing
  <2>3. ASSUME NEW s \in Scheds, NEW x, NEW e, <<s, x>> # r
        PROVE  SegmentPath(s, x, e) \in files' <=> SegmentPath(s, x, e) \in files
    BY <2>1, <2>2, <2>3, PathInj
  <2>4. SegmentPath(c[1], seg[c], out'[c]) \in files' /\ out'[c] \in 0 .. MaxClock
    BY <1>0, <2>1, <2>2, TimesFact
  <2>5. OwnerInv'
    BY <1>0, <2>1 DEF FootageInv, OwnerInv, Writing
  <2>6. FreshInv'
    <3> SUFFICES ASSUME NEW q \in Segs, q[2] > lastStart[q[1]] PROVE status[q] = "none" /\ ~OnDisk(q)'
      BY <2>1 DEF FreshInv, rowVars
    <3>1. q # r /\ q[1] \in Scheds /\ q = <<q[1], q[2]>>
      BY <2>1, <2>2, Pairs, TimesFact DEF FootageInv, FreshInv, OnDisk
    <3>2. status[q] = "none" /\ ~OnDisk(q)
      BY DEF FootageInv, FreshInv
    <3> QED
      BY <2>3, <3>1, <3>2 DEF OnDisk
  <2>7. WriterInv'
    <3> SUFFICES ASSUME NEW d \in Conss, Writing(d)' PROVE WriterInv!(d)'
      BY DEF WriterInv, Writing
    <3>1. CASE d = c
      BY <1>0, <2>1, <2>2, <2>4, <3>1 DEF rowVars
    <3>2. CASE d # c
      <4>1. Writing(d) /\ hub'[d] = hub[d] /\ out'[d] = out[d]
        BY <1>0, <2>1, <3>2 DEF Writing
      <4>2. <<d[1], seg[d]>> # r /\ d[1] \in Scheds
        BY <2>1, <3>2, <4>1, Pairs DEF FootageInv, OwnerInv, Writing
      <4> QED
        BY <2>1, <2>3, <4>1, <4>2 DEF FootageInv, WriterInv, rowVars
    <3> QED
      BY <3>1, <3>2
  <2>8. DeleteInv'
    BY <2>1 DEF FootageInv, DeleteInv, Visible, rowVars
  <2>9. FileInv'
    <3> SUFFICES ASSUME NEW q \in Segs PROVE FileInv!(q)'
      BY DEF FileInv
    <3>1. CASE q = r
      <4>1. OnDisk(q)'
        BY <2>2, <2>4, <3>1 DEF OnDisk
      <4>2. status[q] \in {"none", "recording"}
        BY <2>2, <3>1
      <4>3. status'[q] = status[q] /\ ending'[q] = ending[q]
        BY <2>1 DEF rowVars
      <4> QED
        BY <4>1, <4>2, <4>3 DEF FootageInv, FileInv
    <3>2. CASE q # r
      <4>1. q[1] \in Scheds /\ <<q[1], q[2]>> # r
        BY <3>2, Pairs
      <4>2. \A e : SegmentPath(q[1], q[2], e) \in files' <=> SegmentPath(q[1], q[2], e) \in files
        BY <2>3, <4>1
      <4>3. status'[q] = status[q] /\ ending'[q] = ending[q]
        BY <2>1 DEF rowVars
      <4>4. RowPath(q)' \in files' <=> RowPath(q) \in files
        BY <4>2, <4>3 DEF RowPath
      <4>5. OnDisk(q)' <=> OnDisk(q)
        BY <4>2 DEF OnDisk
      <4> QED
        BY <4>3, <4>4, <4>5 DEF FootageInv, FileInv
    <3> QED
      BY <3>1, <3>2
  <2> QED
    BY <2>5, <2>6, <2>7, <2>8, <2>9 DEF FootageInv
<1>14. ASSUME NEW c \in Conss, PublishSegment(c) PROVE FootageInv'
  <2> DEFINE r == <<c[1], seg[c]>>
  <2>1. /\ hub[c] = "insert"
        /\ hub' = [hub EXCEPT ![c] = IF c \in quit THEN "off" ELSE "create"]
        /\ seg' = [seg EXCEPT ![c] = 0] /\ out' = [out EXCEPT ![c] = 0]
        /\ UNCHANGED <<files, lastStart, doomed, victim, pc>>
        /\ \/ /\ \/ status' = [status EXCEPT ![r] = "complete"]
                 \/ status' = [status EXCEPT ![r] = "corrupted"]
              /\ ending' = [ending EXCEPT ![r] = out[c]]
           \/ UNCHANGED rowVars
    BY <1>14 DEF PublishSegment, passVars
  <2>2. /\ r \in Segs /\ r[1] = c[1] /\ r[2] = seg[c]
        /\ status[r] \in {"none", "recording"} /\ SegmentPath(r[1], r[2], out[c]) \in files
    BY <2>1, Pairs DEF FootageInv, WriterInv, TypeInv, SegInv, Writing
  <2>3. \A d \in Conss : Writing(d)' => /\ d # c /\ Writing(d) /\ hub'[d] = hub[d]
                                        /\ seg'[d] = seg[d] /\ out'[d] = out[d]
    BY <1>0, <2>1 DEF Writing
  <2>4. OwnerInv'
    BY <2>1, <2>3 DEF FootageInv, OwnerInv
  <2>5. FreshInv'
    <3>1. ~(r[2] > lastStart[r[1]])
      BY <1>0, <2>1, <2>2, TimesFact DEF FootageInv, FreshInv, OnDisk
    <3> HIDE DEF r
    <3> QED
      BY <1>0, <2>1, <2>2, <3>1 DEF FootageInv, FreshInv, OnDisk, rowVars
  <2>6. WriterInv'
    <3> SUFFICES ASSUME NEW d \in Conss, Writing(d)' PROVE WriterInv!(d)'
      BY DEF WriterInv, Writing
    <3>1. <<d[1], seg[d]>> # r
      BY <2>1, <2>3 DEF FootageInv, OwnerInv, Writing
    <3>2. <<d[1], seg[d]>> \in Segs
      BY <2>3, Pairs DEF TypeInv, SegInv
    <3>3. status'[<<d[1], seg[d]>>] = status[<<d[1], seg[d]>>]
      <4> HIDE DEF r
      <4> QED
        BY <1>0, <2>1, <3>1, <3>2 DEF rowVars
    <3> QED
      BY <2>1, <2>3, <3>3 DEF FootageInv, WriterInv
  <2>7. DeleteInv' /\ FileInv'
    <3> HIDE DEF r
    <3>1. DeleteInv'
      BY <1>0, <2>1, <2>2 DEF FootageInv, DeleteInv, Visible, rowVars
    <3>2. FileInv'
      BY <1>0, <2>1, <2>2 DEF FootageInv, FileInv, OnDisk, RowPath, rowVars
    <3> QED
      BY <3>1, <3>2
  <2> QED
    BY <2>4, <2>5, <2>6, <2>7 DEF FootageInv
<1>15. CASE UNCHANGED vars
  BY <1>15, FootageFrame DEF vars, passVars, hubVars, Writing
<1> QED
  BY <1>1, <1>2, <1>3, <1>4, <1>5, <1>6, <1>7, <1>8, <1>9, <1>10, <1>11, <1>12, <1>13, <1>14,
     <1>15 DEF Next, ManagerStep, WorkerStep, HubStep

RecorderInv == TypeInv /\ ControlInv /\ FootageInv

\* The inductive invariant of the recorder, for schedules that do not share a
\* directory.
LEMMA RecorderInvariant == ASSUME DistinctDirs PROVE Spec => []RecorderInv
<1>1. Init => RecorderInv
  BY TypeInit, ControlInit, FootageInit DEF RecorderInv
<1>2. RecorderInv /\ [Next]_vars => RecorderInv'
  BY TypeStep, ControlStep, FootageStep DEF RecorderInv
<1> QED
  BY <1>1, <1>2, PTL DEF Spec

\* When no two schedules share a directory, a row that playback can see has its
\* footage on disk, whatever the tick, the goroutines, the hub's callbacks and
\* retention interleave, through any I/O failures and crashes.
THEOREM FootageCorrect == ASSUME DistinctDirs PROVE Spec => []VisibleHasFootage
<1>1. RecorderInv => VisibleHasFootage
  <2> SUFFICES ASSUME RecorderInv, NEW r \in Segs, Visible(r) PROVE VisibleHasFootage!(r)
    BY DEF VisibleHasFootage
  <2>1. CASE status[r] = "complete"
    BY <2>1 DEF RecorderInv, FootageInv, FileInv
  <2>2. CASE status[r] = "interrupted"
    <3>1. ending[r] = 0 /\ OnDisk(r)
      BY <2>2 DEF RecorderInv, FootageInv, FileInv
    <3> QED
      BY <2>2, <3>1, TimesFact DEF OnDisk, RowPath
  <2> QED
    BY <2>1, <2>2 DEF Visible
<1> QED
  BY <1>1, RecorderInvariant, PTL

\* Likewise the file a consumer writes stays on disk until onClose renames it.
THEOREM OpenFileCorrect == ASSUME DistinctDirs PROVE Spec => []OpenKeepsFile
<1>1. RecorderInv => OpenKeepsFile
  BY DEF RecorderInv, FootageInv, WriterInv, OpenKeepsFile
<1> QED
  BY <1>1, RecorderInvariant, PTL
-----------------------------------------------------------------------------
(* The tick: what it guarantees of the active map once its goroutines returned, *)
(* and that no consumer escapes it. *)

\* Handles are out of the active map only while the manager closes them.
HeldInv == pc[Main] \notin {"stale", "closing"} => held = {}

\* A goroutine that starts or replaces a recording has none in the active map,
\* and only a schedule of this tick has a goroutine.
BusyInv ==
  \A s \in Scheds :
    /\ pc[s] \in {"closing", "consume", "register"} => active[s] = 0
    /\ pc[s] # "idle" => s \in tickRunning

\* A goroutine that returned left its schedule's recording young enough.
DueInv ==
  pc[Main] = "process" =>
    \A s \in Timed \cap tickRunning :
      pc[s] = "idle" /\ active[s] # 0 => tickNow < active[s] + SegmentTime

\* A tick never runs an explicit schedule beside its channel's default one.
YieldInv == \A s \in Explicit \cap tickRunning : ChannelOf[s] \notin tickRunning

TickInv == /\ HeldInv /\ BusyInv /\ DueInv /\ YieldInv
           /\ NoLeakedConsumer /\ RotationOnTime /\ DefaultYields

\* The types the steps below need.
LEMMA TickTypes ==
  TypeInv => /\ pc \in [Actors -> WorkerPcs \cup MainPcs] /\ hub \in [Conss -> HubStates]
             /\ active \in [Scheds -> 0 .. MaxClock] /\ tickNow \in 0 .. MaxClock
             /\ tickRunning \in SUBSET Scheds /\ clock \in Times
  BY DEF TypeInv, TypeOK

\* An explicit schedule's channel names the default schedule it replaces.
LEMMA ChannelIn == \A s \in Explicit : ChannelOf[s] \in Channels /\ ChannelOf[s] \in Scheds
                                      /\ ChannelOf[s] \notin Explicit
  BY ConstantsAssumption DEF Scheds

\* Before Start no tick has run.
LEMMA TickInit == Init => TickInv
<1> SUFFICES ASSUME Init PROVE TickInv
  OBVIOUS
<1> USE ConstantsAssumption, MainNotSched
<1>1. HeldInv /\ BusyInv /\ DueInv /\ YieldInv
  BY DEF Init, HeldInv, BusyInv, DueInv, YieldInv
<1>2. NoLeakedConsumer /\ RotationOnTime /\ DefaultYields
  BY ChannelIn DEF Init, NoLeakedConsumer, RotationOnTime, DefaultYields
<1> QED
  BY <1>1, <1>2 DEF TickInv

\* What a step that leaves the tick's state alone preserves: consumers may die or
\* be told to close, goroutines may move between their retention steps.
LEMMA TickFrame ==
  ASSUME TypeInv, TickInv, UNCHANGED <<tickNow, tickRunning, active, held>>, quit \subseteq quit',
         pc'[Main] \notin {"stale", "closing"} <=> pc[Main] \notin {"stale", "closing"},
         pc'[Main] = "process" <=> pc[Main] = "process",
         \A c \in Conss : hub'[c] # "off" => hub[c] # "off",
         \A s \in Scheds : \/ pc'[s] = pc[s]
                           \/ /\ pc[s] \notin {"idle", "register"}
                              /\ pc'[s] \notin {"idle", "closing", "consume", "register"}
  PROVE  TickInv'
<1> USE DEF TickInv
<1>1. HeldInv' /\ YieldInv' /\ BusyInv'
  BY DEF HeldInv, YieldInv, BusyInv
<1>4. DueInv'
  BY ConstantsAssumption DEF DueInv
<1>2. NoLeakedConsumer'
  BY Pairs DEF NoLeakedConsumer
<1>3. RotationOnTime' /\ DefaultYields'
  BY DEF RotationOnTime, DefaultYields
<1> QED
  BY <1>1, <1>2, <1>3, <1>4

\* A step of one goroutine of the tick that ends at next: what it owes its schedule.
WorkerMoves(s, next) ==
  /\ pc[s] # "idle" /\ pc' = [pc EXCEPT ![s] = next] /\ UNCHANGED <<tickNow, tickRunning, held>>
  /\ \A t \in Scheds \ {s} : active'[t] = active[t]
  /\ next \in {"closing", "consume", "register"} => active'[s] = 0
  /\ next = "idle" /\ s \in Timed /\ active'[s] # 0 => tickNow < active'[s] + SegmentTime
  /\ \A c \in Conss : hub'[c] # "off" /\ c \notin quit' =>
       \/ hub[c] # "off" /\ c \notin quit /\ c[1] # s
       \/ c[1] = s /\ active'[s] = c[2]
       \/ c = <<s, tickNow>> /\ next = "register"

\* The properties of its own schedule suffice for a goroutine's step.
LEMMA TickWorker ==
  ASSUME TypeInv, ControlInv, TickInv, NEW s \in Scheds, NEW next \in WorkerPcs, WorkerMoves(s, next)
  PROVE  TickInv'
<1> USE MainNotSched, TickTypes DEF TickInv, WorkerMoves
<1>1. pc[Main] = "process" /\ pc'[Main] = "process"
  BY DEF ControlInv
<1>2. \A t \in Scheds \ {s} : pc'[t] = pc[t]
  OBVIOUS
<1>3. pc'[s] = next
  OBVIOUS
<1>4. HeldInv' /\ BusyInv' /\ YieldInv'
  BY <1>1, <1>2, <1>3 DEF HeldInv, BusyInv, YieldInv
<1>5. DueInv'
  BY <1>1, <1>2, <1>3 DEF DueInv
<1>6. NoLeakedConsumer'
  BY <1>2, <1>3, Pairs DEF NoLeakedConsumer
<1> QED
  BY <1>1, <1>4, <1>5, <1>6 DEF RotationOnTime, DefaultYields

\* Every step of the manager, its goroutines and the hub keeps the tick's
\* invariant; one case per action that moves the tick or a handle.
LEMMA TickStep == ASSUME TypeInv, ControlInv, TickInv, [Next]_vars PROVE TickInv'
<1> USE MainNotSched, TickTypes
<1>1. CASE Elapse \/ Start \/ Stop \/ (\E c \in Channels : EditCameras(c)) \/ UNCHANGED vars
  <2>1. UNCHANGED <<tickNow, tickRunning, active, held, quit, hub>>
    BY <1>1 DEF Elapse, Start, Stop, EditCameras, vars, managerVars, hubVars
  <2>2. /\ pc'[Main] \notin {"stale", "closing"} <=> pc[Main] \notin {"stale", "closing"}
        /\ pc'[Main] = "process" <=> pc[Main] = "process"
        /\ \A s \in Scheds : pc'[s] = pc[s]
    BY <1>1 DEF Elapse, Start, Stop, EditCameras, vars, Goto
  <2> QED
    BY <2>1, <2>2, TickFrame
<1>2. CASE Crash
  <2>1. HeldInv' /\ BusyInv' /\ DueInv' /\ YieldInv'
    BY <1>2 DEF Crash, HeldInv, BusyInv, DueInv, YieldInv
  <2>2. NoLeakedConsumer' /\ RotationOnTime' /\ DefaultYields'
    BY <1>2, ConstantsAssumption DEF Crash, NoLeakedConsumer, RotationOnTime, DefaultYields, Scheds
  <2> QED
    BY <2>1, <2>2 DEF TickInv
<1>3. CASE TickBegin
  <2> DEFINE Begun(inWindow, defaults) ==
               /\ tickRunning' = inWindow \cup defaults
               /\ pc' = [a \in Actors |->
                           IF a = Main THEN "process"
                           ELSE IF a \notin inWindow \cup defaults THEN "idle"
                           ELSE IF a \in LowFree \cup MinFree THEN "disk" ELSE "decide"]
  <2>0. PICK listed \in SUBSET Explicit :
          \E inWindow \in SUBSET listed, defaults \in {Defaults(listed), {}} : Begun(inWindow, defaults)
    BY <1>3 DEF TickBegin
  <2>1. PICK inWindow \in SUBSET listed, defaults \in {Defaults(listed), {}} : Begun(inWindow, defaults)
    BY <2>0
  <2>2. pc[Main] = "idle" /\ pc'[Main] = "process" /\ UNCHANGED <<active, held, hub, quit>>
    BY <1>3, <2>1 DEF TickBegin, hubVars
  <2>3. HeldInv' /\ BusyInv' /\ DueInv'
    BY <2>1, <2>2, ConstantsAssumption DEF TickInv, HeldInv, BusyInv, DueInv
  <2>4. YieldInv'
    <3> SUFFICES ASSUME NEW s \in Explicit, s \in tickRunning', ChannelOf[s] \in tickRunning'
                 PROVE  FALSE
      BY DEF YieldInv
    <3>1. defaults \subseteq Defaults(listed) /\ defaults \cap Explicit = {}
      BY <2>1, ConstantsAssumption DEF Defaults, TypeInv, TypeOK
    <3>2. s \in listed /\ ChannelOf[s] \in Defaults(listed)
      BY <2>1, <3>1, ChannelIn
    <3> QED
      BY <3>2 DEF Defaults
  <2>5. NoLeakedConsumer'
    BY <2>1, <2>2, Pairs DEF TickInv, NoLeakedConsumer, ControlInv
  <2> QED
    BY <2>2, <2>3, <2>4, <2>5 DEF TickInv, RotationOnTime, DefaultYields
<1>4. CASE CollectStale
  <2>1. /\ pc[Main] = "process" /\ pc' = [pc EXCEPT ![Main] = "stale"]
        /\ \A s \in Scheds : pc[s] = "idle"
        /\ held' = {<<s, active[s]>> : s \in {x \in Scheds \ tickRunning : active[x] # 0}}
        /\ active' = [s \in Scheds |-> IF s \in tickRunning THEN active[s] ELSE 0]
        /\ UNCHANGED <<tickNow, tickRunning, hub, quit>>
    BY <1>4 DEF CollectStale, Goto, hubVars
  <2>2. HeldInv' /\ BusyInv' /\ DueInv' /\ YieldInv'
    BY <2>1 DEF TickInv, HeldInv, BusyInv, DueInv, YieldInv
  <2>3. NoLeakedConsumer'
    <3> SUFFICES ASSUME NEW c \in Conss, hub[c] # "off", c \notin quit
                 PROVE  active'[c[1]] = c[2] \/ c \in held'
      BY <2>1 DEF NoLeakedConsumer
    <3>1. c[1] \in Scheds /\ c[2] # 0 /\ c = <<c[1], c[2]>> /\ active[c[1]] = c[2]
      BY <2>1, Pairs, TimesFact DEF TickInv, HeldInv, NoLeakedConsumer
    <3> QED
      BY <2>1, <3>1
  <2>4. RotationOnTime' /\ DefaultYields'
    BY <2>1, ConstantsAssumption
       DEF TickInv, DueInv, YieldInv, RotationOnTime, DefaultYields, Scheds
  <2> QED
    BY <2>2, <2>3, <2>4 DEF TickInv
<1>5. CASE StopAll
  <2>1. /\ pc[Main] = "idle" /\ pc' = [pc EXCEPT ![Main] = "stale"]
        /\ held' = {<<s, active[s]>> : s \in {x \in Scheds : active[x] # 0}}
        /\ active' = [s \in Scheds |-> 0]
        /\ UNCHANGED <<tickNow, tickRunning, hub, quit>>
    BY <1>5 DEF StopAll, Goto, hubVars
  <2>2. HeldInv' /\ BusyInv' /\ DueInv' /\ YieldInv'
    BY <2>1 DEF TickInv, HeldInv, BusyInv, DueInv, YieldInv
  <2>3. NoLeakedConsumer'
    <3> SUFFICES ASSUME NEW c \in Conss, hub[c] # "off", c \notin quit PROVE c \in held'
      BY <2>1 DEF NoLeakedConsumer
    <3>1. c[1] \in Scheds /\ c[2] # 0 /\ c = <<c[1], c[2]>> /\ active[c[1]] = c[2]
      BY <2>1, Pairs, TimesFact DEF TickInv, HeldInv, NoLeakedConsumer, ControlInv
    <3> QED
      BY <2>1, <3>1
  <2>4. RotationOnTime' /\ DefaultYields'
    BY <2>1, ConstantsAssumption DEF RotationOnTime, DefaultYields, Scheds
  <2> QED
    BY <2>2, <2>3, <2>4 DEF TickInv
<1>6. CASE CloseStale
  <2>1. /\ pc[Main] = "stale" /\ pc' = [pc EXCEPT ![Main] = "closing"]
        /\ UNCHANGED <<tickNow, tickRunning, active, hub>>
        /\ \E c \in held : held' = held \ {c} /\ quit' = quit \cup {c}
    BY <1>6 DEF CloseStale, Goto
  <2>2. HeldInv' /\ BusyInv' /\ DueInv' /\ YieldInv'
    BY <2>1 DEF TickInv, HeldInv, BusyInv, DueInv, YieldInv
  <2>3. NoLeakedConsumer'
    BY <2>1, Pairs DEF TickInv, NoLeakedConsumer
  <2> QED
    BY <2>1, <2>2, <2>3 DEF TickInv, RotationOnTime, DefaultYields
<1>7. CASE StaleClosed
  <2>1. /\ pc[Main] = "stale" /\ held = {} /\ tickRunning' = {}
        /\ pc' = [pc EXCEPT ![Main] = IF halting THEN "stopped" ELSE "retain"]
        /\ UNCHANGED <<tickNow, active, held, hub, quit>>
    BY <1>7 DEF StaleClosed, Goto, hubVars
  <2>2. HeldInv' /\ DueInv' /\ YieldInv'
    BY <2>1 DEF HeldInv, DueInv, YieldInv
  <2>3. BusyInv' /\ NoLeakedConsumer'
    BY <2>1, Pairs DEF TickInv, ControlInv, BusyInv, NoLeakedConsumer
  <2> QED
    BY <2>1, <2>2, <2>3 DEF TickInv, RotationOnTime, DefaultYields
<1>8. CASE CloseReturns(Main) \/ TickEnd \/ (\E s \in Scheds : Query(Main, s))
           \/ DeleteRow(Main) \/ RemoveFile(Main) \/ PassDone(Main)
  <2>1. UNCHANGED <<tickNow, tickRunning, active, held, quit, hub>>
    BY <1>8 DEF CloseReturns, TickEnd, Query, DeleteRow, RemoveFile, PassDone, managerVars, hubVars
  <2>2. /\ pc'[Main] \notin {"stale", "closing"} <=> pc[Main] \notin {"stale", "closing"}
        /\ pc'[Main] = "process" <=> pc[Main] = "process"
        /\ \A s \in Scheds : pc'[s] = pc[s]
    BY <1>8 DEF CloseReturns, TickEnd, Query, DeleteRow, RemoveFile, PassDone, Goto
  <2> QED
    BY <2>1, <2>2, TickFrame
<1>9. ASSUME NEW s \in Scheds,
             CheckDisk(s) \/ Query(s, s) \/ DeleteRow(s) \/ RemoveFile(s) \/ PassDone(s)
      PROVE TickInv'
  <2>1. UNCHANGED <<tickNow, tickRunning, active, held, quit, hub>>
    BY <1>9 DEF CheckDisk, Query, DeleteRow, RemoveFile, PassDone, managerVars, hubVars
  <2>2. /\ pc'[Main] = pc[Main]
        /\ \A t \in Scheds : \/ pc'[t] = pc[t]
                             \/ /\ pc[t] \notin {"idle", "register"}
                                /\ pc'[t] \notin {"idle", "closing", "consume", "register"}
    BY <1>9 DEF CheckDisk, Query, DeleteRow, RemoveFile, PassDone, Goto
  <2> QED
    BY <2>1, <2>2, TickFrame
<1>10. ASSUME NEW s \in Scheds, CloseReturns(s) PROVE TickInv'
  <2>1. /\ pc[s] = "closing" /\ pc' = [pc EXCEPT ![s] = "consume"]
        /\ UNCHANGED <<tickNow, tickRunning, active, held, hub, quit>>
    BY <1>10 DEF CloseReturns, Goto, managerVars, hubVars
  <2>2. pc[Main] = "process" /\ active[s] = 0 /\ held = {}
    BY <2>1 DEF ControlInv, TickInv, BusyInv, HeldInv
  <2>3. \A c \in Conss : hub[c] # "off" /\ c \notin quit => c[1] # s
    BY <2>1, <2>2, Pairs, TimesFact DEF TickInv, NoLeakedConsumer
  <2>5. WorkerMoves(s, "consume")
    BY <2>1, <2>2, <2>3 DEF WorkerMoves
  <2> QED
    BY <2>5, TickWorker DEF WorkerPcs
<1>11. ASSUME NEW s \in Scheds, DecideStart(s) \/ DecideKeep(s) PROVE TickInv'
  <2>1. PICK next \in {"consume", "idle"} :
          /\ pc[s] = "decide" /\ pc' = [pc EXCEPT ![s] = next]
          /\ next = "consume" => active[s] = 0
          /\ active[s] # 0 => ~Due(s)
          /\ UNCHANGED <<tickNow, tickRunning, active, held, hub, quit>>
    BY <1>11 DEF DecideStart, DecideKeep, Goto, managerVars, hubVars
  <2>2. \A c \in Conss : hub[c] # "off" /\ c \notin quit /\ c[1] = s => active[s] = c[2]
    BY <2>1, Pairs DEF ControlInv, TickInv, HeldInv, NoLeakedConsumer
  <2>3. s \in Timed /\ active[s] # 0 => tickNow < active[s] + SegmentTime
    BY <2>1, ConstantsAssumption DEF Due
  <2>5. WorkerMoves(s, next)
    BY <2>1, <2>2, <2>3 DEF WorkerMoves
  <2> QED
    BY <2>5, TickWorker DEF WorkerPcs
<1>12. ASSUME NEW s \in Scheds, Rotate(s) PROVE TickInv'
  <2>1. /\ pc[s] = "decide" /\ pc' = [pc EXCEPT ![s] = "closing"]
        /\ active' = [active EXCEPT ![s] = 0] /\ quit' = quit \cup {<<s, active[s]>>}
        /\ UNCHANGED <<tickNow, tickRunning, held, hub>>
    BY <1>12 DEF Rotate, Goto
  <2>2. \A c \in Conss : hub[c] # "off" /\ c \notin quit' => c \notin quit /\ c[1] # s
    BY <2>1, Pairs DEF ControlInv, TickInv, HeldInv, NoLeakedConsumer
  <2>5. WorkerMoves(s, "closing")
    BY <2>1, <2>2 DEF WorkerMoves
  <2> QED
    BY <2>5, TickWorker DEF WorkerPcs
<1>13. ASSUME NEW s \in Scheds, Consume(s) PROVE TickInv'
  <2>1. pc[s] = "consume" /\ UNCHANGED <<tickNow, tickRunning, active, held, quit>>
    BY <1>13 DEF Consume, managerVars
  <2>2. active[s] = 0 /\ held = {}
    BY <2>1 DEF ControlInv, TickInv, BusyInv, HeldInv
  <2>3. \A c \in Conss : hub[c] # "off" /\ c \notin quit => c[1] # s
    BY <2>1, <2>2, Pairs, TimesFact DEF TickInv, NoLeakedConsumer
  <2>4. CASE hub' = [hub EXCEPT ![<<s, tickNow>>] = "create"] /\ Goto(s, "register")
    <3>1. \A c \in Conss : c # <<s, tickNow>> => hub'[c] = hub[c]
      BY <2>4
    <3>2. WorkerMoves(s, "register")
      BY <2>1, <2>2, <2>3, <2>4, <3>1 DEF WorkerMoves, Goto
    <3> QED
      BY <3>2, TickWorker DEF WorkerPcs
  <2>5. CASE UNCHANGED hub /\ Goto(s, "idle")
    <3>1. WorkerMoves(s, "idle")
      BY <2>1, <2>2, <2>3, <2>5 DEF WorkerMoves, Goto
    <3> QED
      BY <3>1, TickWorker DEF WorkerPcs
  <2> QED
    BY <1>13, <2>4, <2>5 DEF Consume
<1>14. ASSUME NEW s \in Scheds, Register(s) PROVE TickInv'
  <2>1. /\ pc[s] = "register" /\ pc' = [pc EXCEPT ![s] = "idle"]
        /\ active' = [active EXCEPT ![s] = tickNow]
        /\ UNCHANGED <<tickNow, tickRunning, held, hub, quit>>
    BY <1>14 DEF Register, Goto, hubVars
  <2>2. active[s] = 0 /\ held = {}
    BY <2>1 DEF ControlInv, TickInv, BusyInv, HeldInv
  <2>3. \A c \in Conss : hub[c] # "off" /\ c \notin quit /\ c[1] = s => active'[s] = c[2]
    BY <2>1, <2>2, Pairs, TimesFact DEF TickInv, NoLeakedConsumer
  <2>4. tickNow < active'[s] + SegmentTime
    BY <2>1, ConstantsAssumption
  <2>5. WorkerMoves(s, "idle")
    BY <2>1, <2>2, <2>3, <2>4 DEF WorkerMoves
  <2> QED
    BY <2>5, TickWorker DEF WorkerPcs
<1>15. ASSUME NEW c \in Conss, HubStep(c) PROVE TickInv'
  <2>1. UNCHANGED <<pc, tickNow, tickRunning, active, held>> /\ quit \subseteq quit'
    BY <1>15 DEF HubStep, OpenFile, OpenFails, MarkRecording, CloseSegment, PublishSegment,
       managerVars
  <2>2. \A d \in Conss : hub'[d] # "off" => hub[d] # "off"
    BY <1>15 DEF HubStep, OpenFile, OpenFails, MarkRecording, CloseSegment, PublishSegment
  <2> QED
    BY <2>1, <2>2, TickFrame
<1> QED
  BY <1>1, <1>2, <1>3, <1>4, <1>5, <1>6, <1>7, <1>8, <1>9, <1>10, <1>11, <1>12, <1>13, <1>14,
     <1>15 DEF Next, ManagerStep, WorkerStep

\* The tick's invariant, for any schedules, with and without shared directories.
LEMMA TickInvariant == Spec => [](TypeInv /\ ControlInv /\ TickInv)
<1>1. Init => TypeInv /\ ControlInv /\ TickInv
  BY TypeInit, ControlInit, TickInit
<1>2. TypeInv /\ ControlInv /\ TickInv /\ [Next]_vars => (TypeInv /\ ControlInv /\ TickInv)'
  BY TypeStep, ControlStep, TickStep
<1> QED
  BY <1>1, <1>2, PTL DEF Spec

\* Rotation, the removal of stale recordings, Stop and failed starts lose no
\* consumer: one that nobody told to close can still be reached to be closed.
THEOREM NoConsumerLeaks == Spec => []NoLeakedConsumer
<1>1. TickInv => NoLeakedConsumer
  BY DEF TickInv
<1> QED
  BY <1>1, TickInvariant, PTL

\* Once the goroutines of a tick returned, no recording with SegmentMinutes is
\* older than that, whichever of them failed to close, start or rotate.
THEOREM RotatesOnTime == Spec => []RotationOnTime
<1>1. TickInv => RotationOnTime
  BY DEF TickInv
<1> QED
  BY <1>1, TickInvariant, PTL

\* Between ticks a channel is not recorded twice, by an explicit schedule and by
\* the default one that it replaces.
THEOREM DefaultGivesWay == Spec => []DefaultYields
<1>1. TickInv => DefaultYields
  BY DEF TickInv
<1> QED
  BY <1>1, TickInvariant, PTL
-----------------------------------------------------------------------------
(* The life cycle, and the files that only failed I/O or a crash leaves unnamed. *)

\* The refinement mapping, as Recorder's instance Life substitutes it.
StateOf(st) ==
  CASE st = "none" -> "absent"
    [] st = "recording" -> "recording"
    [] st \in {"complete", "interrupted"} -> "playable"
    [] st = "corrupted" -> "unplayable"
    [] st = "deleted" -> "deleted"
Rows == [r \in Segs |-> StateOf(status[r])]
Footage == {r \in Segs : OnDisk(r)}

\* The mapping's row is a function of the index's row.
LEMMA RowsMapped == Rows = [r \in Segs |-> RowState(r)]
  BY DEF Rows, StateOf, RowState

\* ... in the next state as well.
LEMMA RowsMappedNext == Rows' = [r \in Segs |-> RowState(r)']
  BY DEF Rows, StateOf, RowState

\* What each status of the index stands for.
LEMMA StateValues ==
  /\ StateOf("none") = "absent" /\ StateOf("recording") = "recording"
  /\ StateOf("complete") = "playable" /\ StateOf("interrupted") = "playable"
  /\ StateOf("corrupted") = "unplayable" /\ StateOf("deleted") = "deleted"
  BY DEF StateOf

\* A step that moves neither rows nor footage is a stutter of the life cycle.
LEMMA LifeStutter ==
  ASSUME UNCHANGED <<Rows, Footage>> PROVE [Life!Next]_(Life!lifeVars)
  BY RowsMapped, RowsMappedNext DEF Footage, Life!lifeVars

\* Rows move only with their status, footage only with the files.
LEMMA LifeFrame ==
  /\ (UNCHANGED status => UNCHANGED Rows)
  /\ (UNCHANGED files => UNCHANGED Footage)
<1>1. UNCHANGED status => UNCHANGED Rows
  BY DEF Rows
<1>2. ASSUME UNCHANGED files PROVE UNCHANGED Footage
  <2>1. \A r \in Segs : OnDisk(r)' <=> OnDisk(r)
    BY <1>2 DEF OnDisk
  <2> QED
    BY <2>1 DEF Footage
<1> QED
  BY <1>1, <1>2

\* A step that writes the row of one segment.
LEMMA LifeRow ==
  ASSUME TypeInv, NEW r \in Segs, NEW s, status' = [status EXCEPT ![r] = s]
  PROVE  Rows' = [Rows EXCEPT ![r] = StateOf(s)] /\ Rows[r] = StateOf(status[r])
<1>1. status \in [Segs -> Statuses]
  BY DEF TypeInv, TypeOK
<1>2. \A q \in Segs : status'[q] = IF q = r THEN s ELSE status[q]
  BY <1>1
<1>3. \A q \in Segs : StateOf(status'[q]) = IF q = r THEN StateOf(s) ELSE StateOf(status[q])
  BY <1>2
<1>4. Rows' = [q \in Segs |-> IF q = r THEN StateOf(s) ELSE StateOf(status[q])]
  BY <1>3 DEF Rows
<1> QED
  BY <1>4 DEF Rows

\* Every segment's life begins with no row and no file.
LEMMA LifeInit == Init => Life!Init
  BY DEF Init, Life!Init, RowState, OnDisk

\* Every step of the recorder is a step of the life cycle of one segment, the
\* seal of a restart, or leaves rows and footage as they are.
LEMMA LifeStep ==
  ASSUME DistinctDirs, RecorderInv, [Next]_vars PROVE [Life!Next]_(Life!lifeVars)
<1>0. /\ TypeInv /\ status \in [Segs -> Statuses] /\ clock \in Times /\ seg \in [Conss -> 0 .. MaxClock]
      /\ out \in [Conss -> 0 .. MaxClock] /\ lastStart \in [Scheds -> 0 .. MaxClock]
      /\ hub \in [Conss -> HubStates] /\ doomed \in [Actors -> SUBSET Segs]
  BY DEF RecorderInv, TypeInv, TypeOK
<1>1. ASSUME UNCHANGED <<status, files>> PROVE [Life!Next]_(Life!lifeVars)
  BY <1>1, LifeFrame, LifeStutter
<1>2. CASE Elapse \/ Stop \/ Crash \/ (\E c \in Channels : EditCameras(c)) \/ TickBegin
           \/ CollectStale \/ StopAll \/ CloseStale \/ StaleClosed \/ TickEnd \/ UNCHANGED vars
  BY <1>1, <1>2 DEF Elapse, Stop, Crash, EditCameras, TickBegin, CollectStale, StopAll, CloseStale,
     StaleClosed, TickEnd, vars, rowVars
<1>3. CASE \E a \in Actors : CloseReturns(a) \/ PassDone(a) \/ \E s \in Scheds : Query(a, s)
  BY <1>1, <1>3 DEF CloseReturns, PassDone, Query, rowVars
<1>4. CASE \E s \in Scheds :
             CheckDisk(s) \/ DecideStart(s) \/ DecideKeep(s) \/ Rotate(s) \/ Consume(s) \/ Register(s)
  BY <1>1, <1>4 DEF CheckDisk, DecideStart, DecideKeep, Rotate, Consume, Register, rowVars
<1>5. CASE \E c \in Conss : OpenFails(c)
  BY <1>1, <1>5 DEF OpenFails, rowVars
<1>6. CASE Start
  <2>1. UNCHANGED Footage
    BY <1>6, LifeFrame DEF Start
  <2>2. CASE status' = SealInterrupted
    <3>1. \A r \in Segs : RowState(r)' = IF Rows[r] = "recording" THEN "playable" ELSE Rows[r]
      <4> SUFFICES ASSUME NEW r \in Segs
                   PROVE  StateOf(status'[r]) = IF Rows[r] = "recording" THEN "playable" ELSE Rows[r]
        BY RowsMappedNext DEF Rows
      <4>1. status[r] \in Statuses /\ Rows[r] = StateOf(status[r])
            /\ status'[r] = IF status[r] = "recording" THEN "interrupted" ELSE status[r]
        BY <1>0, <2>2 DEF SealInterrupted, Rows
      <4> QED
        BY <4>1, StateValues DEF Statuses
    <3>2. Life!Seal
      BY <2>1, <3>1, RowsMapped DEF Life!Seal, Footage
    <3> QED
      BY <3>2 DEF Life!Next
  <2>3. CASE UNCHANGED status
    BY <2>1, <2>3, LifeFrame, LifeStutter
  <2> QED
    BY <1>6, <2>2, <2>3 DEF Start
<1>7. ASSUME NEW c \in Conss, OpenFile(c) PROVE Life!Next
  <2> DEFINE r == <<c[1], clock>>
  <2>1. r \in Segs /\ status[r] = "none" /\ ~OnDisk(r)
    BY <1>0, <1>7, Pairs DEF OpenFile, RecorderInv, FootageInv, FreshInv
  <2>2. UNCHANGED Rows
    BY <1>7, LifeFrame DEF OpenFile, rowVars
  <2>3. \A q \in Segs : OnDisk(q)' <=> OnDisk(q) \/ q = r
    <3>1. files' = files \cup {SegmentPath(c[1], clock, 0)}
      BY <1>7 DEF OpenFile
    <3> QED
      BY <3>1, PathInj, Pairs, TimesFact DEF OnDisk
  <2>4. Footage' = Footage \cup {r} /\ r \notin Footage /\ Rows[r] = "absent"
    BY <2>1, <2>3, StateValues DEF Footage, Rows
  <2>5. Life!Create(r)
    BY <2>2, <2>4, RowsMapped, RowsMappedNext DEF Life!Create, Footage
  <2> QED
    BY <2>1, <2>5 DEF Life!Next
<1>8. ASSUME NEW c \in Conss, MarkRecording(c) PROVE [Life!Next]_(Life!lifeVars)
  <2> DEFINE r == <<c[1], seg[c]>>
  <2>1. r \in Segs /\ status[r] = "none" /\ OnDisk(r)
    BY <1>8, Pairs, TimesFact
       DEF MarkRecording, RecorderInv, TypeInv, SegInv, Writing, FootageInv, WriterInv, OnDisk
  <2>2. UNCHANGED Footage
    BY <1>8, LifeFrame DEF MarkRecording
  <2>3. CASE status' = [status EXCEPT ![r] = "recording"]
    <3> HIDE DEF r
    <3>1. Rows' = [Rows EXCEPT ![r] = "recording"] /\ Rows[r] = "absent"
      <4>1. Rows' = [Rows EXCEPT ![r] = StateOf("recording")] /\ Rows[r] = StateOf(status[r])
        BY <1>0, <2>1, <2>3, LifeRow
      <4> QED
        BY <2>1, <4>1, StateValues
    <3>2. r \in Footage
      BY <2>1 DEF Footage
    <3>3. Life!Begin(r)
      BY <2>2, <3>1, <3>2, RowsMapped, RowsMappedNext DEF Life!Begin, Footage
    <3> QED
      BY <2>1, <3>3 DEF Life!Next
  <2>4. CASE UNCHANGED status
    BY <2>2, <2>4, LifeFrame, LifeStutter
  <2> QED
    BY <1>8, <2>3, <2>4 DEF MarkRecording, rowVars
<1>9. ASSUME NEW c \in Conss, CloseSegment(c) PROVE [Life!Next]_(Life!lifeVars)
  <2> DEFINE work == SegmentPath(c[1], seg[c], 0)
             final == SegmentPath(c[1], seg[c], clock)
  <2>1. UNCHANGED Rows /\ (files' = files \/ files' = (files \ {work}) \cup {final})
    BY <1>9, LifeFrame DEF CloseSegment, rowVars
  <2>2. <<c[1], seg[c]>> \in Segs /\ work \in files /\ c[1] \in Scheds
    BY <1>9, Pairs DEF CloseSegment, RecorderInv, TypeInv, SegInv, Writing, FootageInv, WriterInv
  <2>3. ASSUME NEW q \in Segs PROVE OnDisk(q)' <=> OnDisk(q)
    <3>1. CASE files' = files
      BY <3>1 DEF OnDisk
    <3>2. CASE files' = (files \ {work}) \cup {final} /\ q = <<c[1], seg[c]>>
      BY <1>0, <2>2, <3>2, TimesFact DEF OnDisk
    <3>3. CASE files' = (files \ {work}) \cup {final} /\ q # <<c[1], seg[c]>>
      <4>1. \A e : SegmentPath(q[1], q[2], e) \notin {work, final}
        BY <2>2, <3>3, PathInj, Pairs
      <4> QED
        BY <3>3, <4>1 DEF OnDisk
    <3> QED
      BY <2>1, <3>1, <3>2, <3>3
  <2>4. UNCHANGED Footage
    BY <2>3 DEF Footage
  <2> QED
    BY <2>1, <2>4, LifeStutter
<1>10. ASSUME NEW c \in Conss, PublishSegment(c) PROVE [Life!Next]_(Life!lifeVars)
  <2> DEFINE r == <<c[1], seg[c]>>
  <2>1. r \in Segs /\ status[r] \in {"none", "recording"} /\ OnDisk(r)
    BY <1>0, <1>10, Pairs
       DEF PublishSegment, RecorderInv, TypeInv, SegInv, Writing, FootageInv, WriterInv, OnDisk
  <2>2. UNCHANGED Footage
    BY <1>10, LifeFrame DEF PublishSegment
  <2>3. ASSUME NEW valid \in {"complete", "corrupted"}, status' = [status EXCEPT ![r] = valid]
        PROVE  Life!Next
    <3> HIDE DEF r
    <3>1. Rows' = [Rows EXCEPT ![r] = StateOf(valid)] /\ Rows[r] = StateOf(status[r])
      BY <1>0, <2>1, <2>3, LifeRow
    <3>2. StateOf(valid) \in {"playable", "unplayable"} /\ Rows[r] \in {"absent", "recording"}
      BY <2>1, <2>3, <3>1, StateValues
    <3>4. r \in Footage
      BY <2>1 DEF Footage
    <3>3. Life!Publish(r)
      BY <2>2, <3>1, <3>2, <3>4, RowsMapped, RowsMappedNext DEF Life!Publish, Footage
    <3> QED
      BY <2>1, <3>3 DEF Life!Next
  <2>4. CASE UNCHANGED status
    BY <2>2, <2>4, LifeFrame, LifeStutter
  <2> QED
    BY <1>10, <2>3, <2>4 DEF PublishSegment, rowVars
<1>11. ASSUME NEW a \in Actors, DeleteRow(a) PROVE [Life!Next]_(Life!lifeVars)
  <2>1. PICK r \in doomed[a] : status' = [status EXCEPT ![r] = "deleted"] \/ UNCHANGED status
    BY <1>11 DEF DeleteRow
  <2>2. r \in Segs /\ (Visible(r) \/ status[r] = "deleted")
    BY <1>0 DEF RecorderInv, FootageInv, DeleteInv
  <2>3. UNCHANGED Footage
    BY <1>11, LifeFrame DEF DeleteRow
  <2>4. CASE Visible(r) /\ status' = [status EXCEPT ![r] = "deleted"]
    <3>1. Rows' = [Rows EXCEPT ![r] = StateOf("deleted")] /\ Rows[r] = StateOf(status[r])
      BY <1>0, <2>2, <2>4, LifeRow
    <3>2. Rows' = [Rows EXCEPT ![r] = "deleted"] /\ Rows[r] = "playable"
      BY <2>4, <3>1, StateValues DEF Visible
    <3>3. Life!Delete(r)
      BY <2>3, <3>2, RowsMapped, RowsMappedNext DEF Life!Delete, Footage
    <3> QED
      BY <2>2, <3>3 DEF Life!Next
  <2>5. CASE status[r] = "deleted" \/ UNCHANGED status
    <3>1. UNCHANGED status
      BY <1>0, <2>1, <2>2, <2>5
    <3> QED
      BY <2>3, <3>1, LifeFrame, LifeStutter
  <2> QED
    BY <2>1, <2>2, <2>4, <2>5
<1>12. ASSUME NEW a \in Actors, RemoveFile(a) PROVE [Life!Next]_(Life!lifeVars)
  <2>1. PICK r \in Segs : r = victim[a] /\ status[r] = "deleted" /\ r[1] \in Scheds
    BY <1>12, Pairs DEF RemoveFile, RecorderInv, FootageInv, DeleteInv
  <2>2. UNCHANGED Rows /\ (files' = files \/ files' = files \ {RowPath(r)})
    BY <1>12, <2>1, LifeFrame DEF RemoveFile, rowVars
  <2>3. \A q \in Segs : (q # r => (OnDisk(q)' <=> OnDisk(q))) /\ (OnDisk(q)' => OnDisk(q))
    BY <2>1, <2>2, PathInj, Pairs DEF OnDisk, RowPath
  <2>4. CASE OnDisk(r)'
    <3>1. UNCHANGED Footage
      BY <2>1, <2>3, <2>4 DEF Footage
    <3> QED
      BY <2>2, <3>1, LifeStutter
  <2>5. CASE ~OnDisk(r)'
    <3>1. Footage' = Footage \ {r} /\ Rows[r] = "deleted"
      BY <2>1, <2>3, <2>5, StateValues DEF Footage, Rows
    <3>2. Life!Reclaim(r)
      BY <2>2, <3>1, RowsMapped, RowsMappedNext DEF Life!Reclaim, Footage
    <3> QED
      BY <2>1, <3>2 DEF Life!Next
  <2> QED
    BY <2>4, <2>5
<1> QED
  BY <1>2, <1>3, <1>4, <1>5, <1>6, <1>7, <1>8, <1>9, <1>10, <1>11, <1>12, MainNotSched
     DEF Next, ManagerStep, WorkerStep, HubStep

\* When no two schedules share a directory, the recorder implements the segment
\* life cycle: through crashes, restarts and failed I/O no final or deleted row is
\* written again, and footage goes only after its row was marked deleted.
THEOREM LifecycleFollowed == ASSUME DistinctDirs PROVE Spec => FollowsLifecycle
<1>1. RecorderInv /\ [Next]_vars => [Life!Next]_(Life!lifeVars)
  BY LifeStep
<1> QED
  BY <1>1, LifeInit, RecorderInvariant, PTL DEF Spec, FollowsLifecycle, Life!Spec
-----------------------------------------------------------------------------
(* Files nothing names.  While neither an I/O operation failed nor the process *)
(* crashed, every insert and rename took effect, so each file moves from the   *)
(* name its consumer knows to the row's and from there to retention's hands.   *)

NoFault == faults = 0 /\ crashes = 0

\* Who names a path: a live row, a consumer between file and row, a removal.
RowNames(p) == \E r \in Segs : status[r] \notin {"none", "deleted"} /\ p = RowPath(r)
HubNames(p) == \E c \in Conss : hub[c] \in {"mark", "insert"} /\
                 p = SegmentPath(c[1], seg[c], IF hub[c] = "mark" THEN 0 ELSE out[c])
VictimNames(p) == \E a \in Actors : victim[a] # NoSeg /\ p = RowPath(victim[a])
Named(p) == RowNames(p) \/ HubNames(p) \/ VictimNames(p)

\* An actor has a victim only while it removes it.
VictimInv == \A a \in Actors : victim[a] # NoSeg => pc[a] = "remove"

\* Without faults the marker row of an open segment is there, and the working
\* name is gone once onClose renamed the file.
MarkerInv ==
  NoFault => \A c \in Conss :
    /\ hub[c] \in {"open", "insert"} => /\ status[<<c[1], seg[c]>>] = "recording"
                                        /\ ending[<<c[1], seg[c]>>] = 0
    /\ hub[c] = "insert" => SegmentPath(c[1], seg[c], 0) \notin files

NamedInv == NoFault => \A p \in files : Named(p)

OrphanInv == VictimInv /\ MarkerInv /\ NamedInv

\* The property is the part of the invariant about names.
LEMMA NamedIsProperty == NamedInv <=> OrphansOnlyAfterFaults
  BY DEF NamedInv, NoFault, Named, RowNames, HubNames, VictimNames, OrphansOnlyAfterFaults

\* An empty disk holds no orphan.
LEMMA OrphanInit == Init => OrphanInv
  BY MainNotSched DEF Init, OrphanInv, VictimInv, MarkerInv, NamedInv

\* Faults and crashes are counted and never forgotten.
LEMMA BudgetStep == ASSUME TypeInv, [Next]_vars PROVE NoFault' => NoFault
<1>1. faults \in Nat /\ crashes \in Nat
  BY DEF TypeInv, TypeOK
<1> USE <1>1 DEF NoFault, Fails, budgetVars
<1>2. (faults' = faults \/ faults' = faults + 1) /\ (crashes' = crashes \/ crashes' = crashes + 1)
  <2>1. CASE Elapse \/ Start \/ Stop \/ Crash \/ (\E c \in Channels : EditCameras(c)) \/ UNCHANGED vars
    BY <2>1 DEF Elapse, Start, Stop, Crash, EditCameras, vars
  <2>2. CASE TickBegin \/ CollectStale \/ StopAll \/ CloseStale \/ StaleClosed \/ TickEnd
    BY <2>2 DEF TickBegin, CollectStale, StopAll, CloseStale, StaleClosed, TickEnd
  <2>3. CASE \E a \in Actors : \/ CloseReturns(a) \/ DeleteRow(a) \/ RemoveFile(a) \/ PassDone(a)
                               \/ \E s \in Scheds : Query(a, s)
    BY <2>3 DEF CloseReturns, DeleteRow, RemoveFile, PassDone, Query
  <2>4. CASE \E s \in Scheds :
               CheckDisk(s) \/ DecideStart(s) \/ DecideKeep(s) \/ Rotate(s) \/ Consume(s) \/ Register(s)
    BY <2>4 DEF CheckDisk, DecideStart, DecideKeep, Rotate, Consume, Register
  <2>5. CASE \E c \in Conss : HubStep(c)
    BY <2>5 DEF HubStep, OpenFile, OpenFails, MarkRecording, CloseSegment, PublishSegment
  <2> QED
    BY <2>1, <2>2, <2>3, <2>4, <2>5, MainNotSched DEF Next, ManagerStep, WorkerStep
<1> QED
  BY <1>2

\* A consumer's name, its schedule and its tick, is used once: by the goroutine
\* that is past starting it.
ConsumerInv ==
  \A c \in Conss : hub[c] # "off" =>
    c[2] <= tickNow /\ (c[2] = tickNow => pc[c[1]] \in {"idle", "register"})

\* Before Start there is no consumer.
LEMMA ConsumerInit == Init => ConsumerInv
  BY DEF Init, ConsumerInv

\* Ticks are numbered by a clock that moved on, and a goroutine starts at most
\* one consumer in its tick.
LEMMA ConsumerStep ==
  ASSUME TypeInv, ControlInv, ConsumerInv, [Next]_vars PROVE ConsumerInv'
<1> USE MainNotSched
<1>0. /\ pc \in [Actors -> WorkerPcs \cup MainPcs] /\ hub \in [Conss -> HubStates]
      /\ tickNow \in Nat /\ clock \in Nat /\ \A c \in Conss : c[1] \in Scheds /\ c[2] \in Nat
  BY Pairs, TimesFact DEF TypeInv, TypeOK, Times
<1>1. ASSUME UNCHANGED tickNow, \A c \in Conss : hub'[c] # "off" => hub[c] # "off",
             \A s \in Scheds : pc[s] \in {"idle", "register"} => pc'[s] \in {"idle", "register"}
      PROVE  ConsumerInv'
  BY <1>0, <1>1 DEF ConsumerInv
<1>2. CASE Elapse \/ Start \/ Stop \/ Crash \/ (\E c \in Channels : EditCameras(c)) \/ UNCHANGED vars
  <2>1. UNCHANGED tickNow
    BY <1>2 DEF Elapse, Start, Stop, Crash, EditCameras, vars, managerVars
  <2>2. \A c \in Conss : hub'[c] # "off" => hub[c] # "off"
    BY <1>2 DEF Elapse, Start, Stop, Crash, EditCameras, vars, hubVars
  <2>3. \A s \in Scheds : pc[s] \in {"idle", "register"} => pc'[s] \in {"idle", "register"}
    BY <1>0, <1>2 DEF Elapse, Start, Stop, Crash, EditCameras, vars, Goto
  <2> QED
    BY <1>1, <2>1, <2>2, <2>3
<1>3. CASE TickBegin
  BY <1>0, <1>3 DEF TickBegin, ConsumerInv, hubVars
<1>4. CASE CollectStale \/ StopAll \/ CloseStale \/ StaleClosed \/ TickEnd
  BY <1>0, <1>1, <1>4 DEF CollectStale, StopAll, CloseStale, StaleClosed, TickEnd, Goto, managerVars,
     hubVars
<1>5. ASSUME NEW a \in Actors, \/ CloseReturns(a) \/ DeleteRow(a) \/ RemoveFile(a) \/ PassDone(a)
                               \/ \E s \in Scheds : Query(a, s)
      PROVE  ConsumerInv'
  <2>1. UNCHANGED <<tickNow, hub>>
    BY <1>5 DEF CloseReturns, DeleteRow, RemoveFile, PassDone, Query, managerVars, hubVars
  <2>2. \A s \in Scheds : pc[s] \in {"idle", "register"} => pc'[s] \in {"idle", "register"}
    BY <1>0, <1>5 DEF CloseReturns, DeleteRow, RemoveFile, PassDone, Query, Goto
  <2> QED
    BY <1>1, <2>1, <2>2
<1>6. ASSUME NEW s \in Scheds,
             CheckDisk(s) \/ DecideStart(s) \/ DecideKeep(s) \/ Rotate(s) \/ Register(s)
      PROVE  ConsumerInv'
  <2>1. UNCHANGED <<tickNow, hub>>
    BY <1>6 DEF CheckDisk, DecideStart, DecideKeep, Rotate, Register, managerVars, hubVars
  <2>2. \A t \in Scheds : pc[t] \in {"idle", "register"} => pc'[t] \in {"idle", "register"}
    BY <1>0, <1>6 DEF CheckDisk, DecideStart, DecideKeep, Rotate, Register, Goto
  <2> QED
    BY <1>1, <2>1, <2>2
<1>7. ASSUME NEW s \in Scheds, Consume(s) PROVE ConsumerInv'
  <2>1. pc[s] = "consume" /\ UNCHANGED tickNow
    BY <1>7 DEF Consume, managerVars
  <2>2. /\ pc'[s] \in {"idle", "register"}
        /\ \A t \in Scheds : pc[t] \in {"idle", "register"} => pc'[t] \in {"idle", "register"}
    BY <1>0, <1>7 DEF Consume, Goto
  <2>3. \A c \in Conss : hub'[c] # "off" => hub[c] # "off" \/ c = <<s, tickNow>>
    BY <1>0, <1>7 DEF Consume
  <2> QED
    BY <1>0, <2>1, <2>2, <2>3 DEF ConsumerInv
<1>8. ASSUME NEW c \in Conss, HubStep(c) PROVE ConsumerInv'
  BY <1>0, <1>1, <1>8 DEF HubStep, OpenFile, OpenFails, MarkRecording, CloseSegment, PublishSegment,
     managerVars
<1> QED
  BY <1>2, <1>3, <1>4, <1>5, <1>6, <1>7, <1>8 DEF Next, ManagerStep, WorkerStep

\* What a step preserves that touches no row, file, segment or victim.
LEMMA OrphanFrame ==
  ASSUME OrphanInv, NoFault' => NoFault, UNCHANGED <<status, ending, files, seg, out, victim>>,
         \A a \in Actors : pc[a] = "remove" => pc'[a] = "remove",
         \A c \in Conss : hub'[c] = hub[c] \/ (~Writing(c) /\ ~Writing(c)')
  PROVE  OrphanInv'
<1>1. VictimInv'
  BY DEF OrphanInv, VictimInv
<1>2. MarkerInv'
  BY DEF OrphanInv, MarkerInv, Writing
<1>3. \A p : Named(p) => Named(p)'
  <2> SUFFICES ASSUME NEW p, Named(p) PROVE Named(p)'
    OBVIOUS
  <2>1. CASE RowNames(p)
    BY <2>1 DEF RowNames, Named, RowPath
  <2>2. CASE HubNames(p)
    BY <2>2 DEF HubNames, Named, Writing
  <2>3. CASE VictimNames(p)
    BY <2>3 DEF VictimNames, Named, RowPath
  <2> QED
    BY <2>1, <2>2, <2>3 DEF Named
<1>4. NamedInv'
  BY <1>3 DEF OrphanInv, NamedInv
<1> QED
  BY <1>1, <1>2, <1>4 DEF OrphanInv

\* Every step keeps each file named; the cases are those that move a name.
LEMMA OrphanStep ==
  ASSUME DistinctDirs, RecorderInv, ConsumerInv, OrphanInv, [Next]_vars PROVE OrphanInv'
<1> USE MainNotSched
<1>0. /\ TypeInv /\ pc \in [Actors -> WorkerPcs \cup MainPcs] /\ hub \in [Conss -> HubStates]
      /\ status \in [Segs -> Statuses] /\ ending \in [Segs -> 0 .. MaxClock]
      /\ seg \in [Conss -> 0 .. MaxClock] /\ out \in [Conss -> 0 .. MaxClock]
      /\ lastStart \in [Scheds -> 0 .. MaxClock] /\ clock \in Times
      /\ doomed \in [Actors -> SUBSET Segs] /\ victim \in [Actors -> Segs \cup {NoSeg}]
      /\ faults \in Nat /\ crashes \in Nat
  BY DEF RecorderInv, TypeInv, TypeOK
<1>1. NoFault' => NoFault
  BY <1>0, BudgetStep
<1>2. \A c \in Conss : Writing(c) => <<c[1], seg[c]>> \in Segs /\ c[1] \in Scheds
  BY <1>0, Pairs DEF TypeInv, SegInv
<1>3. \A a \in Actors : victim[a] # NoSeg => victim[a] \in Segs /\ status[victim[a]] = "deleted"
  BY <1>0 DEF RecorderInv, FootageInv, DeleteInv, OrphanInv, VictimInv
<1>4. CASE Elapse \/ Stop \/ (\E c \in Channels : EditCameras(c)) \/ UNCHANGED vars
  BY <1>1, <1>4, OrphanFrame DEF Elapse, Stop, EditCameras, vars, managerVars, passVars, rowVars, hubVars
<1>5. CASE TickBegin \/ CollectStale \/ StopAll \/ CloseStale \/ StaleClosed \/ TickEnd
  <2>1. UNCHANGED <<status, ending, files, hub, seg, out, victim>>
    BY <1>5 DEF TickBegin, CollectStale, StopAll, CloseStale, StaleClosed, TickEnd, passVars,
       rowVars, hubVars
  <2>2. \A a \in Actors : pc[a] = "remove" => pc'[a] = "remove"
    <3>1. CASE TickBegin
      BY <1>0, <3>1 DEF TickBegin, RecorderInv, ControlInv, Actors
    <3>2. CASE CollectStale \/ StopAll \/ CloseStale \/ StaleClosed \/ TickEnd
      BY <1>0, <3>2 DEF CollectStale, StopAll, CloseStale, StaleClosed, TickEnd, Goto
    <3> QED
      BY <1>5, <3>1, <3>2
  <2> QED
    BY <1>1, <2>1, <2>2, OrphanFrame
<1>6. ASSUME NEW a \in Actors, CloseReturns(a) \/ PassDone(a) \/ \E s \in Scheds : Query(a, s)
      PROVE OrphanInv'
  <2>1. UNCHANGED <<status, ending, files, hub, seg, out, victim>>
    BY <1>6 DEF CloseReturns, PassDone, Query, passVars, rowVars, hubVars
  <2>2. \A b \in Actors : pc[b] = "remove" => pc'[b] = "remove"
    BY <1>0, <1>6 DEF CloseReturns, PassDone, Query, Goto
  <2> QED
    BY <1>1, <2>1, <2>2, OrphanFrame
<1>7. ASSUME NEW s \in Scheds,
             CheckDisk(s) \/ DecideStart(s) \/ DecideKeep(s) \/ Rotate(s) \/ Consume(s) \/ Register(s)
      PROVE OrphanInv'
  <2>1. UNCHANGED <<status, ending, files, seg, out, victim>>
    BY <1>7 DEF CheckDisk, DecideStart, DecideKeep, Rotate, Consume, Register, passVars, rowVars,
       hubVars
  <2>2. \A b \in Actors : pc[b] = "remove" => pc'[b] = "remove"
    BY <1>0, <1>7 DEF CheckDisk, DecideStart, DecideKeep, Rotate, Consume, Register, Goto
  <2>3. \A c \in Conss : hub'[c] = hub[c] \/ (~Writing(c) /\ ~Writing(c)')
    <3>1. CASE Consume(s)
      <4>1. \A c \in Conss : \/ hub'[c] = hub[c]
                             \/ c = <<s, tickNow>> /\ hub'[c] = "create" /\ pc[c[1]] = "consume"
        BY <1>0, <3>1 DEF Consume
      <4> QED
        BY <4>1 DEF ConsumerInv, Writing
    <3>2. CASE ~Consume(s)
      BY <1>7, <3>2 DEF CheckDisk, DecideStart, DecideKeep, Rotate, Register, hubVars
    <3> QED
      BY <3>1, <3>2
  <2> QED
    BY <1>1, <2>1, <2>2, <2>3, OrphanFrame
<1>8. ASSUME NEW c \in Conss, OpenFails(c) PROVE OrphanInv'
  BY <1>0, <1>1, <1>8, OrphanFrame DEF OpenFails, passVars, rowVars, Writing
<1>9. CASE Start
  <2>1. /\ UNCHANGED <<ending, files, seg, out, victim, hub>>
        /\ \A a \in Actors : pc[a] = "remove" => pc'[a] = "remove"
        /\ \A c \in Conss : hub[c] = "off"
    BY <1>0, <1>9 DEF Start, Goto, passVars, hubVars, RecorderInv, ControlInv
  <2>2. \A r \in Segs : status[r] \notin {"none", "deleted"} => status'[r] \notin {"none", "deleted"}
    BY <1>9 DEF Start, SealInterrupted
  <2>3. VictimInv' /\ MarkerInv'
    BY <2>1 DEF OrphanInv, VictimInv, MarkerInv
  <2>4. NamedInv'
    <3> SUFFICES ASSUME NoFault', NEW p \in files PROVE Named(p)'
      BY <2>1 DEF NamedInv
    <3>1. RowNames(p) \/ VictimNames(p)
      BY <1>1, <2>1 DEF OrphanInv, NamedInv, Named, HubNames
    <3>2. CASE RowNames(p)
      BY <2>1, <2>2, <3>2 DEF RowNames, Named, RowPath
    <3>3. CASE VictimNames(p)
      BY <2>1, <3>3 DEF VictimNames, Named, RowPath
    <3> QED
      BY <3>1, <3>2, <3>3
  <2> QED
    BY <2>3, <2>4 DEF OrphanInv
<1>10. CASE Crash
  <2>1. /\ UNCHANGED <<status, ending, files>> /\ \A a \in Actors : victim'[a] = NoSeg
        /\ \A c \in Conss : hub'[c] = "off"
    BY <1>10 DEF Crash, rowVars
  <2>2. VictimInv' /\ MarkerInv'
    BY <2>1 DEF VictimInv, MarkerInv
  <2>3. NamedInv'
    <3> SUFFICES ASSUME NoFault', NEW p \in files PROVE Named(p)'
      BY <2>1 DEF NamedInv
    <3>1. pc[Main] = "stopped" /\ \A c \in Conss : hub[c] = "off"
      BY <1>0, <1>10 DEF Crash, NoFault
    <3>2. \A a \in Actors : victim[a] = NoSeg
      BY <3>1 DEF OrphanInv, VictimInv, RecorderInv, ControlInv, Actors
    <3>3. RowNames(p)
      BY <1>1, <3>1, <3>2 DEF OrphanInv, NamedInv, Named, HubNames, VictimNames
    <3> QED
      BY <2>1, <3>3 DEF RowNames, Named, RowPath
  <2> QED
    BY <2>2, <2>3 DEF OrphanInv
<1>11. ASSUME NEW a \in Actors, DeleteRow(a) PROVE OrphanInv'
  <2>1. PICK r \in doomed[a] :
          \/ /\ status' = [status EXCEPT ![r] = "deleted"]
             /\ victim' = [victim EXCEPT ![a] = r]
             /\ pc' = [pc EXCEPT ![a] = "remove"]
          \/ UNCHANGED <<status, victim, pc>>
    BY <1>11 DEF DeleteRow, Goto
  <2>2. pc[a] = "delete" /\ UNCHANGED <<ending, files, hub, seg, out>>
    BY <1>11 DEF DeleteRow, hubVars
  <2>3. r \in Segs /\ (Visible(r) \/ status[r] = "deleted") /\ r # NoSeg /\ victim[a] = NoSeg
    BY <1>0, <2>2, ConstantsAssumption DEF RecorderInv, FootageInv, DeleteInv, OrphanInv, VictimInv
  <2>4. CASE UNCHANGED <<status, victim, pc>>
    BY <1>1, <2>2, <2>4, OrphanFrame
  <2>5. CASE /\ status' = [status EXCEPT ![r] = "deleted"] /\ victim' = [victim EXCEPT ![a] = r]
             /\ pc' = [pc EXCEPT ![a] = "remove"]
    <3>1. VictimInv'
      BY <1>0, <2>5 DEF OrphanInv, VictimInv
    <3>2. MarkerInv'
      <4> SUFFICES ASSUME NoFault', NEW c \in Conss, hub[c] \in {"open", "insert"}
                   PROVE  status'[<<c[1], seg[c]>>] = status[<<c[1], seg[c]>>]
        BY <1>1, <2>2 DEF OrphanInv, MarkerInv
      <4>1. <<c[1], seg[c]>> \in Segs /\ status[<<c[1], seg[c]>>] = "recording"
        BY <1>1, <1>2 DEF Writing, OrphanInv, MarkerInv
      <4> QED
        BY <1>0, <2>3, <2>5, <4>1 DEF Visible
    <3>3. NamedInv'
      <4> SUFFICES ASSUME NoFault', NEW p \in files PROVE Named(p)'
        BY <2>2 DEF NamedInv
      <4>1. Named(p)
        BY <1>1 DEF OrphanInv, NamedInv
      <4>2. CASE RowNames(p)
        <5>1. PICK q \in Segs : status[q] \notin {"none", "deleted"} /\ p = RowPath(q)
          BY <4>2 DEF RowNames
        <5>2. CASE q = r
          BY <1>0, <2>2, <2>3, <2>5, <5>1, <5>2 DEF Named, VictimNames, RowPath
        <5>3. CASE q # r
          BY <1>0, <2>2, <2>5, <5>1, <5>3 DEF Named, RowNames, RowPath
        <5> QED
          BY <5>2, <5>3
      <4>3. CASE HubNames(p)
        BY <2>2, <4>3 DEF Named, HubNames
      <4>4. CASE VictimNames(p)
        <5>1. PICK b \in Actors : victim[b] # NoSeg /\ p = RowPath(victim[b])
          BY <4>4 DEF VictimNames
        <5>2. victim'[b] = victim[b]
          BY <1>0, <2>3, <2>5, <5>1
        <5> QED
          BY <2>2, <5>1, <5>2 DEF Named, VictimNames, RowPath
      <4> QED
        BY <4>1, <4>2, <4>3, <4>4 DEF Named
    <3> QED
      BY <3>1, <3>2, <3>3 DEF OrphanInv
  <2> QED
    BY <2>1, <2>4, <2>5
<1>12. ASSUME NEW a \in Actors, RemoveFile(a) PROVE OrphanInv'
  <2>1. /\ pc[a] = "remove" /\ pc' = [pc EXCEPT ![a] = "delete"]
        /\ victim' = [victim EXCEPT ![a] = NoSeg]
        /\ UNCHANGED <<status, ending, hub, seg, out>>
    BY <1>12 DEF RemoveFile, Goto, rowVars, hubVars
  <2>2. files' \subseteq files /\ (NoFault' => RowPath(victim[a]) \notin files')
    BY <1>0, <1>12 DEF RemoveFile, Fails, NoFault
  <2>3. VictimInv'
    BY <1>0, <2>1 DEF OrphanInv, VictimInv
  <2>4. MarkerInv'
    BY <1>1, <2>1, <2>2 DEF OrphanInv, MarkerInv
  <2>5. NamedInv'
    <3> SUFFICES ASSUME NoFault', NEW p \in files' PROVE Named(p)'
      BY DEF NamedInv
    <3>1. Named(p) /\ p # RowPath(victim[a])
      BY <1>1, <2>2 DEF OrphanInv, NamedInv
    <3>2. CASE RowNames(p)
      BY <2>1, <3>2 DEF Named, RowNames, RowPath
    <3>3. CASE HubNames(p)
      BY <2>1, <3>3 DEF Named, HubNames
    <3>4. CASE VictimNames(p)
      <4>1. PICK b \in Actors : victim[b] # NoSeg /\ p = RowPath(victim[b])
        BY <3>4 DEF VictimNames
      <4>2. victim'[b] = victim[b]
        BY <1>0, <2>1, <3>1, <4>1
      <4> QED
        BY <2>1, <4>1, <4>2 DEF Named, VictimNames, RowPath
    <3> QED
      BY <3>1, <3>2, <3>3, <3>4 DEF Named
  <2> QED
    BY <2>3, <2>4, <2>5 DEF OrphanInv
<1>13. ASSUME NEW c \in Conss, OpenFile(c) PROVE OrphanInv'
  <2>1. /\ hub[c] = "create" /\ clock > lastStart[c[1]]
        /\ seg' = [seg EXCEPT ![c] = clock] /\ hub' = [hub EXCEPT ![c] = "mark"]
        /\ files' = files \cup {SegmentPath(c[1], clock, 0)}
        /\ UNCHANGED <<status, ending, out, victim, pc>>
    BY <1>13 DEF OpenFile, passVars, rowVars
  <2>2. hub'[c] = "mark" /\ seg'[c] = clock /\ c[1] \in Scheds
        /\ \A d \in Conss : d # c => hub'[d] = hub[d] /\ seg'[d] = seg[d]
    BY <1>0, <2>1, Pairs
  <2>3. VictimInv'
    BY <2>1 DEF OrphanInv, VictimInv
  <2>4. MarkerInv'
    <3> SUFFICES ASSUME NoFault', NEW d \in Conss, hub'[d] \in {"open", "insert"} PROVE MarkerInv!2!(d)'
      BY DEF MarkerInv
    <3>1. d # c /\ hub'[d] = hub[d] /\ seg'[d] = seg[d] /\ Writing(d)
      BY <2>2 DEF Writing
    <3>2. d[1] = c[1] => seg[d] # clock
      BY <1>0, <2>1, <2>2, <3>1, TimesFact DEF RecorderInv, FootageInv, OwnerInv
    <3>3. SegmentPath(d[1], seg[d], 0) # SegmentPath(c[1], clock, 0)
      <4>1. d[1] \in Scheds
        BY <1>2, <3>1
      <4> QED
        BY <2>2, <3>2, <4>1, PathInj
    <3> QED
      BY <1>1, <2>1, <3>1, <3>3 DEF OrphanInv, MarkerInv
  <2>5. NamedInv'
    <3> SUFFICES ASSUME NoFault', NEW p \in files' PROVE Named(p)'
      BY DEF NamedInv
    <3>1. CASE p = SegmentPath(c[1], clock, 0)
      BY <2>2, <3>1 DEF Named, HubNames
    <3>2. CASE p \in files /\ RowNames(p)
      BY <2>1, <3>2 DEF Named, RowNames, RowPath
    <3>3. CASE p \in files /\ HubNames(p)
      <4>1. PICK d \in Conss : hub[d] \in {"mark", "insert"} /\
              p = SegmentPath(d[1], seg[d], IF hub[d] = "mark" THEN 0 ELSE out[d])
        BY <3>3 DEF HubNames
      <4>2. hub'[d] = hub[d] /\ seg'[d] = seg[d] /\ out'[d] = out[d]
        BY <2>1, <2>2, <4>1
      <4> QED
        BY <4>1, <4>2 DEF Named, HubNames
    <3>4. CASE p \in files /\ VictimNames(p)
      BY <2>1, <3>4 DEF Named, VictimNames, RowPath
    <3> QED
      BY <1>1, <2>1, <3>1, <3>2, <3>3, <3>4 DEF OrphanInv, NamedInv, Named
  <2> QED
    BY <2>3, <2>4, <2>5 DEF OrphanInv
<1>14. ASSUME NEW c \in Conss, MarkRecording(c) PROVE OrphanInv'
  <2>1. /\ hub[c] = "mark" /\ hub' = [hub EXCEPT ![c] = "open"]
        /\ UNCHANGED <<files, seg, out, victim, pc>>
    BY <1>14 DEF MarkRecording, passVars
  <2>2. PICK r \in Segs : /\ r = <<c[1], seg[c]>> /\ r[1] = c[1] /\ r[2] = seg[c]
                          /\ status[r] = "none"
    BY <1>2, <2>1 DEF Writing, RecorderInv, FootageInv, WriterInv
  <2>3. VictimInv'
    BY <2>1 DEF OrphanInv, VictimInv
  <2>4. CASE ~NoFault'
    BY <2>3, <2>4 DEF OrphanInv, MarkerInv, NamedInv
  <2>5. CASE NoFault'
    <3>1. status' = [status EXCEPT ![r] = "recording"] /\ ending' = [ending EXCEPT ![r] = 0]
      BY <1>0, <1>14, <2>2, <2>5 DEF MarkRecording, Fails, NoFault
    <3>2. /\ status'[r] = "recording" /\ ending'[r] = 0
          /\ \A q \in Segs : q # r => status'[q] = status[q] /\ ending'[q] = ending[q]
      BY <1>0, <3>1
    <3>3. \A d \in Conss : d # c => hub'[d] = hub[d] /\ (Writing(d) => <<d[1], seg[d]>> # r)
      BY <1>0, <2>1, <2>2 DEF Writing, RecorderInv, FootageInv, OwnerInv
    <3>4. MarkerInv'
      <4> SUFFICES ASSUME NEW d \in Conss, hub'[d] \in {"open", "insert"} PROVE MarkerInv!2!(d)'
        BY DEF MarkerInv
      <4>1. CASE d = c
        BY <1>0, <2>1, <2>2, <3>2, <4>1
      <4>2. CASE d # c
        <5>1. Writing(d) /\ hub'[d] = hub[d] /\ <<d[1], seg[d]>> \in Segs /\ <<d[1], seg[d]>> # r
          BY <1>2, <3>3, <4>2 DEF Writing
        <5>2. /\ status'[<<d[1], seg[d]>>] = status[<<d[1], seg[d]>>]
              /\ ending'[<<d[1], seg[d]>>] = ending[<<d[1], seg[d]>>]
          BY <3>2, <5>1
        <5> QED
          BY <1>1, <2>1, <2>5, <5>1, <5>2 DEF OrphanInv, MarkerInv
      <4> QED
        BY <4>1, <4>2
    <3>5. ASSUME NEW p \in files PROVE Named(p)'
      <4>1. Named(p)
        BY <1>1, <2>5 DEF OrphanInv, NamedInv
      <4>2. CASE RowNames(p)
        <5>1. PICK q \in Segs : status[q] \notin {"none", "deleted"} /\ p = RowPath(q)
          BY <4>2 DEF RowNames
        <5> QED
          BY <2>2, <3>2, <5>1 DEF Named, RowNames, RowPath
      <4>3. CASE HubNames(p)
        <5>1. PICK d \in Conss : hub[d] \in {"mark", "insert"} /\
                p = SegmentPath(d[1], seg[d], IF hub[d] = "mark" THEN 0 ELSE out[d])
          BY <4>3 DEF HubNames
        <5>2. CASE d = c
          BY <2>1, <2>2, <3>2, <5>1, <5>2 DEF Named, RowNames, RowPath
        <5>3. CASE d # c
          BY <2>1, <3>3, <5>1, <5>3 DEF Named, HubNames
        <5> QED
          BY <5>2, <5>3
      <4>4. CASE VictimNames(p)
        <5>1. PICK b \in Actors : victim[b] # NoSeg /\ p = RowPath(victim[b])
          BY <4>4 DEF VictimNames
        <5>2. ending'[victim[b]] = ending[victim[b]]
          BY <1>3, <2>2, <3>2, <5>1
        <5> QED
          BY <2>1, <5>1, <5>2 DEF Named, VictimNames, RowPath
      <4> QED
        BY <4>1, <4>2, <4>3, <4>4 DEF Named
    <3> QED
      BY <2>1, <2>3, <3>4, <3>5 DEF OrphanInv, NamedInv
  <2> QED
    BY <2>4, <2>5
<1>15. ASSUME NEW c \in Conss, CloseSegment(c) PROVE OrphanInv'
  <2> DEFINE work == SegmentPath(c[1], seg[c], 0)
             final == SegmentPath(c[1], seg[c], clock)
  <2>1. /\ hub[c] = "open" /\ hub' = [hub EXCEPT ![c] = "insert"]
        /\ UNCHANGED <<status, ending, seg, victim, pc>>
    BY <1>15 DEF CloseSegment, passVars, rowVars
  <2>2. /\ <<c[1], seg[c]>> \in Segs /\ c[1] \in Scheds /\ work \in files
    BY <1>2, <2>1 DEF Writing, RecorderInv, FootageInv, WriterInv
  <2>3. VictimInv'
    BY <2>1 DEF OrphanInv, VictimInv
  <2>4. CASE ~NoFault'
    BY <2>3, <2>4 DEF OrphanInv, MarkerInv, NamedInv
  <2>5. CASE NoFault'
    <3>1. files' = (files \ {work}) \cup {final} /\ out' = [out EXCEPT ![c] = clock]
      BY <1>0, <1>15, <2>2, <2>5 DEF CloseSegment, Fails, NoFault
    <3>2. hub'[c] = "insert" /\ out'[c] = clock
          /\ \A d \in Conss : d # c => hub'[d] = hub[d] /\ out'[d] = out[d]
      BY <1>0, <2>1, <3>1
    <3>3. clock # 0
      BY <1>0, TimesFact
    <3>4. MarkerInv'
      <4> SUFFICES ASSUME NEW d \in Conss, hub'[d] \in {"open", "insert"} PROVE MarkerInv!2!(d)'
        BY DEF MarkerInv
      <4>1. SegmentPath(d[1], seg[d], 0) # final
        BY <3>3 DEF SegmentPath
      <4>2. CASE d = c
        BY <1>1, <2>1, <2>5, <3>1, <4>1, <4>2 DEF OrphanInv, MarkerInv
      <4>3. CASE d # c
        BY <1>1, <2>1, <2>5, <3>1, <3>2, <4>1, <4>3 DEF OrphanInv, MarkerInv
      <4> QED
        BY <4>2, <4>3
    <3>5. ASSUME NEW p \in files' PROVE Named(p)'
      <4>1. CASE p = final
        BY <2>1, <3>2, <4>1 DEF Named, HubNames
      <4>2. CASE p # final
        <5>1. p \in files /\ Named(p)
          BY <1>1, <2>5, <3>1, <4>2 DEF OrphanInv, NamedInv
        <5>2. CASE RowNames(p)
          BY <2>1, <5>2 DEF Named, RowNames, RowPath
        <5>3. CASE HubNames(p)
          <6>1. PICK d \in Conss : hub[d] \in {"mark", "insert"} /\
                  p = SegmentPath(d[1], seg[d], IF hub[d] = "mark" THEN 0 ELSE out[d])
            BY <5>3 DEF HubNames
          <6>2. hub'[d] = hub[d] /\ out'[d] = out[d]
            BY <2>1, <3>2, <6>1
          <6> QED
            BY <2>1, <6>1, <6>2 DEF Named, HubNames
        <5>4. CASE VictimNames(p)
          BY <2>1, <5>4 DEF Named, VictimNames, RowPath
        <5> QED
          BY <5>1, <5>2, <5>3, <5>4 DEF Named
      <4> QED
        BY <4>1, <4>2
    <3> QED
      BY <2>3, <3>4, <3>5 DEF OrphanInv, NamedInv
  <2> QED
    BY <2>4, <2>5
<1>16. ASSUME NEW c \in Conss, PublishSegment(c) PROVE OrphanInv'
  <2>1. /\ hub[c] = "insert" /\ UNCHANGED <<files, victim, pc>>
        /\ hub' = [hub EXCEPT ![c] = IF c \in quit THEN "off" ELSE "create"]
        /\ seg' = [seg EXCEPT ![c] = 0] /\ out' = [out EXCEPT ![c] = 0]
    BY <1>16 DEF PublishSegment, passVars
  <2>2. PICK r \in Segs : r = <<c[1], seg[c]>> /\ r[1] = c[1] /\ r[2] = seg[c]
    BY <1>2, <2>1 DEF Writing
  <2>3. VictimInv'
    BY <2>1 DEF OrphanInv, VictimInv
  <2>4. CASE ~NoFault'
    BY <2>3, <2>4 DEF OrphanInv, MarkerInv, NamedInv
  <2>5. CASE NoFault'
    <3>1. /\ status' = [status EXCEPT ![r] = "complete"] \/ status' = [status EXCEPT ![r] = "corrupted"]
          /\ ending' = [ending EXCEPT ![r] = out[c]]
      BY <1>0, <1>16, <2>2, <2>5 DEF PublishSegment, Fails, NoFault
    <3>2. /\ status'[r] \in {"complete", "corrupted"} /\ ending'[r] = out[c]
          /\ \A q \in Segs : q # r => status'[q] = status[q] /\ ending'[q] = ending[q]
      BY <1>0, <3>1
    <3>3. status[r] = "recording" /\ RowPath(r) \notin files
      BY <1>1, <2>1, <2>2, <2>5 DEF OrphanInv, MarkerInv, RowPath
    <3>4. /\ \A d \in Conss : d # c => /\ hub'[d] = hub[d] /\ seg'[d] = seg[d] /\ out'[d] = out[d]
                                       /\ Writing(d) => <<d[1], seg[d]>> # r
          /\ hub'[c] \in {"off", "create"}
      BY <1>0, <2>1, <2>2 DEF Writing, RecorderInv, FootageInv, OwnerInv
    <3>5. MarkerInv'
      <4> SUFFICES ASSUME NEW d \in Conss, hub'[d] \in {"open", "insert"} PROVE MarkerInv!2!(d)'
        BY DEF MarkerInv
      <4>1. d # c /\ Writing(d) /\ hub'[d] = hub[d] /\ seg'[d] = seg[d] /\ <<d[1], seg[d]>> # r
        BY <3>4 DEF Writing
      <4>2. /\ status'[<<d[1], seg[d]>>] = status[<<d[1], seg[d]>>]
            /\ ending'[<<d[1], seg[d]>>] = ending[<<d[1], seg[d]>>]
        BY <1>2, <3>2, <4>1
      <4> QED
        BY <1>1, <2>1, <2>5, <4>1, <4>2 DEF OrphanInv, MarkerInv
    <3>6. ASSUME NEW p \in files PROVE Named(p)'
      <4>1. Named(p)
        BY <1>1, <2>5 DEF OrphanInv, NamedInv
      <4>2. CASE RowNames(p)
        <5>1. PICK q \in Segs : status[q] \notin {"none", "deleted"} /\ p = RowPath(q)
          BY <4>2 DEF RowNames
        <5>2. q # r
          BY <3>3, <5>1
        <5> QED
          BY <3>2, <5>1, <5>2 DEF Named, RowNames, RowPath
      <4>3. CASE HubNames(p)
        <5>1. PICK d \in Conss : hub[d] \in {"mark", "insert"} /\
                p = SegmentPath(d[1], seg[d], IF hub[d] = "mark" THEN 0 ELSE out[d])
          BY <4>3 DEF HubNames
        <5>2. CASE d = c
          BY <2>1, <2>2, <3>2, <5>1, <5>2 DEF Named, RowNames, RowPath
        <5>3. CASE d # c
          BY <3>4, <5>1, <5>3 DEF Named, HubNames
        <5> QED
          BY <5>2, <5>3
      <4>4. CASE VictimNames(p)
        <5>1. PICK b \in Actors : victim[b] # NoSeg /\ p = RowPath(victim[b])
          BY <4>4 DEF VictimNames
        <5>2. ending'[victim[b]] = ending[victim[b]]
          BY <1>3, <3>2, <3>3, <5>1
        <5> QED
          BY <2>1, <5>1, <5>2 DEF Named, VictimNames, RowPath
      <4> QED
        BY <4>1, <4>2, <4>3, <4>4 DEF Named
    <3> QED
      BY <2>1, <2>3, <3>5, <3>6 DEF OrphanInv, NamedInv
  <2> QED
    BY <2>4, <2>5
<1> QED
  BY <1>4, <1>5, <1>6, <1>7, <1>8, <1>9, <1>10, <1>11, <1>12, <1>13, <1>14, <1>15, <1>16
     DEF Next, ManagerStep, WorkerStep, HubStep

\* When no two schedules share a directory, a file that no row, consumer or
\* removal names is the work of a failed I/O operation or a crash: the manager's
\* interleavings alone leave none behind.
THEOREM NoOrphans == ASSUME DistinctDirs PROVE Spec => []OrphansOnlyAfterFaults
<1> DEFINE Inv == RecorderInv /\ ConsumerInv /\ OrphanInv
<1>1. Init => Inv
  BY TypeInit, ControlInit, FootageInit, ConsumerInit, OrphanInit DEF RecorderInv
<1>2. Inv /\ [Next]_vars => Inv'
  BY TypeStep, ControlStep, FootageStep, ConsumerStep, OrphanStep DEF RecorderInv
<1>3. Inv => OrphansOnlyAfterFaults
  BY NamedIsProperty DEF OrphanInv
<1> HIDE DEF Inv
<1> QED
  BY <1>1, <1>2, <1>3, PTL DEF Spec
=============================================================================
