--------------------------- MODULE RecordingIndex ---------------------------
(***************************************************************************)
(* The per-channel database handles of the SQLite recording index          *)
(* (pkg/recorder/index_sqlite.go) under concurrent callers: opened lazily  *)
(* by getDB under a read lock first and a write lock then, evicted when    *)
(* idle, closed by Close.  Delete works on a snapshot of the open handles. *)
(* What a query returns is the subject of module IndexQuery.               *)
(***************************************************************************)
EXTENDS Naturals, FiniteSets

CONSTANTS
  Channels,    \* channels with recordings on disk
  Callers,     \* goroutines that use the index
  Threshold,   \* evictionThreshold: open databases at which eviction runs
  MaxIdle,     \* maxIdleDBAge
  MaxClock,    \* bound: the clock stops here
  MaxOpens,    \* bound: times a database is opened
  MaxCloses    \* bound: calls of Close

\* The channels are those with a directory on disk; the bounds are numbers.
ASSUME IndexAssumption ==
  /\ IsFiniteSet(Channels)
  /\ Threshold \in Nat /\ MaxIdle \in Nat
  /\ MaxClock \in Nat /\ MaxOpens \in Nat /\ MaxCloses \in Nat

VARIABLES
  clock,
  dbs,         \* idx.dbs: channel -> handle, 0 if none
  lastAccess,  \* idx.lastAccess: channel -> time, 0 if none
  open,        \* handles that are open, <<channel, number>>
  opens,       \* handles opened so far
  closes,      \* calls of Close so far
  status,      \* status of the one row of each channel's database
  pc, op,      \* per caller: where it is, and in which method
  chan,        \* per caller: the channel it works on
  todo,        \* per caller: channels SealInterrupted or QueryAllChannels still visit
  handle,      \* per caller: number of the handle it got
  targets,     \* per caller: handles Delete still tries
  result       \* per caller: how its last call ended

idxVars == <<dbs, lastAccess, open, opens, closes>>
vars == <<clock, idxVars, status, pc, op, chan, todo, handle, targets, result>>

Ops == {"insert", "query", "last", "delete", "seal"}
Handles == Channels \X (1 .. MaxOpens)

Init ==
  /\ clock = 1
  /\ dbs = [c \in Channels |-> 0] /\ lastAccess = [c \in Channels |-> 0]
  /\ open = {} /\ opens = 0 /\ closes = 0
  /\ status = [c \in Channels |-> "none"]
  /\ pc = [k \in Callers |-> "idle"] /\ op = [k \in Callers |-> "query"]
  /\ chan \in {[k \in Callers |-> c] : c \in Channels}
  /\ todo = [k \in Callers |-> {}]
  /\ handle = [k \in Callers |-> 0]
  /\ targets = [k \in Callers |-> {}]
  /\ result = [k \in Callers |-> ""]

Elapse ==
  /\ clock < MaxClock
  /\ clock' = clock + 1
  /\ UNCHANGED <<idxVars, status, pc, op, chan, todo, handle, targets, result>>

Goto(k, next) == pc' = [pc EXCEPT ![k] = next]
-----------------------------------------------------------------------------
(* getDB. *)

\* A caller enters a method: Insert, QueryByChannel or Last/FirstAvailable of a
\* channel, or one that visits the channels in turn (SealInterrupted,
\* QueryAllChannels).
Call(k, m, c) ==
  /\ pc[k] = "idle"
  /\ m \in Ops \ {"delete"}
  /\ op' = [op EXCEPT ![k] = m]
  /\ chan' = [chan EXCEPT ![k] = c]
  /\ todo' = [todo EXCEPT ![k] = IF m = "seal" THEN Channels \ {c} ELSE {}]
  /\ result' = [result EXCEPT ![k] = ""]
  /\ Goto(k, "lookup")
  /\ UNCHANGED <<clock, idxVars, status, handle, targets>>

\* Under the read lock: the handle, if there is one.
Lookup(k) ==
  /\ pc[k] = "lookup"
  /\ handle' = [handle EXCEPT ![k] = dbs[chan[k]]]
  /\ Goto(k, IF dbs[chan[k]] # 0 THEN "touch" ELSE "open")
  /\ UNCHANGED <<clock, idxVars, status, op, chan, todo, targets, result>>

\* Under the write lock, after a hit: note the access.
Touch(k) ==
  /\ pc[k] = "touch"
  /\ lastAccess' = [lastAccess EXCEPT ![chan[k]] = clock]
  /\ Goto(k, "exec")
  /\ UNCHANGED <<clock, dbs, open, opens, closes, status, op, chan, todo, handle, targets, result>>

\* evictIdleLocked closes the databases last accessed before the cutoff, once the
\* threshold is reached.  Idle_Above waits for one more.
Idle_Above ==
  IF Cardinality({c \in Channels : dbs[c] # 0}) > Threshold
  THEN {c \in Channels : lastAccess[c] # 0 /\ lastAccess[c] + MaxIdle < clock} ELSE {}
Idle ==
  IF Cardinality({c \in Channels : dbs[c] # 0}) >= Threshold
  THEN {c \in Channels : lastAccess[c] # 0 /\ lastAccess[c] + MaxIdle < clock} ELSE {}

\* The miss path without its second look at the map.
OpenDB_Unchecked(k) ==
  /\ pc[k] = "open"
  /\ opens < MaxOpens
  /\ opens' = opens + 1
  /\ dbs' = [c \in Channels |-> IF c = chan[k] THEN opens' ELSE IF c \in Idle THEN 0 ELSE dbs[c]]
  /\ lastAccess' = [c \in Channels |->
                      IF c = chan[k] THEN clock ELSE IF c \in Idle THEN 0 ELSE lastAccess[c]]
  /\ open' = {h \in open : h[1] \notin Idle} \cup {<<chan[k], opens'>>}
  /\ handle' = [handle EXCEPT ![k] = opens']
  /\ Goto(k, "exec")
  /\ UNCHANGED <<clock, closes, status, op, chan, todo, targets, result>>
\* Under the write lock, after a miss: someone else may have opened it; else evict
\* and open, which may fail with the evictions done.
OpenDB(k) ==
  /\ pc[k] = "open"
  /\ \/ /\ dbs[chan[k]] # 0
        /\ lastAccess' = [lastAccess EXCEPT ![chan[k]] = clock]
        /\ handle' = [handle EXCEPT ![k] = dbs[chan[k]]]
        /\ Goto(k, "exec")
        /\ UNCHANGED <<dbs, open, opens, result>>
     \/ /\ dbs[chan[k]] = 0
        /\ opens < MaxOpens
        /\ opens' = opens + 1
        /\ dbs' = [c \in Channels |-> IF c = chan[k] THEN opens' ELSE IF c \in Idle THEN 0 ELSE dbs[c]]
        /\ lastAccess' = [c \in Channels |->
                            IF c = chan[k] THEN clock ELSE IF c \in Idle THEN 0 ELSE lastAccess[c]]
        /\ open' = {h \in open : h[1] \notin Idle} \cup {<<chan[k], opens'>>}
        /\ handle' = [handle EXCEPT ![k] = opens']
        /\ Goto(k, "exec")
        /\ UNCHANGED result
     \/ /\ dbs[chan[k]] = 0
        /\ dbs' = [c \in Channels |-> IF c \in Idle THEN 0 ELSE dbs[c]]
        /\ lastAccess' = [c \in Channels |-> IF c \in Idle THEN 0 ELSE lastAccess[c]]
        /\ open' = {h \in open : h[1] \notin Idle}
        /\ result' = [result EXCEPT ![k] = "failed"]
        /\ Goto(k, "idle")
        /\ UNCHANGED <<opens, handle>>
  /\ UNCHANGED <<clock, closes, status, op, chan, todo, targets>>
-----------------------------------------------------------------------------
(* The statements. *)

Usable(k) == <<chan[k], handle[k]>> \in open
Playable(c) == status[c] \in {"complete", "interrupted"}

\* The statement of the method: on a closed handle it fails.
Exec(k) ==
  /\ pc[k] = "exec"
  /\ LET c == chan[k] IN
       \/ /\ ~Usable(k)
          /\ result' = [result EXCEPT ![k] = "closed"]
          /\ Goto(k, "idle")
          /\ UNCHANGED <<status, chan, todo>>
       \/ /\ Usable(k) /\ op[k] = "insert"
          /\ \E s \in {"recording", "complete", "corrupted"} : status' = [status EXCEPT ![c] = s]
          /\ result' = [result EXCEPT ![k] = "ok"]
          /\ Goto(k, "idle")
          /\ UNCHANGED <<chan, todo>>
       \/ /\ Usable(k) /\ op[k] \in {"query", "last"}
          /\ IF op[k] = "last" /\ ~Playable(c)
             THEN Goto(k, "count") /\ UNCHANGED result
             ELSE Goto(k, "idle") /\ result' = [result EXCEPT ![k] = IF Playable(c) THEN "ok" ELSE "none"]
          /\ UNCHANGED <<status, chan, todo>>
       \/ /\ Usable(k) /\ op[k] = "seal"
          /\ status' = [status EXCEPT ![c] = IF @ = "recording" THEN "interrupted" ELSE @]
          /\ IF todo[k] = {}
             THEN /\ result' = [result EXCEPT ![k] = "ok"] /\ Goto(k, "idle")
                  /\ UNCHANGED <<chan, todo>>
             ELSE /\ \E n \in todo[k] : /\ chan' = [chan EXCEPT ![k] = n]
                                        /\ todo' = [todo EXCEPT ![k] = @ \ {n}]
                  /\ Goto(k, "lookup") /\ UNCHANGED result
  /\ UNCHANGED <<clock, idxVars, op, handle, targets>>

\* noRecordingsOrCorrupted: nothing playable; are there rows that are not deleted?
Count(k) ==
  /\ pc[k] = "count"
  /\ result' = [result EXCEPT ![k] =
       IF ~Usable(k) THEN "closed"
       ELSE IF status[chan[k]] \in {"none", "deleted"} THEN "none" ELSE "allCorrupted"]
  /\ Goto(k, "idle")
  /\ UNCHANGED <<clock, idxVars, status, op, chan, todo, handle, targets>>

\* Delete of a row the caller has just queried: a snapshot of the open handles ...
Delete(k) ==
  /\ pc[k] = "idle" /\ op[k] = "query" /\ result[k] = "ok"
  /\ op' = [op EXCEPT ![k] = "delete"]
  /\ targets' = [targets EXCEPT ![k] = {h \in Handles : dbs[h[1]] = h[2]}]
  /\ result' = [result EXCEPT ![k] = ""]
  /\ Goto(k, "delete")
  /\ UNCHANGED <<clock, idxVars, status, chan, todo, handle>>

\* ... each of which is tried in turn until one has the row.
DeleteNext(k) ==
  /\ pc[k] = "delete"
  /\ \/ \E h \in targets[k] :
          \/ /\ h \notin open
             /\ result' = [result EXCEPT ![k] = "closed"]
             /\ Goto(k, "idle")
             /\ targets' = [targets EXCEPT ![k] = {}]
             /\ UNCHANGED status
          \/ /\ h \in open /\ h[1] = chan[k]
             /\ status' = [status EXCEPT ![h[1]] = "deleted"]
             /\ result' = [result EXCEPT ![k] = "ok"]
             /\ Goto(k, "idle")
             /\ targets' = [targets EXCEPT ![k] = {}]
          \/ /\ h \in open /\ h[1] # chan[k]
             /\ targets' = [targets EXCEPT ![k] = @ \ {h}]
             /\ UNCHANGED <<status, result, pc>>
     \/ /\ targets[k] = {}
        /\ result' = [result EXCEPT ![k] = "ok"]
        /\ Goto(k, "idle")
        /\ UNCHANGED <<status, targets>>
  /\ UNCHANGED <<clock, idxVars, op, chan, todo, handle>>

\* Close: close and drop every database.
Close ==
  /\ closes < MaxCloses
  /\ closes' = closes + 1
  /\ open' = {}
  /\ dbs' = [c \in Channels |-> 0]
  /\ UNCHANGED <<clock, lastAccess, opens, status, pc, op, chan, todo, handle, targets, result>>
-----------------------------------------------------------------------------
CallerStep(k) == Lookup(k) \/ Touch(k) \/ OpenDB(k) \/ Exec(k) \/ Count(k) \/ DeleteNext(k)

Next ==
  \/ Elapse \/ Close
  \/ \E k \in Callers : CallerStep(k) \/ Delete(k)
  \/ \E k \in Callers, m \in Ops \ {"delete"}, c \in Channels : Call(k, m, c)

Spec == Init /\ [][Next]_vars
-----------------------------------------------------------------------------
(* Properties. *)

\* The map and the open databases agree: no database is opened twice for a
\* channel, none is left open that neither eviction nor Close would find, and
\* none that is closed is handed out by a later lookup.
MapMatchesOpen == open = {h \in Handles : dbs[h[1]] = h[2]}

\* The number of open databases is bounded by eviction: one beyond the threshold
\* is opened only while every other one was accessed within MaxIdle (so none is
\* without an access time, either).
ThresholdHolds ==
  [][\A h \in open' \ open :
       Cardinality(open') > Threshold =>
         \A g \in open' \ {h} : lastAccess[g[1]] + MaxIdle >= clock]_vars

\* Delete's contract: it "marks a segment as deleted in the index".  When Delete
\* returns nil for the row its caller queried, the row is marked.
DeleteMarks ==
  [][\A k \in Callers :
       pc[k] = "delete" /\ pc'[k] = "idle" /\ result'[k] = "ok"
         => status'[chan[k]] = "deleted"]_vars
=============================================================================
