------------------------ MODULE RecordingIndexProofs ------------------------
(* Proofs about the database handles of the recording index, for any number   *)
(* of channels and callers, any threshold and any bounds.                     *)
EXTENDS RecordingIndex, FiniteSetTheorems, TLAPS

IndexTypes ==
  /\ clock \in Nat \ {0}
  /\ dbs \in [Channels -> 0 .. MaxOpens] /\ lastAccess \in [Channels -> Nat]
  /\ opens \in 0 .. MaxOpens
  /\ chan \in [Callers -> Channels] /\ todo \in [Callers -> SUBSET Channels]

\* Every open database has an access time, which evictIdleLocked goes by.
Accessed == \A c \in Channels : dbs[c] # 0 => lastAccess[c] # 0

IndexInv == IndexTypes /\ Accessed /\ MapMatchesOpen

\* NewSQLiteIndex has no database open.
LEMMA IndexInit == Init => IndexInv
<1> SUFFICES ASSUME Init PROVE IndexInv
  OBVIOUS
<1> USE IndexAssumption
<1>0. /\ clock = 1 /\ opens = 0 /\ open = {}
      /\ dbs = [c \in Channels |-> 0] /\ lastAccess = [c \in Channels |-> 0]
      /\ todo = [k \in Callers |-> {}]
  BY DEF Init
<1>1. IndexTypes /\ Accessed
  <2>1. chan \in [Callers -> Channels]
    <3>1. PICK c \in Channels : chan = [k \in Callers |-> c]
      BY DEF Init
    <3> QED
      BY <3>1
  <2>2. todo \in [Callers -> SUBSET Channels]
    BY <1>0
  <2> QED
    BY <1>0, <2>1, <2>2 DEF IndexTypes, Accessed
<1>2. MapMatchesOpen
  <2>1. \A h \in Handles : dbs[h[1]] # h[2]
    BY <1>0 DEF Handles
  <2> QED
    BY <1>0, <2>1 DEF MapMatchesOpen
<1> QED
  BY <1>1, <1>2 DEF IndexInv

\* A step that leaves the two maps and the databases alone.
LEMMA IndexFrame ==
  ASSUME IndexInv, UNCHANGED <<dbs, lastAccess, open, opens>>, clock' \in Nat \ {0},
         chan' \in [Callers -> Channels], todo' \in [Callers -> SUBSET Channels]
  PROVE  IndexInv'
  BY DEF IndexInv, IndexTypes, Accessed, MapMatchesOpen

\* Every method step, hit or miss, eviction, failed open and Close keeps the map
\* and the open databases together.
LEMMA IndexStep == IndexInv /\ [Next]_vars => IndexInv'
<1> SUFFICES ASSUME IndexInv, [Next]_vars PROVE IndexInv'
  OBVIOUS
<1> USE IndexAssumption
<1>0. IndexTypes /\ \A h \in Handles : h[1] \in Channels /\ h[2] \in 1 .. MaxOpens /\ h = <<h[1], h[2]>>
  BY DEF IndexInv, Handles
<1>1. CASE Elapse
  BY <1>0, <1>1, IndexFrame DEF Elapse, idxVars, IndexTypes
<1>2. CASE Close
  <2>1. IndexTypes' /\ Accessed'
    BY <1>0, <1>2 DEF Close, IndexTypes, Accessed
  <2>2. MapMatchesOpen'
    BY <1>0, <1>2 DEF Close, MapMatchesOpen
  <2> QED
    BY <2>1, <2>2 DEF IndexInv
<1>3. ASSUME NEW k \in Callers, NEW m \in Ops, NEW c \in Channels, Call(k, m, c) PROVE IndexInv'
  BY <1>0, <1>3, IndexFrame DEF Call, idxVars, IndexTypes
<1>4. ASSUME NEW k \in Callers, Lookup(k) \/ Count(k) \/ Delete(k) \/ DeleteNext(k) PROVE IndexInv'
  BY <1>0, <1>4, IndexFrame DEF Lookup, Count, Delete, DeleteNext, idxVars, IndexTypes
<1>5. ASSUME NEW k \in Callers, Exec(k) PROVE IndexInv'
  <2>1. chan' \in [Callers -> Channels] /\ todo' \in [Callers -> SUBSET Channels]
    BY <1>0, <1>5 DEF Exec, IndexTypes
  <2> QED
    BY <1>0, <1>5, <2>1, IndexFrame DEF Exec, idxVars, IndexTypes
<1>6. ASSUME NEW k \in Callers, Touch(k) PROVE IndexInv'
  <2>1. IndexTypes' /\ Accessed'
    BY <1>0, <1>6 DEF Touch, IndexInv, IndexTypes, Accessed
  <2>2. MapMatchesOpen'
    BY <1>6 DEF Touch, IndexInv, MapMatchesOpen
  <2> QED
    BY <2>1, <2>2 DEF IndexInv
<1>7. ASSUME NEW k \in Callers, OpenDB(k) PROVE IndexInv'
  <2>0. PICK c \in Channels : c = chan[k]
    BY <1>0 DEF IndexTypes
  <2>1. UNCHANGED <<clock, chan, todo>>
    BY <1>7 DEF OpenDB
  <2>2. CASE dbs[c] # 0
    <3>1. UNCHANGED <<dbs, open, opens>> /\ lastAccess' = [lastAccess EXCEPT ![c] = clock]
      BY <1>7, <2>0, <2>2 DEF OpenDB
    <3>2. IndexTypes' /\ Accessed'
      BY <1>0, <2>1, <3>1 DEF IndexInv, IndexTypes, Accessed
    <3>3. MapMatchesOpen'
      BY <3>1 DEF IndexInv, MapMatchesOpen
    <3> QED
      BY <3>2, <3>3 DEF IndexInv
  <2>3. CASE /\ dbs[c] = 0 /\ opens < MaxOpens /\ opens' = opens + 1
             /\ dbs' = [d \in Channels |-> IF d = c THEN opens' ELSE IF d \in Idle THEN 0 ELSE dbs[d]]
             /\ lastAccess' = [d \in Channels |->
                                 IF d = c THEN clock ELSE IF d \in Idle THEN 0 ELSE lastAccess[d]]
             /\ open' = {h \in open : h[1] \notin Idle} \cup {<<c, opens'>>}
    <3>1. IndexTypes' /\ Accessed'
      BY <1>0, <2>1, <2>3 DEF IndexInv, IndexTypes, Accessed
    <3>2. opens' \in 1 .. MaxOpens /\ <<c, opens'>> \in Handles
      BY <1>0, <2>3 DEF IndexTypes, Handles
    <3>3. ASSUME NEW h \in Handles PROVE h \in open' <=> dbs'[h[1]] = h[2]
      <4>1. h \in open <=> dbs[h[1]] = h[2]
        BY DEF IndexInv, MapMatchesOpen
      <4>2. CASE h[1] = c
        BY <1>0, <2>3, <3>2, <4>1, <4>2
      <4>3. CASE h[1] # c
        BY <1>0, <2>3, <4>1, <4>3
      <4> QED
        BY <4>2, <4>3
    <3>4. open' \subseteq Handles
      BY <2>3, <3>2 DEF IndexInv, MapMatchesOpen
    <3>5. MapMatchesOpen'
      BY <3>3, <3>4 DEF MapMatchesOpen
    <3> QED
      BY <3>1, <3>5 DEF IndexInv
  <2>4. CASE /\ dbs[c] = 0 /\ UNCHANGED opens
             /\ dbs' = [d \in Channels |-> IF d \in Idle THEN 0 ELSE dbs[d]]
             /\ lastAccess' = [d \in Channels |-> IF d \in Idle THEN 0 ELSE lastAccess[d]]
             /\ open' = {h \in open : h[1] \notin Idle}
    <3>1. IndexTypes' /\ Accessed'
      BY <1>0, <2>1, <2>4 DEF IndexInv, IndexTypes, Accessed
    <3>2. ASSUME NEW h \in Handles PROVE h \in open' <=> dbs'[h[1]] = h[2]
      BY <1>0, <2>4 DEF IndexInv, MapMatchesOpen
    <3>3. open' \subseteq Handles
      BY <2>4 DEF IndexInv, MapMatchesOpen
    <3>4. MapMatchesOpen'
      BY <3>2, <3>3 DEF MapMatchesOpen
    <3> QED
      BY <3>1, <3>4 DEF IndexInv
  <2> QED
    BY <1>7, <2>0, <2>2, <2>3, <2>4 DEF OpenDB
<1>8. CASE UNCHANGED vars
  BY <1>0, <1>8, IndexFrame DEF vars, idxVars, IndexTypes
<1> QED
  BY <1>1, <1>2, <1>3, <1>4, <1>5, <1>6, <1>7, <1>8 DEF Next, CallerStep

\* The inductive invariant of the index's handles.
LEMMA IndexInvariant == Spec => []IndexInv
  BY IndexInit, IndexStep, PTL DEF Spec

\* However lookups, misses, evictions and Close interleave: no channel has two
\* open databases, and none is open that the map does not know.
THEOREM MapAndOpenAgree == Spec => []MapMatchesOpen
<1>1. IndexInv => MapMatchesOpen
  BY DEF IndexInv
<1> QED
  BY <1>1, IndexInvariant, PTL
-----------------------------------------------------------------------------
(* Eviction. *)

OpenChannels == {c \in Channels : dbs[c] # 0}

\* The map has one entry for each open database, so evictIdleLocked, which counts
\* entries, counts databases.
LEMMA OpenCount ==
  ASSUME IndexInv PROVE IsFiniteSet(open) /\ Cardinality(open) = Cardinality(OpenChannels)
<1> USE IndexAssumption
<1>1. IsFiniteSet(OpenChannels)
  BY FS_Subset DEF OpenChannels
<1> DEFINE f == [c \in OpenChannels |-> <<c, dbs[c]>>]
<1>2. \A c \in OpenChannels : f[c] \in open
  BY DEF IndexInv, IndexTypes, MapMatchesOpen, Handles, OpenChannels
<1>3. \A h \in open : h[1] \in OpenChannels /\ f[h[1]] = h
  BY DEF IndexInv, IndexTypes, MapMatchesOpen, Handles, OpenChannels
<1>4. \A c, d \in OpenChannels : f[c] = f[d] => c = d
  OBVIOUS
<1>5. ExistsBijection(OpenChannels, open)
  <2>1. f \in [OpenChannels -> open]
    BY <1>2
  <2>2. f \in Injection(OpenChannels, open)
    BY <1>4, <2>1 DEF Injection, IsInjective
  <2>3. f \in Surjection(OpenChannels, open)
    BY <1>3, <2>1 DEF Surjection
  <2> QED
    BY <2>2, <2>3 DEF ExistsBijection, Bijection
<1> QED
  BY <1>1, <1>5, FS_Bijection

\* evictIdleLocked bounds the open databases: one beyond the threshold is opened
\* only while every other one was accessed within MaxIdle.
THEOREM EvictionBounds == Spec => ThresholdHolds
<1> DEFINE Bounded == \A h \in open' \ open :
                        Cardinality(open') > Threshold =>
                          \A g \in open' \ {h} : lastAccess[g[1]] + MaxIdle >= clock
<1>1. ASSUME IndexInv, [Next]_vars PROVE [Bounded]_vars
  <2> SUFFICES ASSUME NEW h \in open' \ open, Cardinality(open') > Threshold, NEW g \in open' \ {h}
               PROVE  lastAccess[g[1]] + MaxIdle >= clock
    OBVIOUS
  <2>1. PICK k \in Callers : OpenDB(k)
    <3>1. ~(open' \subseteq open)
      OBVIOUS
    <3> QED
      BY <1>1, <3>1 DEF Next, CallerStep, vars, idxVars, Elapse, Close, Call, Lookup, Count, Delete,
         DeleteNext, Exec, Touch
  <2>2. /\ h = <<chan[k], opens'>>
        /\ open' = {x \in open : x[1] \notin Idle} \cup {h}
    BY <2>1 DEF OpenDB
  <2>3. g \in open /\ g[1] \notin Idle /\ g[1] \in Channels /\ dbs[g[1]] # 0
    BY <1>1, <2>2 DEF IndexInv, MapMatchesOpen, Handles
  <2>4. CASE Cardinality(OpenChannels) >= Threshold
    BY <1>1, <2>3, <2>4, IndexAssumption DEF Idle, OpenChannels, IndexInv, IndexTypes, Accessed
  <2>5. CASE ~(Cardinality(OpenChannels) >= Threshold)
    <3>1. Idle = {}
      BY <2>5 DEF Idle, OpenChannels
    <3>2. open' = open \cup {h}
      BY <2>2, <3>1
    <3>3. IsFiniteSet(open) /\ Cardinality(open) = Cardinality(OpenChannels) /\ Cardinality(open) \in Nat
      BY <1>1, OpenCount, FS_CardinalityType
    <3>4. Cardinality(open') = Cardinality(open) + 1
      BY <3>2, <3>3, FS_AddElement
    <3> QED
      BY <2>5, <3>3, <3>4, IndexAssumption
  <2> QED
    BY <2>4, <2>5
<1>2. IndexInv /\ [Next]_vars => [Bounded]_vars
  BY <1>1
<1> QED
  BY <1>2, IndexInvariant, PTL DEF Spec, ThresholdHolds
=============================================================================
