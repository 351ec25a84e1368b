--------------------------- MODULE EdgeAppProofs ---------------------------
(* Proofs about the edge application: the order in which it stops its parts,  *)
(* and the camera configuration that its requests share, for any number of    *)
(* cameras, goroutines and requests and any imported files.                   *)
EXTENDS EdgeApp, SequenceTheorems, TLAPS

-----------------------------------------------------------------------------
(* The deferred calls of Run. *)

Parts == {"collector", "metricsStore", "relayHub", "recorder", "hub", "analyticsWriter",
          "analyticsDB", "stores"}

\* The parts whose stopping is deferred, by how far Run came.
Stores    == <<"analyticsWriter", "analyticsDB", "stores">>
Hub       == <<"hub", "analyticsWriter", "analyticsDB", "stores">>
Recording == <<"recorder", "hub", "analyticsWriter", "analyticsDB", "stores">>
Relaying  == <<"relayHub", "recorder", "hub", "analyticsWriter", "analyticsDB", "stores">>
Metered   == <<"metricsStore", "relayHub", "recorder", "hub", "analyticsWriter", "analyticsDB", "stores">>
Collected == <<"collector", "metricsStore", "relayHub", "recorder", "hub", "analyticsWriter",
               "analyticsDB", "stores">>

\* What is deferred in each stage; while the calls run off, what is left of it.
DeferInv ==
  /\ stage \in {"down", "providers"} => defers = <<>>
  /\ stage = "hub" => defers = Stores
  /\ stage = "recorder" => defers = Hub
  /\ stage = "analytics" => defers = Recording
  /\ stage \in {"register", "metrics"} => defers = Relaying
  /\ stage \in {"server", "serving"} => defers \in {Relaying, Collected}
  /\ defers \in {<<>>, <<"stores">>, <<"analyticsDB", "stores">>, Stores, Hub, Recording, Relaying,
                 Metered, Collected}

\* The snapshot loop runs only while nothing that it uses was stopped.
SnapInv ==
  /\ snap \in {"idle", "taking"} => defers = Collected
  /\ snap \in {"none", "idle", "taking", "exited"}
  /\ snap = "exited" => stage = "unwind"
  /\ servers # "none" => stage \in {"serving", "unwind"}
  /\ stage \in {"metrics", "providers", "hub", "recorder", "analytics", "register", "down"} => snap = "none"

\* Where each deferred call puts its part.
LEMMA Pushed ==
  /\ Stores \o <<>> = Stores /\ <<"hub">> \o Stores = Hub /\ <<"recorder">> \o Hub = Recording
  /\ <<"relayHub">> \o Recording = Relaying
  /\ <<"collector", "metricsStore">> \o Relaying = Collected /\ <<>> \o Relaying = Relaying
<1>1. Stores \o <<>> = Stores
  BY DEF Stores
<1>2. <<"hub">> \o Stores = Hub
  <2>1. /\ <<"hub">> \o Stores \in Seq(Parts) /\ Hub \in Seq(Parts)
        /\ Len(<<"hub">> \o Stores) = 4 /\ Len(Hub) = 4
    BY DEF Stores, Hub, Parts
  <2>2. \A i \in 1 .. 4 : (<<"hub">> \o Stores)[i] = Hub[i]
    BY DEF Stores, Hub
  <2> QED
    BY <2>1, <2>2, SeqEqual
<1>3. <<"recorder">> \o Hub = Recording
  <2>1. /\ <<"recorder">> \o Hub \in Seq(Parts) /\ Recording \in Seq(Parts)
        /\ Len(<<"recorder">> \o Hub) = 5 /\ Len(Recording) = 5
    BY DEF Recording, Hub, Parts
  <2>2. \A i \in 1 .. 5 : (<<"recorder">> \o Hub)[i] = Recording[i]
    BY DEF Recording, Hub
  <2> QED
    BY <2>1, <2>2, SeqEqual
<1>4. <<"relayHub">> \o Recording = Relaying
  <2>1. /\ <<"relayHub">> \o Recording \in Seq(Parts) /\ Relaying \in Seq(Parts)
        /\ Len(<<"relayHub">> \o Recording) = 6 /\ Len(Relaying) = 6
    BY DEF Recording, Relaying, Parts
  <2>2. \A i \in 1 .. 6 : (<<"relayHub">> \o Recording)[i] = Relaying[i]
    BY DEF Recording, Relaying
  <2> QED
    BY <2>1, <2>2, SeqEqual
<1>5. <<"collector", "metricsStore">> \o Relaying = Collected
  <2>1. /\ <<"collector", "metricsStore">> \o Relaying \in Seq(Parts) /\ Collected \in Seq(Parts)
        /\ Len(<<"collector", "metricsStore">> \o Relaying) = 8 /\ Len(Collected) = 8
    BY DEF Collected, Relaying, Parts
  <2>2. \A i \in 1 .. 8 : (<<"collector", "metricsStore">> \o Relaying)[i] = Collected[i]
    BY DEF Collected, Relaying
  <2> QED
    BY <2>1, <2>2, SeqEqual
<1>6. <<>> \o Relaying = Relaying
  BY DEF Relaying
<1> QED
  BY <1>1, <1>2, <1>3, <1>4, <1>5, <1>6

\* What the next deferred call leaves, and which part it stops.
LEMMA Popped ==
  /\ Tail(<<"stores">>) = <<>> /\ Tail(<<"analyticsDB", "stores">>) = <<"stores">>
  /\ Tail(Stores) = <<"analyticsDB", "stores">> /\ Tail(Hub) = Stores /\ Tail(Recording) = Hub
  /\ Tail(Relaying) = Recording /\ Tail(Metered) = Relaying /\ Tail(Collected) = Metered
  /\ Collected[1] = "collector"
  BY DEF Stores, Hub, Recording, Relaying, Metered, Collected

\* Before the first start nothing is deferred.
LEMMA DeferInit == AppInit => DeferInv /\ SnapInv
  BY DEF AppInit, DeferInv, SnapInv

\* Starts, failed starts, termination and every deferred call keep the stack.
LEMMA DeferStep == DeferInv /\ SnapInv /\ [AppNext]_allVars => DeferInv' /\ SnapInv'
<1> SUFFICES ASSUME DeferInv, SnapInv, [AppNext]_allVars PROVE DeferInv' /\ SnapInv'
  OBVIOUS
<1> USE DEF DeferInv, SnapInv
<1>1. CASE Boot \/ Terminate \/ RegisterCameras \/ StopServers
  BY <1>1 DEF Boot, Terminate, RegisterCameras, StopServers
<1>2. CASE StartProviders \/ StartHub \/ StartRecorder \/ StartAnalytics
  BY <1>2, Pushed DEF StartProviders, StartHub, StartRecorder, StartAnalytics, Push, Abort, Stores
<1>3. CASE StartMetrics \/ StartServers
  <2>1. CASE StartMetrics
    BY <2>1, Pushed DEF StartMetrics, Push
  <2>2. CASE StartServers
    <3>1. CASE stage' = "serving"
      <4>1. <<>> \o Collected = Collected
        BY DEF Collected
      <4>2. defers' = defers
        BY <2>2, <3>1, <4>1, Pushed DEF StartServers, Push, Abort
      <4> QED
        BY <2>2, <3>1, <4>2 DEF StartServers
    <3>2. CASE stage' = "unwind"
      BY <2>2, <3>2 DEF StartServers, Push, Abort
    <3> QED
      BY <2>2, <3>1, <3>2 DEF StartServers, Push, Abort
  <2> QED
    BY <1>3, <2>1, <2>2
<1>4. CASE Unwind
  <2>1. defers # Collected \/ snap = "exited"
    BY <1>4, Popped DEF Unwind
  <2>2. defers' \in {<<>>, <<"stores">>, <<"analyticsDB", "stores">>, Stores, Hub, Recording, Relaying,
                     Metered, Collected}
    BY <1>4, Popped DEF Unwind
  <2> QED
    BY <1>4, <2>1, <2>2 DEF Unwind
<1>5. CASE Return \/ Crash
  BY <1>5 DEF Return, Crash, Down
<1>6. CASE TakeSnapshot \/ EndSnapshot \/ EndSnapshots
  BY <1>6 DEF TakeSnapshot, EndSnapshot, EndSnapshots
<1>7. CASE \E w \in Workers : Request(w)
  BY <1>7 DEF Request, appVars
<1>8. CASE UNCHANGED allVars
  BY <1>8 DEF allVars, appVars
<1> HIDE DEF DeferInv, SnapInv
<1> QED
  BY <1>1, <1>2, <1>3, <1>4, <1>5, <1>6, <1>7, <1>8 DEF AppNext, MainStep

\* The part a call goes to, by the part it comes from.
LEMMA CallsFrom ==
  ASSUME NEW call \in Calls
  PROVE  \/ call \in Samples
         \/ call[1] = "analyticsWriter" /\ call[2] = "analyticsDB"
         \/ call[1] = "hub" /\ call[2] = "stores"
         \/ call[1] = "recorder" /\ call[2] \in {"stores", "hub"}
         \/ call[1] = "relayHub" /\ call[2] \in {"stores", "analyticsDB", "hub"}
         \/ call[1] = "collector" /\ call[2] \in {"hub", "recorder", "metricsStore"}
         \/ call[1] \in {"servers", "health"}
              /\ call[2] \in {"stores", "analyticsDB", "hub", "recorder", "relayHub", "analyticsWriter"}
  BY DEF Calls

\* What is up while the deferred calls run off holds all that its parts call, samples apart.
LEMMA StackClosed ==
  ASSUME DeferInv, NEW call \in Calls, call \notin Samples, call[1] \in ToSet(defers)
  PROVE  call[2] \in ToSet(defers)
<1>1. CASE defers \in {<<>>, <<"stores">>, <<"analyticsDB", "stores">>, Stores}
  <2>1. ToSet(defers) \subseteq {"stores", "analyticsDB", "analyticsWriter"}
        /\ ("analyticsWriter" \in ToSet(defers) => "analyticsDB" \in ToSet(defers))
    BY <1>1 DEF ToSet, Stores
  <2> QED
    BY <2>1, CallsFrom
<1>2. CASE defers = Hub
  <2>1. ToSet(defers) = {"hub", "analyticsWriter", "analyticsDB", "stores"}
    BY <1>2 DEF ToSet, Hub
  <2> QED
    BY <2>1, CallsFrom
<1>3. CASE defers = Recording
  <2>1. ToSet(defers) = {"recorder", "hub", "analyticsWriter", "analyticsDB", "stores"}
    BY <1>3 DEF ToSet, Recording
  <2> QED
    BY <2>1, CallsFrom
<1>4. CASE defers \in {Relaying, Metered}
  <2>1. \E M \in {{}, {"metricsStore"}} :
          ToSet(defers) = M \cup {"relayHub", "recorder", "hub", "analyticsWriter", "analyticsDB", "stores"}
    BY <1>4 DEF ToSet, Relaying, Metered
  <2> QED
    BY <2>1, CallsFrom
<1>5. CASE defers = Collected
  <2>1. ToSet(defers) = Parts
    BY <1>5 DEF ToSet, Collected, Parts
  <2> QED
    BY <2>1, CallsFrom DEF Parts
<1> QED
  BY <1>1, <1>2, <1>3, <1>4, <1>5 DEF DeferInv

\* While the application serves, every part is up; the metrics if they could be started.
LEMMA ServingComplete ==
  ASSUME DeferInv, SnapInv, stage \in {"server", "serving"}
  PROVE  /\ {"stores", "analyticsDB", "analyticsWriter", "hub", "recorder", "relayHub"} \subseteq ToSet(defers)
         /\ snap # "none" => {"collector", "metricsStore"} \subseteq ToSet(defers)
<1>1. CASE defers = Relaying
  <2>1. ToSet(defers) = {"relayHub", "recorder", "hub", "analyticsWriter", "analyticsDB", "stores"}
    BY <1>1 DEF ToSet, Relaying
  <2>2. defers # Collected
    BY <1>1 DEF Relaying, Collected
  <2> QED
    BY <2>1, <2>2 DEF SnapInv
<1>2. CASE defers = Collected
  <2>1. ToSet(defers) = Parts
    BY <1>2 DEF ToSet, Collected, Parts
  <2> QED
    BY <2>1 DEF Parts
<1> QED
  BY <1>1, <1>2 DEF DeferInv

\* Whichever start fails and whenever the process is told to end, what a part calls is up:
\* all of it until the deferred calls begin, and then all that is called by the parts that
\* are still to be stopped, samples apart; no snapshot is taken of a stopped part or goes
\* to a closed metrics store (the order of the deferred calls in Run).
THEOREM StopsInOrder == AppSpec => []UsersStopFirst
<1>1. ASSUME DeferInv, SnapInv PROVE UsersStopFirst
  <2>1. ASSUME NEW call \in Calls, call[1] \in Up, ~Unprotected(call)
        PROVE  call[2] \in Up
    <3>1. CASE call \notin Samples /\ call[1] \in ToSet(defers)
      BY <1>1, <3>1, StackClosed DEF Up
    <3>2. CASE call \in Samples
      <4>1. snap # "none" /\ stage # "unwind" /\ call[2] \in {"collector", "metricsStore"}
        BY <2>1, <3>2 DEF Unprotected, Samples
      <4>2. stage \in {"server", "serving"} \/ defers = Collected
        BY <1>1, <4>1 DEF SnapInv
      <4>3. {"collector", "metricsStore"} \subseteq ToSet(defers)
        <5>1. CASE defers = Collected
          BY <5>1 DEF ToSet, Collected
        <5> QED
          BY <1>1, <4>1, <4>2, <5>1, ServingComplete
      <4> QED
        BY <4>1, <4>3 DEF Up
    <3>3. CASE call \notin Samples /\ call[1] \notin ToSet(defers)
      <4>1. call[1] \in {"servers", "health"} /\ stage \in {"server", "serving"}
        BY <1>1, <2>1, <3>3 DEF Up, Unprotected, SnapInv
      <4>2. call[2] \in {"stores", "analyticsDB", "hub", "recorder", "relayHub", "analyticsWriter"}
        BY <2>1, <3>3, <4>1, CallsFrom
      <4> QED
        BY <1>1, <4>1, <4>2, ServingComplete DEF Up
    <3> QED
      BY <3>1, <3>2, <3>3
  <2>2. ASSUME snap = "taking" PROVE {"metricsStore", "hub", "recorder"} \subseteq Up
    <3>1. ToSet(defers) = Parts
      BY <1>1, <2>2 DEF SnapInv, ToSet, Collected, Parts
    <3> QED
      BY <3>1 DEF Up, Parts
  <2> QED
    BY <2>1, <2>2 DEF UsersStopFirst
<1> QED
  BY <1>1, DeferInit, DeferStep, PTL DEF AppSpec
-----------------------------------------------------------------------------
(* The camera configuration: what a request holds in each of its steps.       *)

AnyRow == [ch : Channels] \cup {[skip |-> TRUE], [bad |-> TRUE]}
SaveRequests == {r \in [kind : {"upsert", "import"}, rows : Seq(AnyRow)] :
                   r.rows # <<>> /\ r.rows[1] \in [ch : Channels]}
DeleteRequests == [kind : {"delete"}, id : Cams]
ImportRequests == [kind : {"import"}, rows : Seq(AnyRow)]
GetRequests == [kind : {"get"}, id : Cams]
ListRequests == [kind : {"list"}, offset : Nat, items : Seq(Channels), outdated : BOOLEAN]

\* Within a save or delete, and where it holds the provider's mutex.
Changing == {"lock", "load", "truncate", "write", "apply"}
Holding == {"load", "truncate", "write"}

\* The request r of a goroutine that is at p.
Fits(p, r) ==
  \/ p = "idle" /\ r = None
  \/ p = "row" /\ r \in ImportRequests
  \/ p \in Changing /\ r \in SaveRequests \cup DeleteRequests
  \/ p \in {"read", "absent"} /\ r \in GetRequests
  \/ p \in {"page", "listed"} /\ r \in ListRequests

FileType == disk \in [st : {"ok", "torn", "missing"}, chans : Seq(Channels)] /\ Distinct(disk.chans)
WorkType ==
  /\ pc = [w \in Workers |-> pc[w]] /\ req = [w \in Workers |-> req[w]] /\ buf = [w \in Workers |-> buf[w]]
  /\ \A w \in Workers : Fits(pc[w], req[w])

\* One goroutine at a time is between Lock and Unlock; the file is whole until it
\* truncates it, and torn until it has written it.
MutexInv ==
  /\ \A w \in Workers : pc[w] \in Holding => mu = w
  /\ \A w \in Workers : pc[w] = "truncate" => disk.st = "ok"
  /\ \A w \in Workers : pc[w] = "write" => disk.st = "torn"

\* What a request makes of the channels.
Changed(chans, r) == IF r.kind = "delete" THEN Deleted(chans, r.id) ELSE Saved(chans, r.rows[1].ch)
\* What is about to be written is the file's content with this request's change.
BufferInv ==
  \A w \in Workers : pc[w] \in {"truncate", "write"} =>
    /\ buf[w] = Changed(disk.chans, req[w])
    /\ req[w].kind = "delete" => req[w].id \in Ids(disk.chans)

ConfigInv == FileType /\ WorkType /\ MutexInv /\ BufferInv

\* The file's content is known: it is whole, or only torn for as long as it is written.
Held == disk.st = "ok" \/ \E w \in Workers : pc[w] = "write"

\* The camera that a save or delete changes.
Current(r) == IF r.kind = "delete" THEN r.id ELSE r.rows[1].ch.id
\* A list of cameras has the camera as the channels have it.
Agrees(cams, chans, id) ==
  /\ id \in DOMAIN cams <=> id \in Ids(chans)
  /\ id \in DOMAIN cams => cams[id] = TableOf(chans)[id].name
\* The channels have the camera as request r leaves it.
Made(chans, r) ==
  IF r.kind = "delete" THEN r.id \notin Ids(chans)
  ELSE r.rows[1].ch.id \in Ids(chans) /\ TableOf(chans)[r.rows[1].ch.id] = r.rows[1].ch

\* Requests are served only once the cameras were registered.
ServersInv ==
  /\ servers = "none" => \A w \in Workers : pc[w] = "idle"
  /\ servers # "none" => stage \in {"serving", "unwind"}
  /\ stage = "serving" => servers # "none"

\* Two requests that may change the same camera have been noted.
RaceInv ==
  \A v, w \in Writers : v # w => Targets(req[v]) \cap Targets(req[w]) \subseteq raced

\* The cameras of the file were registered, and requests are or will be served.
Registered == stage \in {"metrics", "server"} \/ servers # "none"
\* A camera of which a change was written and not applied is as that change left it,
\* any other one is listed as it is stored.
ListInv ==
  Registered /\ Held =>
    \A id \in Cams \ raced :
      /\ \A w \in Workers : pc[w] = "apply" /\ Current(req[w]) = id => Made(disk.chans, req[w])
      /\ (\A w \in Workers : pc[w] = "apply" => Current(req[w]) # id) => Agrees(cameras, disk.chans, id)

\* The pages that were read so far are the first ones of the file.
PageInv ==
  Held =>
    \A w \in Workers : pc[w] \in {"page", "listed"} /\ ~req[w].outdated =>
      /\ req[w].items = SubSeq(disk.chans, 1, IF req[w].offset < Len(disk.chans) THEN req[w].offset ELSE Len(disk.chans))
      /\ pc[w] = "listed" => req[w].offset >= Len(disk.chans)

-----------------------------------------------------------------------------
(* What a save and a delete make of a list of channels.                       *)

\* The ids of a list, by position.
LEMMA IdsAt ==
  ASSUME NEW chans \in Seq(Channels), NEW id
  PROVE  id \in Ids(chans) <=> \E i \in 1 .. Len(chans) : chans[i].id = id
<1>1. DOMAIN chans = 1 .. Len(chans)
  BY LenProperties
<1> QED
  BY <1>1 DEF Ids, ToSet

\* A list in which no camera is twice is the table of its entries.
LEMMA TableAt ==
  ASSUME NEW chans \in Seq(Channels), Distinct(chans)
  PROVE  /\ TableOf(chans) \in [Ids(chans) -> Channels] /\ Ids(chans) \subseteq Cams
         /\ \A i \in 1 .. Len(chans) : TableOf(chans)[chans[i].id] = chans[i]
<1>1. DOMAIN chans = 1 .. Len(chans) /\ \A i \in 1 .. Len(chans) : chans[i] \in Channels
  BY LenProperties, ElementOfSeq
<1>2. Ids(chans) \subseteq Cams
  BY <1>1 DEF Ids, ToSet, Channels
<1>3. ASSUME NEW i \in 1 .. Len(chans) PROVE TableOf(chans)[chans[i].id] = chans[i]
  <2>1. chans[i].id \in Ids(chans)
    BY IdsAt
  <2>2. TableOf(chans)[chans[i].id] = CHOOSE ch \in ToSet(chans) : ch.id = chans[i].id
    BY <2>1 DEF TableOf
  <2>3. \A ch \in ToSet(chans) : ch.id = chans[i].id <=> ch = chans[i]
    BY <1>1 DEF ToSet, Distinct
  <2>4. chans[i] \in ToSet(chans)
    BY <1>1 DEF ToSet
  <2> QED
    BY <2>2, <2>3, <2>4
<1>4. ASSUME NEW id \in Ids(chans) PROVE TableOf(chans)[id] \in Channels
  <2>1. PICK i \in 1 .. Len(chans) : chans[i].id = id
    BY IdsAt
  <2> QED
    BY <2>1, <1>1, <1>3
<1>5. TableOf(chans) = [id \in Ids(chans) |-> TableOf(chans)[id]]
  BY DEF TableOf
<1> QED
  BY <1>2, <1>3, <1>4, <1>5

\* The search for a camera that is there ends at its entry.
LEMMA PositionAt ==
  ASSUME NEW chans \in Seq(Channels), Distinct(chans), NEW id \in Ids(chans)
  PROVE  Position(chans, id) \in 1 .. Len(chans) /\ chans[Position(chans, id)].id = id
<1>1. DOMAIN chans = 1 .. Len(chans) /\ Len(chans) \in Nat
  BY LenProperties
<1>2. PICK i \in 1 .. Len(chans) : chans[i].id = id
  BY IdsAt
<1>3. \A j \in 1 .. i - 1 : chans[j].id # id
  BY <1>1, <1>2 DEF Distinct
<1> QED
  BY <1>1, <1>2, <1>3 DEF Position

\* A save replaces one entry of the table, or adds one.
LEMMA SavedTable ==
  ASSUME NEW chans \in Seq(Channels), Distinct(chans), NEW ch \in Channels
  PROVE  /\ Saved(chans, ch) \in Seq(Channels) /\ Distinct(Saved(chans, ch))
         /\ Ids(Saved(chans, ch)) = Ids(chans) \cup {ch.id}
         /\ TableOf(Saved(chans, ch)) =
              [id \in Ids(chans) \cup {ch.id} |-> IF id = ch.id THEN ch ELSE TableOf(chans)[id]]
<1> DEFINE new == Saved(chans, ch)
<1>1. Len(chans) \in Nat /\ DOMAIN chans = 1 .. Len(chans)
  BY LenProperties
<1>2. \E p \in Nat \ {0} :
        /\ new \in Seq(Channels) /\ p \in 1 .. Len(new) /\ new[p] = ch
        /\ \A i \in 1 .. Len(new) : i # p => i \in 1 .. Len(chans) /\ new[i] = chans[i] /\ chans[i].id # ch.id
        /\ \A i \in 1 .. Len(chans) : i \in 1 .. Len(new) /\ (i = p => chans[i].id = ch.id)
  <2>1. CASE ch.id \in Ids(chans)
    <3> DEFINE p == Position(chans, ch.id)
    <3>1. p \in 1 .. Len(chans) /\ chans[p].id = ch.id
      BY <2>1, PositionAt
    <3>2. new = [chans EXCEPT ![p] = ch]
      BY <2>1 DEF Saved, ReplaceAt
    <3> HIDE DEF p, new
    <3>3. /\ new \in Seq(Channels) /\ Len(new) = Len(chans)
          /\ \A j \in 1 .. Len(chans) : new[j] = IF j = p THEN ch ELSE chans[j]
      BY <3>1, <3>2, ExceptSeq
    <3>4. \A i \in 1 .. Len(chans) : i # p => chans[i].id # ch.id
      BY <1>1, <3>1 DEF Distinct
    <3> QED
      BY <1>1, <3>1, <3>3, <3>4
  <2>2. CASE ch.id \notin Ids(chans)
    <3>1. new = Append(chans, ch)
      BY <2>2 DEF Saved
    <3> HIDE DEF new
    <3>2. /\ new \in Seq(Channels) /\ Len(new) = Len(chans) + 1
          /\ \A i \in 1 .. Len(chans) : new[i] = chans[i]
          /\ new[Len(chans) + 1] = ch
      BY <3>1, AppendProperties
    <3>3. \A i \in 1 .. Len(chans) : chans[i].id # ch.id
      BY <2>2, IdsAt
    <3> QED
      BY <1>1, <3>2, <3>3
  <2> QED
    BY <2>1, <2>2
<1> HIDE DEF new
<1>3. PICK p \in Nat \ {0} :
        /\ new \in Seq(Channels) /\ p \in 1 .. Len(new) /\ new[p] = ch
        /\ \A i \in 1 .. Len(new) : i # p => i \in 1 .. Len(chans) /\ new[i] = chans[i] /\ chans[i].id # ch.id
        /\ \A i \in 1 .. Len(chans) : i \in 1 .. Len(new) /\ (i = p => chans[i].id = ch.id)
  BY <1>2
<1>4. DOMAIN new = 1 .. Len(new) /\ Len(new) \in Nat
  BY <1>3, LenProperties
<1>5. Distinct(new)
  <2> SUFFICES ASSUME NEW i \in DOMAIN new, NEW j \in DOMAIN new, new[i].id = new[j].id PROVE i = j
    BY DEF Distinct
  <2> QED
    BY <1>1, <1>3, <1>4 DEF Distinct
<1>6. Ids(new) = Ids(chans) \cup {ch.id}
  <2>1. \A id : id \in Ids(new) <=> \E i \in 1 .. Len(new) : new[i].id = id
    BY <1>3, IdsAt
  <2>2. \A id : id \in Ids(chans) <=> \E i \in 1 .. Len(chans) : chans[i].id = id
    BY IdsAt
  <2>3. \A id \in Ids(new) : id \in Ids(chans) \cup {ch.id}
    BY <1>3, <2>1, <2>2
  <2>4. \A id \in Ids(chans) : id \in Ids(new)
    BY <1>3, <2>1, <2>2
  <2>5. ch.id \in Ids(new)
    BY <1>3, <2>1
  <2> QED
    BY <2>3, <2>4, <2>5
<1>7. \A i \in 1 .. Len(new) : TableOf(new)[new[i].id] = new[i]
  BY <1>3, <1>5, TableAt
<1>8. ASSUME NEW id \in Ids(new)
      PROVE  TableOf(new)[id] = IF id = ch.id THEN ch ELSE TableOf(chans)[id]
  <2>1. CASE id = ch.id
    BY <2>1, <1>3, <1>7
  <2>2. CASE id # ch.id
    <3>1. PICK i \in 1 .. Len(new) : new[i].id = id
      BY <1>3, IdsAt
    <3>2. i # p
      BY <2>2, <3>1, <1>3
    <3>3. i \in 1 .. Len(chans) /\ new[i] = chans[i]
      BY <3>2, <1>3
    <3>4. TableOf(chans)[chans[i].id] = chans[i]
      BY <3>3, TableAt
    <3> QED
      BY <2>2, <3>1, <3>3, <3>4, <1>7
  <2> QED
    BY <2>1, <2>2
<1>9. TableOf(new) = [id \in Ids(new) |-> TableOf(new)[id]]
  BY DEF TableOf
<1>10. TableOf(new) = [id \in Ids(chans) \cup {ch.id} |-> IF id = ch.id THEN ch ELSE TableOf(chans)[id]]
  BY <1>6, <1>8, <1>9
<1> QED
  BY <1>3, <1>5, <1>6, <1>10 DEF new

\* A delete removes one entry of the table.
LEMMA DeletedTable ==
  ASSUME NEW chans \in Seq(Channels), Distinct(chans), NEW gone \in Ids(chans)
  PROVE  /\ Deleted(chans, gone) \in Seq(Channels) /\ Distinct(Deleted(chans, gone))
         /\ Ids(Deleted(chans, gone)) = Ids(chans) \ {gone}
         /\ TableOf(Deleted(chans, gone)) = [id \in Ids(chans) \ {gone} |-> TableOf(chans)[id]]
<1> DEFINE new == Deleted(chans, gone)
           p == Position(chans, gone)
           front == SubSeq(chans, 1, p - 1)
           rest == SubSeq(chans, p + 1, Len(chans))
           from(i) == IF i < p THEN i ELSE i + 1
<1>1. Len(chans) \in Nat /\ DOMAIN chans = 1 .. Len(chans) /\ \A i \in 1 .. Len(chans) : chans[i] \in Channels
  BY LenProperties, ElementOfSeq
<1>2. p \in 1 .. Len(chans) /\ chans[p].id = gone
  BY PositionAt
<1>3. new = front \o rest
  BY DEF Deleted, RemoveAt
<1> HIDE DEF new, p
<1>4. /\ front \in Seq(Channels) /\ Len(front) = p - 1
      /\ \A i \in 1 .. p - 1 : front[i] = chans[i]
  <2>1. \A i \in 1 .. p - 1 : chans[i] \in Channels
    BY <1>1, <1>2
  <2>2. /\ front \in Seq(Channels) /\ Len(front) = IF 1 <= p - 1 THEN p - 1 - 1 + 1 ELSE 0
        /\ \A i \in 1 .. p - 1 - 1 + 1 : front[i] = chans[1 + i - 1]
    BY <2>1, <1>2, SubSeqProperties
  <2> HIDE DEF front
  <2> QED
    BY <2>2, <1>2
<1>5. /\ rest \in Seq(Channels) /\ Len(rest) = Len(chans) - p
      /\ \A i \in 1 .. Len(chans) - p : rest[i] = chans[p + i]
  <2>1. \A i \in p + 1 .. Len(chans) : chans[i] \in Channels
    BY <1>1, <1>2
  <2>2. /\ rest \in Seq(Channels) /\ Len(rest) = IF p + 1 <= Len(chans) THEN Len(chans) - (p + 1) + 1 ELSE 0
        /\ \A i \in 1 .. Len(chans) - (p + 1) + 1 : rest[i] = chans[p + 1 + i - 1]
    BY <2>1, <1>1, <1>2, SubSeqProperties
  <2> HIDE DEF rest
  <2>3. Len(rest) = Len(chans) - p /\ Len(chans) - (p + 1) + 1 = Len(chans) - p
    <3>1. p \in Nat /\ p <= Len(chans) /\ Len(chans) \in Nat
      BY <1>1, <1>2
    <3>2. Len(rest) = IF p + 1 <= Len(chans) THEN Len(chans) - (p + 1) + 1 ELSE 0
      BY <2>2
    <3> QED
      BY <3>1, <3>2
  <2>4. ASSUME NEW i \in 1 .. Len(chans) - p PROVE rest[i] = chans[p + i]
    <3>1. p + 1 + i - 1 = p + i
      BY <1>1, <1>2
    <3> QED
      BY <3>1, <2>2, <2>3
  <2> QED
    BY <2>2, <2>3, <2>4
<1> HIDE DEF front, rest
<1>6. /\ new \in Seq(Channels) /\ Len(new) = Len(chans) - 1
      /\ \A i \in 1 .. Len(new) : from(i) \in 1 .. Len(chans) /\ from(i) # p /\ new[i] = chans[from(i)]
  <2>1. /\ new \in Seq(Channels) /\ Len(new) = Len(front) + Len(rest)
        /\ \A i \in 1 .. Len(front) + Len(rest) : new[i] = IF i <= Len(front) THEN front[i] ELSE rest[i - Len(front)]
    BY <1>3, <1>4, <1>5, ConcatProperties
  <2>2. Len(new) = Len(chans) - 1
    BY <2>1, <1>1, <1>2, <1>4, <1>5
  <2>3. ASSUME NEW i \in 1 .. Len(new) PROVE from(i) \in 1 .. Len(chans) /\ from(i) # p /\ new[i] = chans[from(i)]
    <3>1. CASE i < p
      BY <3>1, <2>1, <2>2, <1>1, <1>2, <1>4
    <3>2. CASE i >= p
      <4>1. i - (p - 1) \in 1 .. Len(chans) - p /\ p + (i - (p - 1)) = i + 1
        BY <3>2, <2>2, <1>1, <1>2
      <4>2. rest[i - (p - 1)] = chans[p + (i - (p - 1))]
        BY <4>1, <1>5
      <4>3. new[i] = rest[i - (p - 1)]
        BY <3>2, <2>1, <2>2, <1>1, <1>2, <1>4, <1>5
      <4> QED
        BY <3>2, <4>1, <4>2, <4>3, <2>2, <1>1, <1>2
    <3> QED
      BY <3>1, <3>2, <1>2, <2>2, <1>1
  <2> QED
    BY <2>1, <2>2, <2>3
<1>7. DOMAIN new = 1 .. Len(new)
  BY <1>6, LenProperties
<1>8. Distinct(new)
  <2> SUFFICES ASSUME NEW i \in DOMAIN new, NEW j \in DOMAIN new, new[i].id = new[j].id PROVE i = j
    BY DEF Distinct
  <2>1. from(i) = from(j)
    <3>1. /\ from(i) \in 1 .. Len(chans) /\ from(j) \in 1 .. Len(chans)
          /\ new[i] = chans[from(i)] /\ new[j] = chans[from(j)]
      BY <1>6, <1>7
    <3> HIDE DEF from, new
    <3>2. from(i) \in DOMAIN chans /\ from(j) \in DOMAIN chans /\ chans[from(i)].id = chans[from(j)].id
      BY <1>1, <3>1
    <3> QED
      BY <1>1, <3>2 DEF Distinct
  <2> QED
    BY <2>1, <1>1, <1>2, <1>6, <1>7
<1>9. Ids(new) = Ids(chans) \ {gone}
  <2>1. \A id : id \in Ids(new) <=> \E i \in 1 .. Len(new) : new[i].id = id
    BY <1>6, IdsAt
  <2>2. \A id : id \in Ids(chans) <=> \E i \in 1 .. Len(chans) : chans[i].id = id
    BY IdsAt
  <2>3. ASSUME NEW id \in Ids(new) PROVE id \in Ids(chans) \ {gone}
    <3>1. PICK i \in 1 .. Len(new) : new[i].id = id
      BY <2>1
    <3>2. chans[from(i)].id = id /\ from(i) \in 1 .. Len(chans) /\ from(i) # p
      BY <3>1, <1>6
    <3>3. id # gone
      BY <3>2, <1>1, <1>2 DEF Distinct
    <3> QED
      BY <3>2, <3>3, <2>2
  <2>4. ASSUME NEW id \in Ids(chans) \ {gone} PROVE id \in Ids(new)
    <3>1. PICK i \in 1 .. Len(chans) : chans[i].id = id
      BY <2>2
    <3>2. i # p
      BY <3>1, <1>2
    <3>3. CASE i < p
      BY <3>1, <3>3, <2>1, <1>1, <1>2, <1>6
    <3>4. CASE i > p
      <4>1. i - 1 \in 1 .. Len(new) /\ new[i - 1] = chans[i]
        BY <3>4, <1>1, <1>2, <1>6
      <4> QED
        BY <3>1, <4>1, <2>1
    <3> QED
      BY <3>2, <3>3, <3>4, <1>2
  <2> QED
    BY <2>3, <2>4
<1>10. ASSUME NEW id \in Ids(new) PROVE TableOf(new)[id] = TableOf(chans)[id]
  <2>1. PICK i \in 1 .. Len(new) : new[i].id = id
    BY <1>6, IdsAt
  <2>2. TableOf(new)[new[i].id] = new[i]
    BY <1>6, <1>8, TableAt
  <2>3. TableOf(chans)[chans[from(i)].id] = chans[from(i)]
    BY <1>6, TableAt
  <2> QED
    BY <2>1, <2>2, <2>3, <1>6
<1>11. TableOf(new) = [id \in Ids(new) |-> TableOf(new)[id]]
  BY DEF TableOf
<1>12. TableOf(new) = [id \in Ids(chans) \ {gone} |-> TableOf(chans)[id]]
  BY <1>9, <1>10, <1>11
<1> QED
  BY <1>6, <1>8, <1>9, <1>12 DEF new

-----------------------------------------------------------------------------
(* The requests keep their mutex and write what they loaded, changed.         *)

\* What a step of the application is to the camera configuration.
LEMMA ConfigSteps ==
  [AppNext]_allVars =>
    UNCHANGED vars \/ RegisterAll \/ Kill \/ \E w \in Workers : Arrive(w) \/ Serve(w)
<1> SUFFICES ASSUME [AppNext]_allVars
             PROVE  UNCHANGED vars \/ RegisterAll \/ Kill \/ \E w \in Workers : Arrive(w) \/ Serve(w)
  OBVIOUS
<1>1. CASE UNCHANGED allVars
  BY <1>1 DEF allVars
<1>2. CASE Boot \/ Terminate \/ TakeSnapshot \/ EndSnapshot \/ EndSnapshots \/ StopServers
  BY <1>2 DEF Boot, Terminate, TakeSnapshot, EndSnapshot, EndSnapshots, StopServers
<1>3. CASE StartProviders \/ StartHub \/ StartRecorder \/ StartAnalytics \/ StartMetrics \/ StartServers \/ Unwind
  BY <1>3 DEF StartProviders, StartHub, StartRecorder, StartAnalytics, StartMetrics, StartServers, Unwind
<1>4. CASE RegisterCameras
  BY <1>4 DEF RegisterCameras
<1>5. CASE Return \/ Crash
  BY <1>5 DEF Return, Crash
<1>6. CASE \E w \in Workers : Request(w)
  BY <1>6 DEF Request
<1> QED
  BY <1>1, <1>2, <1>3, <1>4, <1>5, <1>6 DEF AppNext, MainStep

\* A step of w leaves the others where they are, with what they have; a list that
\* one of them reads may have become outdated.
Alone(w) ==
  /\ pc' = [v \in Workers |-> pc'[v]] /\ req' = [v \in Workers |-> req'[v]] /\ buf' = [v \in Workers |-> buf'[v]]
  /\ \A v \in Workers \ {w} :
       pc'[v] = pc[v] /\ buf'[v] = buf[v] /\ (req'[v] = req[v] \/ req'[v] = Outdated[v])

\* The three updates that a step makes of the goroutine's own entries.
Puts(w, p, r) ==
  /\ pc' = [pc EXCEPT ![w] = p] /\ req' = [req EXCEPT ![w] = r]
  /\ buf' = buf \/ \E b : buf' = [buf EXCEPT ![w] = b]

LEMMA PutsAlone ==
  ASSUME WorkType, NEW w \in Workers, NEW p, NEW r, Puts(w, p, r)
  PROVE  Alone(w) /\ pc'[w] = p /\ req'[w] = r
  BY DEF WorkType, Puts, Alone

\* Marking lists as outdated leaves every request of its kind.
LEMMA OutdatedFits ==
  ASSUME WorkType, NEW w \in Workers
  PROVE  /\ Fits(pc[w], Outdated[w])
         /\ pc[w] \notin {"page", "listed"} => Outdated[w] = req[w]
         /\ pc[w] \in {"page", "listed"} => Outdated[w] = [req[w] EXCEPT !.outdated = TRUE]
<1>1. Fits(pc[w], req[w])
  BY DEF WorkType
<1>2. CASE pc[w] \in {"page", "listed"}
  <2>1. req[w] \in ListRequests
    BY <1>1, <1>2 DEF Fits, Changing
  <2>2. Outdated[w] = [req[w] EXCEPT !.outdated = TRUE]
    BY <2>1 DEF Outdated, ListRequests
  <2>3. [req[w] EXCEPT !.outdated = TRUE] \in ListRequests
    BY <2>1 DEF ListRequests
  <2> QED
    BY <1>2, <2>2, <2>3 DEF Fits
<1>3. CASE pc[w] \notin {"page", "listed"}
  <2>1. req[w].kind # "list"
    BY <1>1, <1>3 DEF Fits, None, ImportRequests, SaveRequests, DeleteRequests, GetRequests
  <2> QED
    BY <1>1, <1>3, <2>1 DEF Outdated
<1> QED
  BY <1>2, <1>3

\* The next rows of an import are rows.
LEMMA RowsLeft ==
  ASSUME NEW r, r \in ImportRequests \/ (r \in SaveRequests /\ r.kind = "import"), r.rows # <<>>
  PROVE  [r EXCEPT !.rows = Tail(r.rows)] \in ImportRequests
<1>1. r \in ImportRequests
  BY DEF ImportRequests, SaveRequests
<1>2. Tail(r.rows) \in Seq(AnyRow)
  BY <1>1, HeadTailProperties DEF ImportRequests
<1> QED
  BY <1>1, <1>2 DEF ImportRequests

\* A request arrives with what its handler needs.
LEMMA ArriveFits ==
  ASSUME WorkType, NEW w \in Workers, Arrive(w)
  PROVE  /\ Alone(w) /\ Fits(pc'[w], req'[w])
         /\ pc[w] = "idle" /\ pc'[w] \in {"lock", "row", "read", "page"} /\ UNCHANGED <<disk, mu, faults, cameras, buf>>
         /\ pc'[w] = "page" => req'[w].offset = 0 /\ req'[w].items = <<>>
         /\ raced' = raced \cup {id \in Targets(req'[w]) : InFlight(id)}
<1>1. ASSUME NEW r, NEW p, Begin(w, r, p)
      PROVE  /\ Alone(w) /\ pc'[w] = p /\ req'[w] = r /\ pc[w] = "idle" /\ UNCHANGED <<disk, mu, faults, cameras, buf>>
             /\ raced' = raced \cup {id \in Targets(r) : InFlight(id)}
  <2>1. Puts(w, p, r)
    BY <1>1 DEF Begin, Puts
  <2> QED
    BY <1>1, <2>1, PutsAlone DEF Begin, fileVars
<1>2. CASE \E id \in Cams : Delete(w, id)
  <2>1. PICK id \in Cams : Delete(w, id)
    BY <1>2
  <2>2. [kind |-> "delete", id |-> id] \in DeleteRequests
    BY DEF DeleteRequests
  <2> QED
    BY <2>1, <2>2, <1>1 DEF Delete, Fits, Changing
<1>3. CASE \E id \in Cams : Get(w, id)
  <2>1. PICK id \in Cams : Get(w, id)
    BY <1>3
  <2>2. [kind |-> "get", id |-> id] \in GetRequests
    BY DEF GetRequests
  <2> QED
    BY <2>1, <2>2, <1>1 DEF Get, Fits
<1>4. CASE \E id \in Cams, name \in Names : Upsert(w, id, name)
  <2>1. PICK id \in Cams, name \in Names : Upsert(w, id, name)
    BY <1>4
  <2> DEFINE row == [ch |-> [id |-> id, name |-> name, site |-> 2]]
  <2>2. row \in [ch : Channels] /\ row \in AnyRow
    BY DEF Channels, AnyRow
  <2> HIDE DEF row
  <2>3. [kind |-> "upsert", rows |-> <<row>>] \in SaveRequests
    BY <2>2 DEF SaveRequests
  <2>4. Begin(w, [kind |-> "upsert", rows |-> <<row>>], "lock")
    BY <2>1 DEF Upsert, row
  <2> QED
    BY <2>3, <2>4, <1>1 DEF Fits, Changing
<1>5. CASE \E rows \in Imports : Import(w, rows)
  <2>1. PICK rows \in Imports : Import(w, rows)
    BY <1>5
  <2>2. rows \in Seq(Row) /\ Row \subseteq AnyRow
    BY InputsAssumption DEF Row, AnyRow, Channels
  <2>3. rows \in Seq(AnyRow)
    BY <2>2, SeqMonotonic
  <2>4. [kind |-> "import", rows |-> rows] \in ImportRequests
    BY <2>3 DEF ImportRequests
  <2> QED
    BY <2>1, <2>4, <1>1 DEF Import, Fits
<1>6. CASE List(w)
  <2> DEFINE r == [kind |-> "list", offset |-> 0, items |-> <<>>, outdated |-> FALSE]
  <2>1. r \in ListRequests /\ r.offset = 0 /\ r.items = <<>>
    BY DEF ListRequests
  <2>2. Begin(w, r, "page")
    BY <1>6 DEF List
  <2> HIDE DEF r
  <2> QED
    BY <2>1, <2>2, <1>1 DEF Fits
<1> QED
  BY <1>2, <1>3, <1>4, <1>5, <1>6 DEF Arrive

\* A page is a stretch of the channels.
LEMMA PageType ==
  ASSUME NEW all \in Seq(Channels), NEW offset \in Nat
  PROVE  /\ Page(all, offset) \in Seq(Channels)
         /\ Page(all, offset) = SubSeq(all, (IF offset < Len(all) THEN offset ELSE Len(all)) + 1,
                                       IF offset + Limit < Len(all) THEN offset + Limit ELSE Len(all))
<1> DEFINE from == IF offset < Len(all) THEN offset ELSE Len(all)
           to == IF offset + Limit < Len(all) THEN offset + Limit ELSE Len(all)
<1>1. Len(all) \in Nat /\ \A i \in 1 .. Len(all) : all[i] \in Channels
  BY LenProperties, ElementOfSeq
<1>2. from \in Nat /\ to \in Nat /\ to <= Len(all) /\ from <= to
  BY <1>1, ConfigAssumption
<1>3. /\ (IF offset > Len(all) THEN Len(all) ELSE offset) = from
      /\ (IF from + Limit < Len(all) THEN from + Limit ELSE Len(all)) = to
  BY <1>1, ConfigAssumption
<1>4. Page(all, offset) = SubSeq(all, from + 1, to)
  BY <1>3 DEF Page
<1> HIDE DEF from, to
<1>5. \A i \in from + 1 .. to : all[i] \in Channels
  BY <1>1, <1>2
<1>6. SubSeq(all, from + 1, to) \in Seq(Channels)
  BY <1>2, <1>5, SubSeqProperties
<1> QED
  BY <1>4, <1>6 DEF from, to

\* An answered request leaves an idle goroutine.
LEMMA AnsweredFits ==
  ASSUME WorkType, NEW w \in Workers, NEW status, Answered(w, status)
  PROVE  Alone(w) /\ Fits(pc'[w], req'[w]) /\ pc'[w] = "idle"
<1>1. Puts(w, "idle", None)
  BY DEF Answered, Puts
<1> QED
  BY <1>1, PutsAlone DEF Fits

\* A step that leaves a goroutine's request alone.
LEMMA KeepsAlone ==
  ASSUME WorkType, NEW w \in Workers, NEW p, pc' = [pc EXCEPT ![w] = p], req' = req,
         buf' = buf \/ \E b : buf' = [buf EXCEPT ![w] = b]
  PROVE  Alone(w) /\ pc'[w] = p /\ req'[w] = req[w]
<1>1. Puts(w, p, req[w])
  BY DEF Puts, WorkType
<1> QED
  BY <1>1, PutsAlone

\* A goroutine's next step leaves it with what the step after it needs.
LEMMA ServeFits ==
  ASSUME FileType, WorkType, NEW w \in Workers, Serve(w)
  PROVE  Alone(w) /\ Fits(pc'[w], req'[w])
<1>0. Fits(pc[w], req[w])
  BY DEF WorkType
<1>1. CASE NextRow(w)
  <2>1. req[w] \in ImportRequests /\ pc[w] = "row"
    BY <1>0, <1>1 DEF NextRow, Fits, Changing
  <2>2. CASE \E status \in {200, 500} : Answered(w, status)
    BY <2>2, AnsweredFits
  <2>3. CASE req[w].rows # <<>> /\ req' = [req EXCEPT ![w].rows = Tail(req[w].rows)] /\ UNCHANGED <<pc, buf>>
    <3>1. [req[w] EXCEPT !.rows = Tail(req[w].rows)] \in ImportRequests
      BY <2>1, <2>3, RowsLeft
    <3>2. Puts(w, "row", [req[w] EXCEPT !.rows = Tail(req[w].rows)])
      BY <2>1, <2>3 DEF Puts, WorkType
    <3> QED
      BY <3>1, <3>2, PutsAlone DEF Fits
  <2>4. CASE /\ req[w].rows # <<>> /\ "ch" \in DOMAIN req[w].rows[1]
             /\ pc' = [pc EXCEPT ![w] = "lock"] /\ UNCHANGED <<req, buf>>
    <3>1. req[w].rows[1] \in AnyRow
      BY <2>1, <2>4, EmptySeq, ElementOfSeq DEF ImportRequests
    <3>2. req[w].rows[1] \in [ch : Channels]
      BY <3>1, <2>4 DEF AnyRow
    <3>3. req[w] \in SaveRequests
      BY <2>1, <2>4, <3>2 DEF SaveRequests, ImportRequests
    <3> QED
      BY <2>4, <3>3, KeepsAlone DEF Fits, Changing
  <2> QED
    BY <1>1, <2>2, <2>3, <2>4 DEF NextRow
<1>2. CASE Lock(w)
  <2>1. req[w] \in SaveRequests \cup DeleteRequests
    BY <1>0, <1>2 DEF Lock, Fits
  <2> QED
    BY <1>2, <2>1, KeepsAlone DEF Lock, Fits, Changing
<1>3. CASE Load(w)
  <2>1. req[w] \in SaveRequests \cup DeleteRequests
    BY <1>0, <1>3 DEF Load, Fits
  <2>2. CASE \E status \in {404, 500} : Answered(w, status)
    BY <2>2, AnsweredFits
  <2>3. CASE pc' = [pc EXCEPT ![w] = "truncate"] /\ UNCHANGED req /\ \E b : buf' = [buf EXCEPT ![w] = b]
    BY <2>3, <2>1, KeepsAlone DEF Fits, Changing
  <2> QED
    BY <1>3, <2>2, <2>3 DEF Load
<1>4. CASE Truncate(w)
  <2>1. req[w] \in SaveRequests \cup DeleteRequests
    BY <1>0, <1>4 DEF Truncate, Fits
  <2>2. CASE Answered(w, 500)
    BY <2>2, AnsweredFits
  <2>3. CASE pc' = [pc EXCEPT ![w] = "write"] /\ UNCHANGED <<req, buf>>
    BY <2>3, <2>1, KeepsAlone DEF Fits, Changing
  <2> QED
    BY <1>4, <2>2, <2>3 DEF Truncate
<1>5. CASE Write(w)
  <2>1. req[w] \in SaveRequests \cup DeleteRequests /\ pc[w] = "write"
    BY <1>0, <1>5 DEF Write, Fits
  <2>2. CASE Answered(w, 500)
    BY <2>2, AnsweredFits
  <2>3. CASE pc' = [pc EXCEPT ![w] = "apply"] /\ req' = Outdated /\ buf' = [buf EXCEPT ![w] = <<>>]
    <3>1. req'[w] = req[w]
      BY <2>1, <2>3, OutdatedFits
    <3>2. req' = [v \in Workers |-> req'[v]]
      BY <2>3 DEF Outdated
    <3>3. pc'[w] = "apply" /\ Alone(w)
      BY <2>3, <3>2 DEF WorkType, Alone
    <3> QED
      BY <2>1, <3>1, <3>3 DEF Fits, Changing
  <2> QED
    BY <1>5, <2>2, <2>3 DEF Write
<1>6. CASE Apply(w)
  <2>1. req[w] \in SaveRequests \cup DeleteRequests
    BY <1>0, <1>6 DEF Apply, Fits
  <2>2. CASE req[w].kind # "import"
    BY <1>6, <2>2, AnsweredFits DEF Apply
  <2>3. CASE req[w].kind = "import"
    <3>1. req[w] \in SaveRequests /\ req[w].rows # <<>>
      BY <2>1, <2>3 DEF SaveRequests, DeleteRequests
    <3>2. [req[w] EXCEPT !.rows = Tail(req[w].rows)] \in ImportRequests
      BY <2>3, <3>1, RowsLeft
    <3>3. Puts(w, "row", [req[w] EXCEPT !.rows = Tail(req[w].rows)])
      BY <1>6, <2>3 DEF Apply, Puts, WorkType
    <3> QED
      BY <3>2, <3>3, PutsAlone DEF Fits
  <2> QED
    BY <2>2, <2>3
<1>7. CASE Read(w)
  <2>1. req[w] \in GetRequests
    BY <1>0, <1>7 DEF Read, Fits, Changing
  <2>2. CASE \E status \in {200, 500} : Answered(w, status)
    BY <2>2, AnsweredFits
  <2>3. CASE pc' = [pc EXCEPT ![w] = "absent"] /\ UNCHANGED <<req, buf>>
    BY <2>3, <2>1, KeepsAlone DEF Fits
  <2> QED
    BY <1>7, <2>2, <2>3 DEF Read
<1>8. CASE ReadPage(w)
  <2>1. req[w] \in ListRequests
    BY <1>0, <1>8 DEF ReadPage, Fits, Changing
  <2>2. CASE Answered(w, 500)
    BY <2>2, AnsweredFits
  <2>3. CASE ~Answered(w, 500)
    <3> DEFINE next == [req[w] EXCEPT !.items = req[w].items \o Page(load.chans, req[w].offset),
                                      !.offset = req[w].offset + Limit]
               to == IF req[w].offset + Limit < Len(load.chans) THEN "page" ELSE "listed"
    <3>1. load = disk
      BY <1>8, <2>3 DEF ReadPage, load
    <3>2. Page(load.chans, req[w].offset) \in Seq(Channels)
      BY <2>1, <3>1, PageType DEF FileType, ListRequests
    <3>3. next \in ListRequests
      <4>1. req[w].offset + Limit \in Nat
        BY <2>1, ConfigAssumption DEF ListRequests
      <4>2. req[w].items \o Page(load.chans, req[w].offset) \in Seq(Channels)
        BY <2>1, <3>2, ConcatProperties DEF ListRequests
      <4> QED
        BY <2>1, <4>1, <4>2 DEF ListRequests
    <3>4. Puts(w, to, next)
      BY <1>8, <2>3 DEF ReadPage, Puts, WorkType
    <3> HIDE DEF next
    <3> QED
      BY <3>3, <3>4, PutsAlone DEF Fits
  <2> QED
    BY <2>2, <2>3
<1>9. CASE EndRead(w)
  BY <1>9, AnsweredFits DEF EndRead
<1> QED
  BY <1>1, <1>2, <1>3, <1>4, <1>5, <1>6, <1>7, <1>8, <1>9 DEF Serve

\* The kinds of steps of a goroutine, by what they do to the file, the mutex and the
\* list: none of these, ...
Others(w) == \A v \in Workers \ {w} : req'[v] = req[v]
Local(w) ==
  /\ pc[w] \in {"row", "read", "absent", "page", "listed"} /\ pc'[w] \in {"idle", "row", "lock", "absent", "page", "listed"}
  /\ pc'[w] \in {"row", "lock"} => pc[w] = "row"
  /\ Others(w) /\ UNCHANGED <<disk, mu, faults, cameras>>
\* ... taking the mutex, loading, ...
Locks(w) ==
  /\ pc[w] = "lock" /\ pc'[w] = "load" /\ mu = NoOne /\ mu' = w
  /\ UNCHANGED <<disk, faults, cameras, req>>
Loads(w) ==
  /\ pc[w] = "load" /\ pc'[w] = "truncate" /\ disk.st = "ok"
  /\ req[w].kind = "delete" => req[w].id \in Ids(disk.chans)
  /\ buf'[w] = Changed(disk.chans, req[w])
  /\ UNCHANGED <<disk, mu, faults, cameras, req>>
\* ... giving up, ...
Fails(w) ==
  /\ pc[w] \in {"load", "truncate"} /\ pc'[w] = "idle" /\ mu' = NoOne
  /\ Others(w) /\ UNCHANGED <<disk, faults, cameras>>
\* ... truncating the file, writing it, failing to, ...
Opens(w) ==
  /\ pc[w] = "truncate" /\ pc'[w] = "write" /\ disk' = [disk EXCEPT !.st = "torn"]
  /\ UNCHANGED <<mu, faults, cameras, req, buf>>
Writes(w) ==
  /\ pc[w] = "write" /\ pc'[w] = "apply" /\ disk' = Ok(buf[w]) /\ mu' = NoOne
  /\ req' = Outdated /\ req'[w] = req[w] /\ UNCHANGED <<faults, cameras>>
Tears(w) ==
  /\ pc[w] = "write" /\ pc'[w] = "idle" /\ disk' = Torn /\ mu' = NoOne /\ faults' = TRUE
  /\ Others(w) /\ UNCHANGED cameras
\* ... and changing the list.
Applies(w) ==
  /\ pc[w] = "apply" /\ pc'[w] \in {"idle", "row"} /\ Others(w) /\ UNCHANGED <<disk, mu, faults>>
  /\ cameras' = IF req[w].kind = "delete" THEN [id \in DOMAIN cameras \ {req[w].id} |-> cameras[id]]
                ELSE [id \in DOMAIN cameras \cup {req[w].rows[1].ch.id} |->
                        IF id = req[w].rows[1].ch.id THEN req[w].rows[1].ch.name ELSE cameras[id]]

LEMMA ServeKinds ==
  ASSUME FileType, WorkType, NEW w \in Workers, Serve(w)
  PROVE  /\ Local(w) \/ Locks(w) \/ Loads(w) \/ Fails(w) \/ Opens(w) \/ Writes(w) \/ Tears(w) \/ Applies(w)
         /\ raced' = raced
<1>1. ASSUME NEW status, Answered(w, status) PROVE pc'[w] = "idle" /\ Others(w)
  BY <1>1 DEF Answered, Others, WorkType
<1>2. CASE NextRow(w)
  <2>1. pc'[w] \in {"idle", "row", "lock"} /\ Others(w)
    BY <1>1, <1>2 DEF NextRow, WorkType, Others
  <2> QED
    BY <1>2, <2>1 DEF NextRow, Local, fileVars
<1>3. CASE Lock(w)
  BY <1>3 DEF Lock, Locks, WorkType
<1>4. CASE Load(w)
  <2>1. load.st # "error" => load = disk /\ disk.st = "ok"
    BY DEF load
  <2>2. CASE \E status \in {404, 500} : Answered(w, status) /\ Unlock(w, status)
    BY <1>1, <1>4, <2>2 DEF Load, Fails, Unlock
  <2>3. CASE /\ load.st # "error" /\ (req[w].kind = "delete" => req[w].id \in Ids(load.chans))
             /\ buf' = [buf EXCEPT ![w] = IF req[w].kind = "delete" THEN Deleted(load.chans, req[w].id)
                                          ELSE Saved(load.chans, req[w].rows[1].ch)]
             /\ pc' = [pc EXCEPT ![w] = "truncate"] /\ UNCHANGED <<mu, req>>
    BY <1>4, <2>1, <2>3 DEF Load, Loads, WorkType, Changed
  <2> QED
    BY <1>4, <2>2, <2>3 DEF Load
<1>5. CASE Truncate(w)
  <2>1. CASE Answered(w, 500) /\ Unlock(w, 500) /\ UNCHANGED disk
    BY <1>1, <1>5, <2>1 DEF Truncate, Fails, Unlock
  <2>2. CASE /\ disk' = [disk EXCEPT !.st = "torn"] /\ pc' = [pc EXCEPT ![w] = "write"] /\ UNCHANGED <<mu, req, buf>>
    BY <1>5, <2>2 DEF Truncate, Opens, WorkType
  <2> QED
    BY <1>5, <2>1, <2>2 DEF Truncate
<1>6. CASE Write(w)
  <2>1. CASE disk' = Torn /\ faults' = TRUE /\ Answered(w, 500) /\ Unlock(w, 500)
    BY <1>1, <1>6, <2>1 DEF Write, Tears, Unlock
  <2>2. CASE /\ disk' = Ok(buf[w]) /\ pc' = [pc EXCEPT ![w] = "apply"] /\ Unlock(w, 200) /\ req' = Outdated
             /\ UNCHANGED faults
    <3>1. req'[w] = req[w]
      BY <1>6, <2>2, OutdatedFits DEF Write
    <3> QED
      BY <1>6, <2>2, <3>1 DEF Write, Writes, Unlock, WorkType
  <2> QED
    BY <1>6, <2>1, <2>2 DEF Write
<1>7. CASE Apply(w)
  <2>1. pc'[w] \in {"idle", "row"} /\ Others(w)
    BY <1>1, <1>7 DEF Apply, WorkType, Others
  <2> QED
    BY <1>7, <2>1 DEF Apply, Applies, fileVars
<1>8. CASE Read(w)
  <2>1. pc'[w] \in {"idle", "absent"} /\ Others(w)
    BY <1>1, <1>8 DEF Read, WorkType, Others
  <2> QED
    BY <1>8, <2>1 DEF Read, Local, fileVars
<1>9. CASE ReadPage(w)
  <2>1. pc'[w] \in {"idle", "page", "listed"} /\ Others(w)
    <3>1. CASE Answered(w, 500)
      BY <1>1, <3>1
    <3>2. CASE ~Answered(w, 500)
      <4>1. pc'[w] \in {"page", "listed"}
        BY <1>9, <3>2 DEF ReadPage, WorkType
      <4>2. \E x : req' = [req EXCEPT ![w] = x]
        BY <1>9, <3>2 DEF ReadPage, WorkType
      <4>3. Others(w)
        BY <4>2 DEF WorkType, Others
      <4> QED
        BY <4>1, <4>3
    <3> QED
      BY <3>1, <3>2
  <2> QED
    BY <1>9, <2>1 DEF ReadPage, Local, fileVars
<1>10. CASE EndRead(w)
  BY <1>1, <1>10 DEF EndRead, Local, fileVars
<1> QED
  BY <1>2, <1>3, <1>4, <1>5, <1>6, <1>7, <1>8, <1>9, <1>10 DEF Serve

\* A change leaves a list of channels in which no camera is twice, and its table is
\* the one after the save or delete.
LEMMA ChangedTable ==
  ASSUME NEW chans \in Seq(Channels), Distinct(chans), NEW r \in SaveRequests \cup DeleteRequests,
         r.kind = "delete" => r.id \in Ids(chans)
  PROVE  /\ Changed(chans, r) \in Seq(Channels) /\ Distinct(Changed(chans, r))
         /\ r.kind = "delete" =>
              /\ r.id \in Cams /\ Ids(Changed(chans, r)) = Ids(chans) \ {r.id}
              /\ TableOf(Changed(chans, r)) = [id \in Ids(chans) \ {r.id} |-> TableOf(chans)[id]]
         /\ r.kind # "delete" =>
              /\ r.rows[1].ch \in Channels /\ Ids(Changed(chans, r)) = Ids(chans) \cup {r.rows[1].ch.id}
              /\ TableOf(Changed(chans, r)) = [id \in Ids(chans) \cup {r.rows[1].ch.id} |->
                                                IF id = r.rows[1].ch.id THEN r.rows[1].ch ELSE TableOf(chans)[id]]
<1>1. CASE r.kind = "delete"
  <2>1. r.id \in Cams
    BY <1>1 DEF SaveRequests, DeleteRequests
  <2> QED
    BY <1>1, <2>1, DeletedTable DEF Changed
<1>2. CASE r.kind # "delete"
  <2>1. r.rows[1].ch \in Channels
    BY <1>2 DEF SaveRequests, DeleteRequests
  <2> QED
    BY <1>2, <2>1, SavedTable DEF Changed
<1> QED
  BY <1>1, <1>2

LEMMA ConfigInit == Init => ConfigInv
<1> SUFFICES ASSUME Init PROVE ConfigInv
  OBVIOUS
<1>1. disk \in {Missing} \cup {Ok(chans) : chans \in Files}
  BY DEF Init
<1>2. pc = [w \in Workers |-> "idle"] /\ req = [w \in Workers |-> None] /\ buf = [w \in Workers |-> <<>>]
  BY DEF Init
<1>3. FileType
  <2>1. CASE disk = Missing
    BY <2>1 DEF FileType, Missing, Distinct
  <2>2. CASE disk \in {Ok(chans) : chans \in Files}
    <3>1. PICK chans \in Files : disk = Ok(chans)
      BY <2>2
    <3>2. chans \in Seq(Channels) /\ Distinct(chans)
      BY InputsAssumption
    <3>3. disk.st = "ok" /\ disk.chans = chans /\ disk = [st |-> "ok", chans |-> chans]
      BY <3>1 DEF Ok
    <3> QED
      BY <3>2, <3>3 DEF FileType
  <2> QED
    BY <1>1, <2>1, <2>2
<1>4. WorkType
  BY <1>2 DEF WorkType, Fits
<1>5. MutexInv /\ BufferInv
  BY <1>2 DEF MutexInv, BufferInv, Holding
<1> QED
  BY <1>3, <1>4, <1>5 DEF ConfigInv

\* A goroutine's step keeps the types of all requests.
LEMMA WorkStep ==
  ASSUME WorkType, NEW w \in Workers, Alone(w), Fits(pc'[w], req'[w])
  PROVE  WorkType'
<1>1. \A v \in Workers : Fits(pc'[v], req'[v])
  BY OutdatedFits DEF WorkType, Alone
<1> QED
  BY <1>1 DEF WorkType, Alone

LEMMA ConfigStep == ConfigInv /\ [AppNext]_allVars => ConfigInv'
<1> SUFFICES ASSUME ConfigInv, [AppNext]_allVars PROVE ConfigInv'
  OBVIOUS
<1>0. FileType /\ WorkType /\ MutexInv /\ BufferInv
  BY DEF ConfigInv
<1>1. CASE UNCHANGED vars \/ RegisterAll
  <2>1. UNCHANGED <<disk, mu, pc, req, buf>>
    BY <1>1 DEF vars, fileVars, workVars, RegisterAll
  <2>2. FileType'
    BY <1>0, <2>1 DEF FileType
  <2>3. WorkType'
    BY <1>0, <2>1 DEF WorkType
  <2> QED
    BY <1>0, <2>1, <2>2, <2>3 DEF ConfigInv, MutexInv, BufferInv
<1>2. CASE Kill
  <2>1. FileType'
    <3>1. CASE disk' = disk
      BY <1>0, <3>1 DEF FileType
    <3>2. CASE disk' = Torn
      BY <3>2 DEF FileType, Torn, Distinct
    <3> QED
      BY <1>2, <3>1, <3>2 DEF Kill
  <2>2. WorkType'
    BY <1>2 DEF Kill, WorkType, Fits
  <2>3. MutexInv' /\ BufferInv'
    BY <1>2 DEF Kill, MutexInv, BufferInv, Holding
  <2> QED
    BY <2>1, <2>2, <2>3 DEF ConfigInv
<1>3. ASSUME NEW w \in Workers, Arrive(w) PROVE ConfigInv'
  <2>1. /\ Alone(w) /\ Fits(pc'[w], req'[w]) /\ pc'[w] \in {"lock", "row", "read", "page"}
        /\ UNCHANGED <<disk, mu, buf>>
    BY <1>0, <1>3, ArriveFits
  <2>2. WorkType'
    BY <1>0, <2>1, WorkStep
  <2>3. \A v \in Workers : pc'[v] \in Holding => v # w /\ pc'[v] = pc[v] /\ req'[v] = req[v]
    BY <1>0, <2>1, OutdatedFits DEF Alone, Holding
  <2>4. FileType'
    BY <1>0, <2>1 DEF FileType
  <2>5. MutexInv' /\ BufferInv'
    BY <1>0, <2>1, <2>3 DEF MutexInv, BufferInv, Holding
  <2> QED
    BY <2>2, <2>4, <2>5 DEF ConfigInv
<1>4. ASSUME NEW w \in Workers, Serve(w) PROVE ConfigInv'
  <2>1. Alone(w) /\ Fits(pc'[w], req'[w])
    BY <1>0, <1>4, ServeFits
  <2>2. WorkType'
    BY <1>0, <2>1, WorkStep
  <2>3. \A v \in Workers \ {w} : pc'[v] = pc[v] /\ buf'[v] = buf[v] /\ (pc[v] \in Holding => req'[v] = req[v])
    BY <1>0, <2>1, OutdatedFits DEF Alone, Holding
  <2>4. pc[w] \in Holding => \A v \in Workers \ {w} : pc[v] \notin Holding
    BY <1>0 DEF MutexInv
  <2>5. CASE Local(w) \/ Applies(w)
    <3>1. FileType'
      BY <1>0, <2>5 DEF FileType, Local, Applies
    <3>2. pc'[w] \notin Holding /\ UNCHANGED <<disk, mu>>
      BY <2>5 DEF Local, Applies, Holding
    <3>3. MutexInv' /\ BufferInv'
      BY <1>0, <2>3, <3>2 DEF MutexInv, BufferInv, Holding
    <3> QED
      BY <2>2, <3>1, <3>3 DEF ConfigInv
  <2>6. CASE Locks(w)
    <3>1. FileType'
      BY <1>0, <2>6 DEF FileType, Locks
    <3>2. \A v \in Workers \ {w} : pc'[v] \notin Holding
      BY <1>0, <2>3, <2>6, ConfigAssumption DEF MutexInv, Locks
    <3>3. MutexInv' /\ BufferInv'
      BY <2>6, <3>2 DEF MutexInv, BufferInv, Locks, Holding
    <3> QED
      BY <2>2, <3>1, <3>3 DEF ConfigInv
  <2>7. CASE Loads(w)
    <3>1. FileType'
      BY <1>0, <2>7 DEF FileType, Loads
    <3>2. \A v \in Workers \ {w} : pc'[v] \notin Holding
      BY <2>3, <2>4, <2>7 DEF Loads, Holding
    <3>3. mu' = w
      BY <1>0, <2>7 DEF MutexInv, Loads, Holding
    <3>4. MutexInv' /\ BufferInv'
      BY <2>7, <3>2, <3>3 DEF MutexInv, BufferInv, Loads, Holding
    <3> QED
      BY <2>2, <3>1, <3>4 DEF ConfigInv
  <2>8. CASE Fails(w) \/ Tears(w)
    <3>1. FileType'
      <4>1. CASE disk' = disk
        BY <1>0, <4>1 DEF FileType
      <4>2. CASE disk' = Torn
        BY <4>2 DEF FileType, Torn, Distinct
      <4> QED
        BY <2>8, <4>1, <4>2 DEF Fails, Tears
    <3>2. \A v \in Workers : pc'[v] \notin Holding
      BY <2>3, <2>4, <2>8 DEF Fails, Tears, Holding
    <3>3. MutexInv' /\ BufferInv'
      BY <3>2 DEF MutexInv, BufferInv, Holding
    <3> QED
      BY <2>2, <3>1, <3>3 DEF ConfigInv
  <2>9. CASE Opens(w)
    <3>1. disk' \in [st : {"ok", "torn", "missing"}, chans : Seq(Channels)] /\ disk'.chans = disk.chans /\ disk'.st = "torn"
      BY <1>0, <2>9 DEF FileType, Opens
    <3>2. FileType'
      BY <1>0, <3>1 DEF FileType
    <3>3. \A v \in Workers \ {w} : pc'[v] \notin Holding
      BY <2>3, <2>4, <2>9 DEF Opens, Holding
    <3>4. MutexInv'
      BY <1>0, <2>9, <3>1, <3>3 DEF MutexInv, Opens, Holding
    <3>5. BufferInv'
      BY <1>0, <2>9, <3>1, <3>3 DEF BufferInv, Opens, Holding
    <3> QED
      BY <2>2, <3>2, <3>4, <3>5 DEF ConfigInv
  <2>10. CASE Writes(w)
    <3>1. buf[w] = Changed(disk.chans, req[w]) /\ (req[w].kind = "delete" => req[w].id \in Ids(disk.chans))
      BY <1>0, <2>10 DEF BufferInv, Writes
    <3>2. req[w] \in SaveRequests \cup DeleteRequests
      BY <1>0, <2>10 DEF WorkType, Fits, Writes
    <3>3. buf[w] \in Seq(Channels) /\ Distinct(buf[w])
      <4>1. disk.chans \in Seq(Channels) /\ Distinct(disk.chans)
        BY <1>0 DEF FileType
      <4>2. Changed(disk.chans, req[w]) \in Seq(Channels) /\ Distinct(Changed(disk.chans, req[w]))
        BY <3>1, <3>2, <4>1, ChangedTable, Zenon
      <4> QED
        BY <3>1, <4>2
    <3>4. disk' = [st |-> "ok", chans |-> buf[w]]
      BY <2>10 DEF Writes, Ok
    <3>5. FileType'
      BY <3>3, <3>4 DEF FileType
    <3>6. \A v \in Workers : pc'[v] \notin Holding
      BY <2>3, <2>4, <2>10 DEF Writes, Holding
    <3>7. MutexInv' /\ BufferInv'
      BY <3>6 DEF MutexInv, BufferInv, Holding
    <3> QED
      BY <2>2, <3>5, <3>7 DEF ConfigInv
  <2> QED
    BY <1>0, <1>4, <2>5, <2>6, <2>7, <2>8, <2>9, <2>10, ServeKinds
<1> QED
  BY <1>1, <1>2, <1>3, <1>4, ConfigSteps

\* Whatever requests run at once, fail or are cut short by the end of the process: the
\* file is unreadable only during a write under the mutex, or after a fault.
THEOREM TornByFaultsOnly == AppSpec => []TornOnlyByFaults
<1>1. AppInit => ConfigInv /\ TornOnlyByFaults
  <2> SUFFICES ASSUME Init PROVE disk.st # "torn"
    BY ConfigInit DEF AppInit, TornOnlyByFaults
  <2>1. disk \in {Missing} \cup {Ok(chans) : chans \in Files}
    BY DEF Init
  <2> QED
    BY <2>1 DEF Missing, Ok
<1>2. ConfigInv /\ TornOnlyByFaults /\ [AppNext]_allVars => TornOnlyByFaults'
  <2> SUFFICES ASSUME ConfigInv, TornOnlyByFaults, [AppNext]_allVars, disk'.st = "torn"
               PROVE  faults' \/ \E v \in Workers : pc'[v] = "write" /\ mu' = v
    BY DEF TornOnlyByFaults
  <2>0. FileType /\ WorkType /\ MutexInv
    BY DEF ConfigInv
  <2>1. CASE UNCHANGED vars \/ RegisterAll
    BY <2>1 DEF vars, fileVars, workVars, RegisterAll, TornOnlyByFaults
  <2>2. CASE Kill
    BY <2>2 DEF Kill
  <2>3. ASSUME NEW w \in Workers, Arrive(w) PROVE faults' \/ \E v \in Workers : pc'[v] = "write" /\ mu' = v
    BY <2>0, <2>3, ArriveFits DEF Alone, TornOnlyByFaults
  <2>4. ASSUME NEW w \in Workers, Serve(w) PROVE faults' \/ \E v \in Workers : pc'[v] = "write" /\ mu' = v
    <3>1. \A v \in Workers \ {w} : pc'[v] = pc[v]
      BY <2>0, <2>4, ServeFits DEF Alone
    <3>2. CASE Local(w) \/ Applies(w)
      BY <3>1, <3>2 DEF Local, Applies, TornOnlyByFaults
    <3>3. CASE Locks(w)
      BY <3>1, <3>3, ConfigAssumption DEF Locks, TornOnlyByFaults
    <3>4. CASE Loads(w) \/ Fails(w)
      <4>1. mu = w /\ pc[w] # "write" /\ disk' = disk /\ faults' = faults
        BY <2>0, <3>4 DEF Loads, Fails, MutexInv, Holding
      <4> QED
        BY <4>1 DEF TornOnlyByFaults
    <3>5. CASE Opens(w)
      BY <2>0, <3>5 DEF Opens, MutexInv, Holding
    <3>6. CASE Writes(w) \/ Tears(w)
      BY <3>6 DEF Writes, Tears, Ok
    <3> QED
      BY <2>0, <2>4, <3>2, <3>3, <3>4, <3>5, <3>6, ServeKinds
  <2> QED
    BY <2>1, <2>2, <2>3, <2>4, ConfigSteps
<1> QED
  BY <1>1, <1>2, ConfigStep, PTL DEF AppSpec

-----------------------------------------------------------------------------
(* The file is a table of channels.                                           *)

\* The file's table, and that it is a table.
LEMMA StoreTable ==
  ASSUME FileType
  PROVE  /\ TableOf(disk.chans) \in [Ids(disk.chans) -> Channels] /\ Ids(disk.chans) \subseteq Cams
         /\ TableOf(disk.chans) # NoOne /\ StoreView = IF Held THEN TableOf(disk.chans) ELSE NoOne
<1>1. TableOf(disk.chans) \in [Ids(disk.chans) -> Channels] /\ Ids(disk.chans) \subseteq Cams
  BY TableAt DEF FileType
<1> QED
  BY <1>1, InputsAssumption DEF StoreView, Held

\* What each kind of step makes of the table: a write saves or deletes one channel, a
\* write that fails and a process that ends in one lose it.
LEMMA StoreStep == ConfigInv /\ [AppNext]_allVars => [Store!Next]_StoreView
<1> SUFFICES ASSUME ConfigInv, [AppNext]_allVars PROVE Store!Next \/ StoreView' = StoreView
  OBVIOUS
<1>0. FileType /\ WorkType /\ MutexInv /\ BufferInv /\ FileType'
  BY ConfigStep DEF ConfigInv
<1>1. StoreView = IF Held THEN TableOf(disk.chans) ELSE NoOne
  BY <1>0, StoreTable
<1>2. StoreView' = IF Held' THEN TableOf(disk'.chans) ELSE NoOne
  BY DEF StoreView, Held
<1>3. ASSUME disk' = disk, Held' <=> Held PROVE StoreView' = StoreView
  BY <1>1, <1>2, <1>3
<1>4. CASE UNCHANGED vars \/ RegisterAll
  BY <1>3, <1>4 DEF vars, fileVars, workVars, RegisterAll, Held
<1>5. CASE Kill
  <2>1. CASE disk.st = "torn"
    <3>1. ~Held'
      BY <1>5, <2>1 DEF Kill, Held, Torn
    <3> QED
      BY <1>2, <3>1 DEF Store!Next, Store!Lose
  <2>2. CASE disk.st # "torn"
    <3>1. disk' = disk /\ (Held' <=> Held)
      BY <1>0, <1>5, <2>2 DEF Kill, Held, MutexInv
    <3> QED
      BY <1>3, <3>1
  <2> QED
    BY <2>1, <2>2
<1>6. ASSUME NEW w \in Workers, Arrive(w) PROVE StoreView' = StoreView
  <2>1. Alone(w) /\ disk' = disk /\ pc[w] = "idle" /\ pc'[w] \in {"lock", "row", "read", "page"}
    BY <1>0, <1>6, ArriveFits
  <2>2. Held' <=> Held
    BY <2>1 DEF Alone, Held
  <2> QED
    BY <1>3, <2>1, <2>2
<1>7. ASSUME NEW w \in Workers, Serve(w) PROVE Store!Next \/ StoreView' = StoreView
  <2>1. \A v \in Workers \ {w} : pc'[v] = pc[v]
    BY <1>0, <1>7, ServeFits DEF Alone
  <2>2. CASE Local(w) \/ Locks(w) \/ Loads(w) \/ Fails(w) \/ Applies(w)
    <3>1. disk' = disk /\ pc[w] # "write" /\ pc'[w] # "write"
      BY <2>2 DEF Local, Locks, Loads, Fails, Applies
    <3>2. Held' <=> Held
      BY <2>1, <3>1 DEF Held
    <3> QED
      BY <1>3, <3>1, <3>2
  <2>3. CASE Opens(w)
    <3>1. disk.st = "ok" /\ pc'[w] = "write" /\ disk'.chans = disk.chans
      BY <1>0, <2>3 DEF Opens, MutexInv, FileType
    <3>2. Held /\ Held'
      BY <3>1 DEF Held
    <3> QED
      BY <1>1, <1>2, <3>1, <3>2
  <2>4. CASE Tears(w)
    <3>1. \A v \in Workers : pc'[v] # "write"
      BY <1>0, <2>1, <2>4 DEF Tears, MutexInv, Holding
    <3>2. ~Held'
      BY <2>4, <3>1 DEF Tears, Torn, Held
    <3> QED
      BY <1>2, <3>2 DEF Store!Next, Store!Lose
  <2>5. CASE Writes(w)
    <3> DEFINE r == req[w]
    <3>1. Held /\ Held'
      BY <2>5 DEF Writes, Held, Ok
    <3>2. disk'.chans = Changed(disk.chans, r) /\ (r.kind = "delete" => r.id \in Ids(disk.chans))
      BY <1>0, <2>5 DEF Writes, Ok, BufferInv
    <3>3. r \in SaveRequests \cup DeleteRequests
      BY <1>0, <2>5 DEF WorkType, Fits, Writes
    <3>4. disk.chans \in Seq(Channels) /\ Distinct(disk.chans)
      BY <1>0 DEF FileType
    <3>5. StoreView = TableOf(disk.chans) /\ StoreView' = TableOf(Changed(disk.chans, r))
      BY <1>1, <1>2, <3>1, <3>2
    <3>6. DOMAIN StoreView = Ids(disk.chans) /\ StoreView # NoOne
      BY <1>0, <3>5, StoreTable
    <3> HIDE DEF r
    <3>7. CASE r.kind = "delete"
      <4>1. /\ r.id \in Cams
            /\ TableOf(Changed(disk.chans, r)) = [id \in Ids(disk.chans) \ {r.id} |-> TableOf(disk.chans)[id]]
        BY <3>2, <3>3, <3>4, <3>7, ChangedTable
      <4>2. Store!Delete(r.id)
        BY <3>2, <3>5, <3>6, <3>7, <4>1 DEF Store!Delete
      <4> QED
        BY <4>1, <4>2 DEF Store!Next
    <3>8. CASE r.kind # "delete"
      <4>1. /\ r.rows[1].ch \in Channels
            /\ TableOf(Changed(disk.chans, r)) =
                 [id \in Ids(disk.chans) \cup {r.rows[1].ch.id} |->
                    IF id = r.rows[1].ch.id THEN r.rows[1].ch ELSE TableOf(disk.chans)[id]]
        BY <3>2, <3>3, <3>4, <3>8, ChangedTable
      <4>2. Store!Save(r.rows[1].ch)
        BY <3>5, <3>6, <4>1 DEF Store!Save
      <4> QED
        BY <4>1, <4>2 DEF Store!Next
    <3> QED
      BY <3>7, <3>8
  <2> QED
    BY <1>0, <1>7, <2>2, <2>3, <2>4, <2>5, ServeKinds
<1> QED
  BY <1>4, <1>5, <1>6, <1>7, ConfigSteps

\* The file provider, under any number of concurrent saves, deletes and imports, with
\* writes that fail and processes that end at any point, is a ChannelStore: no change
\* is lost in another one.
THEOREM FileIsAStore == AppSpec => ImplementsStore
<1>1. AppInit => Store!Init
  <2> SUFFICES ASSUME Init PROVE StoreView \in Store!Tables \cup {NoOne}
    BY DEF AppInit, Store!Init
  <2>1. FileType
    BY ConfigInit DEF ConfigInv
  <2>2. TableOf(disk.chans) \in Store!Tables
    BY <2>1, StoreTable DEF Store!Tables
  <2> QED
    BY <2>2 DEF StoreView
<1>2. AppInit => ConfigInv
  BY ConfigInit DEF AppInit
<1> QED
  BY <1>1, <1>2, ConfigStep, StoreStep, PTL DEF AppSpec, ImplementsStore, Store!Spec

\* A request that reads while others write is told that a camera does not exist only
\* when the store has none: a file in the middle of a write is an error, no empty list.
THEOREM AbsenceIsTrue == AppSpec => NoFalseAbsence
<1>1. ConfigInv /\ [AppNext]_allVars =>
        [\A w \in Workers : pc[w] = "read" /\ pc'[w] = "absent" =>
           /\ StoreView # NoOne /\ req[w].id \notin DOMAIN StoreView]_vars
  <2> SUFFICES ASSUME ConfigInv, [AppNext]_allVars, NEW w \in Workers, pc[w] = "read", pc'[w] = "absent"
               PROVE  StoreView # NoOne /\ req[w].id \notin DOMAIN StoreView
    OBVIOUS
  <2>0. FileType /\ WorkType
    BY DEF ConfigInv
  <2>1. ~(UNCHANGED vars \/ RegisterAll) /\ ~Kill
    BY DEF vars, workVars, RegisterAll, Kill
  <2>2. ASSUME NEW v \in Workers, Arrive(v) \/ Serve(v) PROVE v = w /\ Serve(w)
    BY <2>0, <2>2, ArriveFits, ServeFits DEF Alone
  <2>3. Serve(w)
    BY <2>1, <2>2, ConfigSteps
  <2>4. Read(w)
    BY <2>3 DEF Serve, NextRow, Lock, Load, Truncate, Write, Apply, ReadPage, EndRead
  <2>5. disk.st = "ok" /\ load = disk /\ req[w].id \notin Ids(load.chans)
    BY <2>0, <2>4 DEF Read, Answered, WorkType, load
  <2> QED
    BY <2>0, <2>5, StoreTable DEF Held
<1>2. AppInit => ConfigInv
  BY ConfigInit DEF AppInit
<1> QED
  BY <1>1, <1>2, ConfigStep, PTL DEF AppSpec, NoFalseAbsence

-----------------------------------------------------------------------------
(* The list in memory follows the file.                                       *)

\* A step that is taken once the cameras are registered, or registers them.
LEMMA RegisteredSteps ==
  ASSUME ServersInv, [AppNext]_allVars, Registered'
  PROVE  \/ RegisterCameras /\ servers = "none"
         \/ Registered /\ (UNCHANGED vars \/ \E w \in Workers : Arrive(w) \/ Serve(w))
<1>1. CASE UNCHANGED allVars
  BY <1>1 DEF allVars, appVars, Registered
<1>2. CASE Boot \/ Terminate \/ TakeSnapshot \/ EndSnapshot \/ EndSnapshots \/ StopServers
  BY <1>2 DEF Boot, Terminate, TakeSnapshot, EndSnapshot, EndSnapshots, StopServers, Registered, ServersInv
<1>3. CASE StartProviders \/ StartHub \/ StartRecorder \/ StartAnalytics
  BY <1>3 DEF StartProviders, StartHub, StartRecorder, StartAnalytics, Push, Abort, Registered, ServersInv
<1>4. CASE StartMetrics \/ StartServers \/ Unwind
  BY <1>4 DEF StartMetrics, StartServers, Unwind, Push, Abort, Registered, ServersInv
<1>5. CASE RegisterCameras
  BY <1>5 DEF RegisterCameras, ServersInv
<1>6. CASE Return \/ Crash
  BY <1>6 DEF Return, Crash, Down, Registered
<1>7. CASE \E w \in Workers : Request(w)
  BY <1>7 DEF Request, appVars, Registered
<1> QED
  BY <1>1, <1>2, <1>3, <1>4, <1>5, <1>6, <1>7 DEF AppNext, MainStep

\* An idle goroutine does nothing.
LEMMA IdleRests ==
  ASSUME NEW w \in Workers, Serve(w)
  PROVE  pc[w] # "idle"
  BY DEF Serve, NextRow, Lock, Load, Truncate, Write, Apply, Read, ReadPage, EndRead

LEMMA ServersStep == ServersInv /\ [AppNext]_allVars => ServersInv'
<1> SUFFICES ASSUME ServersInv, [AppNext]_allVars PROVE ServersInv'
  OBVIOUS
<1> USE DEF ServersInv
<1>1. CASE UNCHANGED allVars
  BY <1>1 DEF allVars, appVars, vars, workVars
<1>2. CASE Boot \/ Terminate \/ TakeSnapshot \/ EndSnapshot \/ EndSnapshots \/ StopServers
  BY <1>2 DEF Boot, Terminate, TakeSnapshot, EndSnapshot, EndSnapshots, StopServers, vars, workVars
<1>3. CASE StartProviders \/ StartHub \/ StartRecorder \/ StartAnalytics
  BY <1>3 DEF StartProviders, StartHub, StartRecorder, StartAnalytics, Push, Abort, vars, workVars
<1>4. CASE StartMetrics \/ StartServers \/ Unwind
  BY <1>4 DEF StartMetrics, StartServers, Unwind, Push, Abort, vars, workVars
<1>5. CASE RegisterCameras
  BY <1>5 DEF RegisterCameras, RegisterAll, workVars
<1>6. CASE Return \/ Crash
  BY <1>6 DEF Return, Crash, Down, Kill
<1>7. CASE \E w \in Workers : Request(w)
  <2>1. servers # "none"
    BY <1>7, IdleRests DEF Request
  <2> QED
    BY <1>7, <2>1 DEF Request, appVars
<1> HIDE DEF ServersInv
<1> QED
  BY <1>1, <1>2, <1>3, <1>4, <1>5, <1>6, <1>7 DEF AppNext, MainStep

\* A request changes one of its cameras after the other.
LEMMA CurrentTarget ==
  ASSUME NEW r \in SaveRequests \cup DeleteRequests
  PROVE  Current(r) \in Targets(r) /\ Current(r) \in Cams
<1>1. CASE r \in DeleteRequests
  BY <1>1 DEF DeleteRequests, Current, Targets
<1>2. CASE r \in SaveRequests
  <2>1. /\ r.rows \in Seq(AnyRow) /\ r.rows # <<>> /\ r.rows[1] \in [ch : Channels] /\ r.kind \in {"upsert", "import"}
    BY <1>2 DEF SaveRequests
  <2>2. r.rows[1] \in ToSet(r.rows) /\ "ch" \in DOMAIN r.rows[1]
    BY <2>1, EmptySeq, LenProperties DEF ToSet
  <2>3. r.rows[1].ch.id \in Cams
    BY <2>1 DEF Channels
  <2>4. Current(r) = r.rows[1].ch.id
    BY <2>1 DEF Current
  <2>5. CASE r.kind = "upsert"
    BY <2>3, <2>4, <2>5 DEF Targets
  <2>6. CASE r.kind = "import"
    BY <2>2, <2>3, <2>4, <2>6 DEF Targets
  <2> QED
    BY <2>1, <2>5, <2>6
<1> QED
  BY <1>1, <1>2

\* The rows that an import has left name no new cameras.
LEMMA TargetsLeft ==
  ASSUME NEW r \in ImportRequests, r.rows # <<>>
  PROVE  Targets([r EXCEPT !.rows = Tail(r.rows)]) \subseteq Targets(r)
<1> DEFINE rest == [r EXCEPT !.rows = Tail(r.rows)]
<1>1. r.kind = "import" /\ r.rows \in Seq(AnyRow) /\ rest.kind = "import" /\ rest.rows = Tail(r.rows)
  BY DEF ImportRequests
<1>2. ToSet(Tail(r.rows)) \subseteq ToSet(r.rows)
  <2>1. /\ Tail(r.rows) \in Seq(AnyRow) /\ Len(Tail(r.rows)) = Len(r.rows) - 1
        /\ \A i \in 1 .. Len(Tail(r.rows)) : Tail(r.rows)[i] = r.rows[i + 1]
    BY <1>1, HeadTailProperties
  <2>2. DOMAIN Tail(r.rows) = 1 .. Len(Tail(r.rows)) /\ DOMAIN r.rows = 1 .. Len(r.rows) /\ Len(r.rows) \in Nat
    BY <1>1, <2>1, LenProperties
  <2> QED
    BY <2>1, <2>2 DEF ToSet
<1> HIDE DEF rest
<1>3. /\ Targets(rest) = {row.ch.id : row \in {x \in ToSet(Tail(r.rows)) : "ch" \in DOMAIN x}}
      /\ Targets(r) = {row.ch.id : row \in {x \in ToSet(r.rows) : "ch" \in DOMAIN x}}
  BY <1>1 DEF Targets
<1> QED
  BY <1>2, <1>3 DEF rest

\* No step of a request makes it change other cameras than it announced.
LEMMA TargetsShrink ==
  ASSUME FileType, WorkType, NEW w \in Workers, Serve(w), NEW v \in Writers'
  PROVE  v \in Writers /\ Targets(req'[v]) \subseteq Targets(req[v])
<1>0. v \in Workers /\ pc'[v] \in {"row", "lock", "load", "truncate", "write", "apply"} /\ Fits(pc[v], req[v]) /\ Fits(pc[w], req[w])
  BY DEF Writers, WorkType
<1>1. CASE v # w
  <2>1. pc'[v] = pc[v] /\ (req'[v] = req[v] \/ req'[v] = Outdated[v])
    BY <1>0, <1>1, ServeFits DEF Alone
  <2>2. req'[v] = req[v]
    BY <1>0, <2>1, OutdatedFits
  <2> QED
    BY <1>0, <2>1, <2>2 DEF Writers
<1>2. CASE v = w
  <2>1. v \in Writers
    <3>1. pc[w] \in {"row", "lock", "load", "truncate", "write", "apply"}
      BY <1>0, <1>2, ServeKinds DEF Local, Locks, Loads, Fails, Opens, Writes, Tears, Applies
    <3> QED
      BY <1>0, <1>2, <3>1 DEF Writers
  <2>2. req'[w] = req[w] \/ /\ req[w] \in ImportRequests /\ req[w].rows # <<>>
                            /\ req'[w] = [req[w] EXCEPT !.rows = Tail(req[w].rows)]
    <3>1. CASE NextRow(w)
      <4>1. req[w] \in ImportRequests
        BY <1>0, <3>1 DEF NextRow, Fits, Changing
      <4>2. ~Answered(w, 200) /\ ~Answered(w, 500)
        BY <1>0, <1>2 DEF Answered, WorkType
      <4> QED
        BY <3>1, <4>1, <4>2 DEF NextRow, WorkType
    <3>2. CASE Apply(w)
      <4>1. req[w] \in SaveRequests \cup DeleteRequests
        BY <1>0, <3>2 DEF Apply, Fits
      <4>2. req[w].kind = "import"
        BY <1>0, <1>2, <3>2 DEF Apply, Answered, WorkType
      <4>3. req[w] \in ImportRequests /\ req[w].rows # <<>>
        BY <4>1, <4>2 DEF SaveRequests, DeleteRequests, ImportRequests
      <4> QED
        BY <3>2, <4>2, <4>3 DEF Apply, WorkType
    <3>3. CASE ~NextRow(w) /\ ~Apply(w)
      <4>1. pc[w] \notin {"row", "apply"}
        BY <3>3 DEF Serve, NextRow, Apply, Lock, Load, Truncate, Write, Read, ReadPage, EndRead
      <4>2. Locks(w) \/ Loads(w) \/ Opens(w) \/ Writes(w)
        BY <1>0, <1>2, <4>1, ServeKinds DEF Local, Fails, Tears, Applies
      <4> QED
        BY <4>2 DEF Locks, Loads, Opens, Writes
    <3> QED
      BY <3>1, <3>2, <3>3
  <2> QED
    BY <1>2, <2>1, <2>2, TargetsLeft
<1> QED
  BY <1>1, <1>2

LEMMA RaceStep == ConfigInv /\ RaceInv /\ [AppNext]_allVars => RaceInv'
<1> SUFFICES ASSUME ConfigInv, RaceInv, [AppNext]_allVars,
                    NEW u \in Writers', NEW v \in Writers', u # v, NEW id \in Targets(req'[u]), id \in Targets(req'[v])
             PROVE  id \in raced'
  BY DEF RaceInv
<1>0. FileType /\ WorkType /\ u \in Workers /\ v \in Workers
  BY DEF ConfigInv, Writers
<1>1. CASE UNCHANGED vars \/ RegisterAll
  <2>1. UNCHANGED <<pc, req, raced>>
    BY <1>1 DEF vars, workVars, RegisterAll
  <2> QED
    BY <2>1 DEF RaceInv, Writers
<1>2. CASE Kill
  BY <1>0, <1>2 DEF Kill, Writers
<1>3. ASSUME NEW w \in Workers, Arrive(w) PROVE id \in raced'
  <2>1. /\ Alone(w) /\ Fits(pc'[w], req'[w]) /\ raced' = raced \cup {x \in Targets(req'[w]) : InFlight(x)}
    BY <1>0, <1>3, ArriveFits
  <2>2. \A x \in Writers' \ {w} : x \in Writers /\ req'[x] = req[x]
    BY <1>0, <2>1, OutdatedFits DEF Alone, Writers
  <2>3. CASE u = w
    BY <2>1, <2>2, <2>3 DEF InFlight
  <2>4. CASE v = w
    BY <2>1, <2>2, <2>4 DEF InFlight
  <2>5. CASE u # w /\ v # w
    BY <2>1, <2>2, <2>5 DEF RaceInv
  <2> QED
    BY <2>3, <2>4, <2>5
<1>4. ASSUME NEW w \in Workers, Serve(w) PROVE id \in raced'
  <2>1. raced' = raced
    BY <1>0, <1>4, ServeKinds
  <2>2. u \in Writers /\ v \in Writers /\ id \in Targets(req[u]) /\ id \in Targets(req[v])
    BY <1>0, <1>4, TargetsShrink
  <2> QED
    BY <2>1, <2>2 DEF RaceInv
<1> QED
  BY <1>1, <1>2, <1>3, <1>4, ConfigSteps

\* Two requests that change one camera at once are noted.
LEMMA AloneAtCamera ==
  ASSUME WorkType, RaceInv, NEW v \in Workers, NEW w \in Workers, v # w,
         pc[v] \in {"write", "apply"}, pc[w] \in {"write", "apply"}, Current(req[v]) = Current(req[w])
  PROVE  Current(req[w]) \in raced
<1>1. /\ req[v] \in SaveRequests \cup DeleteRequests /\ req[w] \in SaveRequests \cup DeleteRequests
      /\ v \in Writers /\ w \in Writers
  BY DEF WorkType, Fits, Writers
<1>2. Current(req[v]) \in Targets(req[v]) /\ Current(req[w]) \in Targets(req[w])
  BY <1>1, CurrentTarget
<1> QED
  BY <1>1, <1>2 DEF RaceInv

\* What a write leaves of the camera it is about, and of the others.
LEMMA WrittenCamera ==
  ASSUME ConfigInv, NEW w \in Workers, Writes(w)
  PROVE  /\ Made(disk'.chans, req[w])
         /\ \A id : id # Current(req[w]) =>
              /\ id \in Ids(disk'.chans) <=> id \in Ids(disk.chans)
              /\ id \in Ids(disk.chans) => TableOf(disk'.chans)[id] = TableOf(disk.chans)[id]
<1> DEFINE r == req[w]
<1>1. disk'.chans = Changed(disk.chans, r) /\ (r.kind = "delete" => r.id \in Ids(disk.chans))
  BY DEF ConfigInv, Writes, Ok, BufferInv
<1>2. r \in SaveRequests \cup DeleteRequests
  BY DEF ConfigInv, WorkType, Fits, Writes
<1>3. disk.chans \in Seq(Channels) /\ Distinct(disk.chans)
  BY DEF ConfigInv, FileType
<1> HIDE DEF r
<1>4. CASE r.kind = "delete"
  <2>1. /\ Ids(Changed(disk.chans, r)) = Ids(disk.chans) \ {r.id}
        /\ TableOf(Changed(disk.chans, r)) = [id \in Ids(disk.chans) \ {r.id} |-> TableOf(disk.chans)[id]]
    BY <1>1, <1>2, <1>3, <1>4, ChangedTable
  <2> QED
    BY <1>1, <1>4, <2>1 DEF Made, Current, r
<1>5. CASE r.kind # "delete"
  <2>1. /\ Ids(Changed(disk.chans, r)) = Ids(disk.chans) \cup {r.rows[1].ch.id}
        /\ TableOf(Changed(disk.chans, r)) = [id \in Ids(disk.chans) \cup {r.rows[1].ch.id} |->
                                               IF id = r.rows[1].ch.id THEN r.rows[1].ch ELSE TableOf(disk.chans)[id]]
    BY <1>1, <1>2, <1>3, <1>5, ChangedTable
  <2> QED
    BY <1>1, <1>5, <2>1 DEF Made, Current, r
<1> QED
  BY <1>4, <1>5

\* Content that is lost does not come back while the process runs.
LEMMA HeldBefore ==
  ASSUME ConfigInv, NEW w \in Workers, Serve(w), Held'
  PROVE  Held /\ (~Writes(w) => disk'.chans = disk.chans)
<1>0. FileType /\ WorkType /\ MutexInv
  BY DEF ConfigInv
<1>1. \A v \in Workers \ {w} : pc'[v] = pc[v]
  BY <1>0, ServeFits DEF Alone
<1>2. CASE Local(w) \/ Locks(w) \/ Loads(w) \/ Fails(w) \/ Applies(w)
  <2>1. disk' = disk /\ pc'[w] # "write"
    BY <1>2 DEF Local, Locks, Loads, Fails, Applies
  <2> QED
    BY <1>1, <2>1 DEF Held
<1>3. CASE Opens(w)
  BY <1>0, <1>3 DEF Opens, MutexInv, Held, FileType
<1>4. CASE Writes(w)
  BY <1>4 DEF Writes, Held
<1>5. ~Tears(w)
  <2> SUFFICES ASSUME Tears(w) PROVE FALSE
    OBVIOUS
  <2>1. \A v \in Workers : pc'[v] # "write"
    BY <1>0, <1>1 DEF Tears, MutexInv, Holding
  <2> QED
    BY <2>1 DEF Tears, Torn, Held
<1> QED
  BY <1>0, <1>2, <1>3, <1>4, <1>5, ServeKinds

LEMMA ListStep ==
  ConfigInv /\ ServersInv /\ RaceInv /\ ListInv /\ [AppNext]_allVars => ListInv'
<1> SUFFICES ASSUME ConfigInv, ServersInv, RaceInv, ListInv, [AppNext]_allVars, Registered', Held',
                    NEW id \in Cams \ raced'
             PROVE  /\ \A v \in Workers : pc'[v] = "apply" /\ Current(req'[v]) = id => Made(disk'.chans, req'[v])
                    /\ (\A v \in Workers : pc'[v] = "apply" => Current(req'[v]) # id) => Agrees(cameras', disk'.chans, id)
  BY DEF ListInv
<1> DEFINE Goal == /\ \A v \in Workers : pc'[v] = "apply" /\ Current(req'[v]) = id => Made(disk'.chans, req'[v])
                   /\ (\A v \in Workers : pc'[v] = "apply" => Current(req'[v]) # id) => Agrees(cameras', disk'.chans, id)
<1>0. FileType /\ WorkType /\ MutexInv
  BY DEF ConfigInv
<1>1. ASSUME Registered, Held, id \notin raced
      PROVE  /\ \A v \in Workers : pc[v] = "apply" /\ Current(req[v]) = id => Made(disk.chans, req[v])
             /\ (\A v \in Workers : pc[v] = "apply" => Current(req[v]) # id) => Agrees(cameras, disk.chans, id)
  BY <1>1 DEF ListInv
<1>2. CASE RegisterCameras /\ servers = "none"
  <2>1. UNCHANGED <<disk, pc, req>> /\ \A v \in Workers : pc[v] = "idle"
    BY <1>2 DEF RegisterCameras, RegisterAll, workVars, fileVars, ServersInv
  <2>2. disk.st = "ok" /\ load = disk
    BY <2>1 DEF Held, load
  <2>3. cameras' = [x \in Ids(disk.chans) |-> TableOf(disk.chans)[x].name]
    BY <1>2, <2>2 DEF RegisterCameras, RegisterAll
  <2> QED
    BY <2>1, <2>3 DEF Agrees
<1>3. CASE Registered /\ UNCHANGED vars
  <2>1. UNCHANGED <<disk, pc, req, cameras, raced>>
    BY <1>3 DEF vars, workVars, fileVars
  <2>2. Held
    BY <2>1 DEF Held
  <2> QED
    BY <1>1, <1>3, <2>1, <2>2
<1>4. ASSUME NEW w \in Workers, Registered, Arrive(w) PROVE Goal
  <2>1. /\ Alone(w) /\ UNCHANGED <<disk, cameras>> /\ pc[w] = "idle" /\ pc'[w] \in {"lock", "row", "read", "page"} /\ raced \subseteq raced'
    BY <1>0, <1>4, ArriveFits
  <2>2. Held
    BY <2>1 DEF Held, Alone
  <2>3. \A v \in Workers : pc'[v] = "apply" <=> pc[v] = "apply"
    BY <2>1 DEF Alone
  <2>4. \A v \in Workers : pc[v] = "apply" => req'[v] = req[v]
    BY <1>0, <2>1, OutdatedFits DEF Alone
  <2> QED
    BY <1>1, <1>4, <2>1, <2>2, <2>3, <2>4
<1>5. ASSUME NEW w \in Workers, Registered, Serve(w) PROVE Goal
  <2>1. Held /\ (~Writes(w) => disk'.chans = disk.chans) /\ raced' = raced
    BY <1>0, <1>5, HeldBefore, ServeKinds
  <2>2. /\ \A v \in Workers : pc[v] = "apply" /\ Current(req[v]) = id => Made(disk.chans, req[v])
        /\ (\A v \in Workers : pc[v] = "apply" => Current(req[v]) # id) => Agrees(cameras, disk.chans, id)
    BY <1>1, <1>5, <2>1
  <2>3. \A v \in Workers \ {w} : pc'[v] = pc[v] /\ (pc[v] = "apply" => req'[v] = req[v])
    BY <1>0, <1>5, ServeFits, OutdatedFits DEF Alone
  <2>4. CASE Local(w) \/ Locks(w) \/ Loads(w) \/ Fails(w) \/ Opens(w) \/ Tears(w)
    <3>1. pc[w] # "apply" /\ pc'[w] # "apply" /\ cameras' = cameras /\ ~Writes(w)
      BY <2>4 DEF Local, Locks, Loads, Fails, Opens, Tears, Writes
    <3> QED
      BY <2>1, <2>2, <2>3, <3>1
  <2>5. CASE Writes(w)
    <3>0. pc[w] = "write" /\ pc'[w] = "apply" /\ req'[w] = req[w] /\ cameras' = cameras
      BY <2>5 DEF Writes
    <3>1. /\ Made(disk'.chans, req[w])
          /\ \A x : x # Current(req[w]) =>
               /\ x \in Ids(disk'.chans) <=> x \in Ids(disk.chans)
               /\ x \in Ids(disk.chans) => TableOf(disk'.chans)[x] = TableOf(disk.chans)[x]
      BY <2>5, WrittenCamera
    <3>2. CASE id = Current(req[w])
      <4>1. \A v \in Workers \ {w} : pc[v] = "apply" => Current(req[v]) # id
        BY <1>0, <2>1, <3>0, <3>2, AloneAtCamera
      <4> QED
        BY <2>3, <3>0, <3>1, <3>2, <4>1
    <3>3. CASE id # Current(req[w])
      <4>1. \A v \in Workers : pc[v] = "apply" /\ Current(req[v]) = id => Made(disk'.chans, req[v])
        BY <2>2, <3>1, <3>3 DEF Made, Current
      <4>2. Agrees(cameras, disk.chans, id) => Agrees(cameras', disk'.chans, id)
        BY <3>0, <3>1, <3>3 DEF Agrees
      <4> QED
        BY <2>2, <2>3, <3>0, <3>3, <4>1, <4>2
    <3> QED
      BY <3>2, <3>3
  <2>6. CASE Applies(w)
    <3>0. pc[w] = "apply" /\ pc'[w] # "apply" /\ disk' = disk
      BY <2>6 DEF Applies
    <3>1. CASE id = Current(req[w])
      <4>1. \A v \in Workers \ {w} : pc[v] = "apply" => Current(req[v]) # id
        BY <1>0, <2>1, <3>0, <3>1, AloneAtCamera
      <4>2. Made(disk.chans, req[w])
        BY <2>2, <3>0, <3>1
      <4>3. Agrees(cameras', disk'.chans, id)
        BY <2>6, <3>0, <3>1, <4>2 DEF Applies, Agrees, Made, Current
      <4> QED
        BY <2>3, <3>0, <4>1, <4>3
    <3>2. CASE id # Current(req[w])
      <4>1. Agrees(cameras, disk.chans, id) => Agrees(cameras', disk'.chans, id)
        BY <2>6, <3>0, <3>2 DEF Applies, Agrees, Current
      <4> QED
        BY <2>2, <2>3, <3>0, <3>2, <4>1
    <3> QED
      BY <3>1, <3>2
  <2> QED
    BY <1>0, <1>5, <2>4, <2>5, <2>6, ServeKinds
<1> QED
  BY <1>2, <1>3, <1>4, <1>5, RegisteredSteps

\* From the first request after a start on, and whatever requests run at once, a camera
\* that no request is changing and that no two requests changed at once is listed in
\* memory if and only if the file has it, under the same name.
THEOREM ListFollowsFile == AppSpec => []ListedAsStored
<1>1. AppInit => ConfigInv /\ ServersInv /\ RaceInv /\ ListInv
  <2> SUFFICES ASSUME AppInit PROVE ServersInv /\ RaceInv /\ ListInv
    BY ConfigInit DEF AppInit
  <2>1. stage = "down" /\ servers = "none" /\ \A w \in Workers : pc[w] = "idle"
    BY DEF AppInit, Init
  <2> QED
    BY <2>1 DEF ServersInv, RaceInv, Writers, ListInv, Registered
<1>2. ConfigInv /\ ListInv => ListedAsStored
  <2> SUFFICES ASSUME ConfigInv, ListInv, servers # "none", disk.st = "ok", NEW id \in Cams \ raced, ~InFlight(id)
               PROVE  Agrees(cameras, disk.chans, id)
    BY DEF ListedAsStored, RegistryMatches, Agrees
  <2>1. Registered /\ Held
    BY DEF Registered, Held
  <2>2. ASSUME NEW w \in Workers, pc[w] = "apply" PROVE Current(req[w]) # id
    <3>1. w \in Writers /\ req[w] \in SaveRequests \cup DeleteRequests
      BY <2>2 DEF ConfigInv, WorkType, Fits, Writers
    <3> QED
      BY <3>1, CurrentTarget DEF InFlight
  <2> QED
    BY <2>1, <2>2 DEF ListInv
<1> QED
  BY <1>1, <1>2, ConfigStep, ServersStep, RaceStep, ListStep, PTL DEF AppSpec
-----------------------------------------------------------------------------
(* The pages that a client reads.                                             *)

\* The next page continues the ones before it.
LEMMA NextPage ==
  ASSUME NEW all \in Seq(Channels), NEW offset \in Nat, NEW items,
         items = SubSeq(all, 1, IF offset < Len(all) THEN offset ELSE Len(all))
  PROVE  items \o Page(all, offset) =
           SubSeq(all, 1, IF offset + Limit < Len(all) THEN offset + Limit ELSE Len(all))
<1> DEFINE from == IF offset < Len(all) THEN offset ELSE Len(all)
           to == IF offset + Limit < Len(all) THEN offset + Limit ELSE Len(all)
<1>1. Len(all) \in Nat
  BY LenProperties
<1>2. from \in 0 .. Len(all) /\ to \in from .. Len(all)
  BY <1>1, ConfigAssumption
<1>3. Page(all, offset) = SubSeq(all, from + 1, to) /\ items = SubSeq(all, 1, from)
  BY PageType
<1> HIDE DEF from, to
<1>4. 1 \in 1 .. Len(all) + 1 /\ from \in 1 - 1 .. Len(all)
  BY <1>1, <1>2
<1>5. SubSeq(all, 1, from) \o SubSeq(all, from + 1, to) = SubSeq(all, 1, to)
  BY <1>2, <1>4, ConcatAdjacentSubSeq
<1> QED
  BY <1>3, <1>5 DEF to

LEMMA PageStep == ConfigInv /\ PageInv /\ [AppNext]_allVars => PageInv'
<1> DEFINE From(o, n) == IF o < n THEN o ELSE n
<1> SUFFICES ASSUME ConfigInv, PageInv, [AppNext]_allVars, Held', NEW v \in Workers,
                    pc'[v] \in {"page", "listed"}, ~req'[v].outdated
             PROVE  /\ req'[v].items = SubSeq(disk'.chans, 1, From(req'[v].offset, Len(disk'.chans)))
                    /\ pc'[v] = "listed" => req'[v].offset >= Len(disk'.chans)
  BY DEF PageInv
<1> DEFINE Goal == /\ req'[v].items = SubSeq(disk'.chans, 1, From(req'[v].offset, Len(disk'.chans)))
                   /\ pc'[v] = "listed" => req'[v].offset >= Len(disk'.chans)
<1>0. FileType /\ WorkType /\ disk.chans \in Seq(Channels) /\ Len(disk.chans) \in Nat
  BY LenProperties DEF ConfigInv, FileType
<1>1. ASSUME Held, disk'.chans = disk.chans, pc'[v] = pc[v], req'[v] = req[v] PROVE Goal
  BY <1>1 DEF PageInv
<1>2. CASE UNCHANGED vars \/ RegisterAll
  <2>1. UNCHANGED <<disk, pc, req>>
    BY <1>2 DEF vars, workVars, fileVars, RegisterAll
  <2>2. Held
    BY <2>1 DEF Held
  <2> QED
    BY <1>1, <2>1, <2>2
<1>3. ~Kill
  BY DEF Kill
<1>4. ASSUME NEW w \in Workers, w # v, Alone(w)
      PROVE  pc'[v] = pc[v] /\ req'[v] = req[v]
  <2>1. pc'[v] = pc[v] /\ (req'[v] = req[v] \/ req'[v] = [req[v] EXCEPT !.outdated = TRUE])
    BY <1>0, <1>4, OutdatedFits DEF Alone
  <2>2. req[v] \in ListRequests
    BY <1>0, <2>1 DEF WorkType, Fits, Changing
  <2> QED
    BY <2>1, <2>2 DEF ListRequests
<1>5. ASSUME NEW w \in Workers, Arrive(w) PROVE Goal
  <2>1. /\ Alone(w) /\ disk' = disk /\ pc[w] = "idle" /\ pc'[w] \in {"lock", "row", "read", "page"}
        /\ pc'[w] = "page" => req'[w].offset = 0 /\ req'[w].items = <<>>
    BY <1>0, <1>5, ArriveFits
  <2>2. Held
    BY <2>1 DEF Held, Alone
  <2>3. CASE v # w
    BY <1>1, <1>4, <2>1, <2>2, <2>3
  <2>4. CASE v = w
    <3>1. pc'[v] = "page" /\ req'[v].offset = 0 /\ req'[v].items = <<>> /\ disk' = disk
      BY <2>1, <2>4
    <3>2. From(0, Len(disk.chans)) = 0
      BY <1>0
    <3>3. SubSeq(disk.chans, 1, 0) = <<>>
      BY SubSeqEmpty
    <3> QED
      BY <3>1, <3>2, <3>3
  <2> QED
    BY <2>3, <2>4
<1>6. ASSUME NEW w \in Workers, Serve(w) PROVE Goal
  <2>1. Alone(w) /\ Held /\ (~Writes(w) => disk'.chans = disk.chans)
    BY <1>0, <1>6, ServeFits, HeldBefore
  <2>2. ~Writes(w)
    <3> SUFFICES ASSUME Writes(w) PROVE FALSE
      OBVIOUS
    <3>1. v # w /\ req' = Outdated
      BY DEF Writes
    <3>2. pc[v] \in {"page", "listed"}
      BY <2>1, <3>1 DEF Alone
    <3>3. req'[v] = [req[v] EXCEPT !.outdated = TRUE]
      BY <1>0, <3>1, <3>2, OutdatedFits
    <3>4. req[v] \in ListRequests
      BY <1>0, <3>2 DEF WorkType, Fits, Changing
    <3> QED
      BY <3>3, <3>4 DEF ListRequests
  <2>3. CASE v # w
    BY <1>1, <1>4, <2>1, <2>2, <2>3
  <2>4. CASE v = w
    <3>1. ReadPage(v) /\ ~Answered(v, 500)
      <4>1. ~Answered(v, 500) /\ ~Answered(v, 200) /\ ~Answered(v, 404)
        BY <1>0 DEF Answered, WorkType
      <4> QED
        <5>1. ~NextRow(v) /\ ~Apply(v)
          BY <1>0, <4>1 DEF NextRow, Apply, WorkType
        <5>2. ~Lock(v) /\ ~Load(v)
          BY <1>0, <4>1 DEF Lock, Load, WorkType
        <5>3. ~Truncate(v) /\ ~Write(v)
          BY <1>0, <4>1 DEF Truncate, Write, WorkType
        <5>4. ~Read(v) /\ ~EndRead(v)
          BY <1>0, <4>1 DEF Read, EndRead, WorkType
        <5> QED
          BY <1>6, <2>4, <4>1, <5>1, <5>2, <5>3, <5>4 DEF Serve
    <3>2. load = disk /\ pc[v] = "page" /\ req[v] \in ListRequests
      BY <1>0, <3>1 DEF ReadPage, load, WorkType, Fits, Changing
    <3>3. /\ req'[v] = [req[v] EXCEPT !.items = req[v].items \o Page(disk.chans, req[v].offset), !.offset = req[v].offset + Limit]
          /\ pc'[v] = IF req[v].offset + Limit < Len(disk.chans) THEN "page" ELSE "listed"
      BY <1>0, <3>1, <3>2 DEF ReadPage, WorkType
    <3>4. /\ req'[v].items = req[v].items \o Page(disk.chans, req[v].offset)
          /\ req'[v].offset = req[v].offset + Limit /\ req'[v].outdated = req[v].outdated
      BY <3>2, <3>3 DEF ListRequests
    <3>5. req[v].items = SubSeq(disk.chans, 1, From(req[v].offset, Len(disk.chans)))
      BY <2>1, <3>2, <3>4 DEF PageInv
    <3>6. req[v].offset \in Nat /\ Limit \in Nat
      BY <3>2, ConfigAssumption DEF ListRequests
    <3>7. req'[v].items = SubSeq(disk.chans, 1, From(req'[v].offset, Len(disk.chans)))
      BY <1>0, <3>4, <3>5, <3>6, NextPage
    <3>8. pc'[v] = "listed" => req'[v].offset >= Len(disk.chans)
      BY <1>0, <3>3, <3>4, <3>6
    <3> QED
      BY <2>1, <2>2, <3>7, <3>8
  <2> QED
    BY <2>3, <2>4
<1> QED
  BY <1>2, <1>3, <1>5, <1>6, ConfigSteps

\* However long the list and whatever the page size, a client that reads all pages of a
\* file that nobody changed meanwhile has each camera of it, once.
THEOREM PagesAreComplete == AppSpec => []PagesCover
<1>1. AppInit => ConfigInv /\ PageInv
  <2> SUFFICES ASSUME Init PROVE PageInv
    BY ConfigInit DEF AppInit
  <2>1. \A w \in Workers : pc[w] = "idle"
    BY DEF Init
  <2> QED
    BY <2>1 DEF PageInv
<1>2. ConfigInv /\ PageInv => PagesCover
  <2> SUFFICES ASSUME ConfigInv, PageInv, NEW w \in Workers, pc[w] = "listed", ~req[w].outdated, disk.st = "ok"
               PROVE  /\ ToSet(req[w].items) = ToSet(disk.chans)
                      /\ \A i, j \in DOMAIN req[w].items : req[w].items[i].id = req[w].items[j].id => i = j
    BY DEF PagesCover
  <2>1. disk.chans \in Seq(Channels) /\ Distinct(disk.chans) /\ Len(disk.chans) \in Nat /\ req[w].offset \in Nat
    BY LenProperties DEF ConfigInv, FileType, WorkType, Fits, Changing, ListRequests
  <2>2. Held
    BY DEF Held
  <2>3. req[w].offset >= Len(disk.chans)
        /\ req[w].items = SubSeq(disk.chans, 1, IF req[w].offset < Len(disk.chans) THEN req[w].offset ELSE Len(disk.chans))
    BY <2>2 DEF PageInv
  <2>4. req[w].items = SubSeq(disk.chans, 1, Len(disk.chans))
    BY <2>1, <2>3
  <2>5. req[w].items = disk.chans
    BY <2>1, <2>4, SubSeqFull
  <2> QED
    BY <2>1, <2>5 DEF Distinct
<1> QED
  BY <1>1, <1>2, ConfigStep, PageStep, PTL DEF AppSpec
=============================================================================
