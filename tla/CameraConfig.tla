---------------------------- MODULE CameraConfig ----------------------------
(***************************************************************************)
(* The configuration of the cameras: the JSON file of the channel provider *)
(* (pkg/channel/file.go), the in-memory list of the view service           *)
(* (pkg/edgeview/stream.go) and the HTTP requests that change or read them *)
(* (pkg/edgeview/http_cameras.go), which run on goroutines of their own.   *)
(* A save or delete rewrites the file under the provider's mutex; the      *)
(* memory is brought up to date later, outside it.  Readers take no lock.  *)
(*                                                                         *)
(* A file that is being written, or whose writer was cut short, does not   *)
(* parse (os.WriteFile truncates first).                                   *)
(***************************************************************************)
EXTENDS Integers, Sequences, FiniteSets, SequencesExt

CONSTANTS
  Cams,          \* camera ids
  Workers,       \* goroutines that serve requests
  NoOne,         \* no goroutine
  Names,         \* camera names, the part of a channel that is told apart
  Files,         \* channels an earlier process may have left
  Imports,       \* CSV bodies: sequences of rows, see Row
  Limit,         \* page size
  MaxRequests    \* bound: requests, over all lives of the process

ASSUME ConfigAssumption == NoOne \notin Workers /\ Limit \in Nat \ {0} /\ MaxRequests \in Nat

VARIABLES
  disk,      \* the file: [st |-> missing, torn or ok, chans |-> channels in file order]
  mu,        \* holder of fileProvider.mu
  cameras,   \* the view service's list: id -> name
  pc,        \* where each worker is
  req,       \* its request
  buf,       \* the channels it loaded, then what it will write
  requests,  \* how many there were
  \* observations
  faults,    \* a write failed or was cut short
  raced      \* cameras that two requests changed at once

fileVars == <<disk, mu, faults>>
workVars == <<pc, req, buf, requests, raced>>
vars == <<fileVars, cameras, workVars>>

Channels == [id : Cams, name : Names, site : {1, 2}]
\* A row of a CSV body: a channel, one without id or URL, or one that is not CSV.
Row == [ch : [id : Cams, name : Names, site : {1}]] \cup {[skip |-> TRUE], [bad |-> TRUE]}

\* No camera is twice in a list of channels.
Distinct(chans) == \A i, j \in DOMAIN chans : chans[i].id = chans[j].id => i = j

\* A file was left by saves and deletes as they are below.
ASSUME InputsAssumption ==
  /\ Files \subseteq Seq(Channels) /\ \A chans \in Files : Distinct(chans)
  /\ Imports \subseteq Seq(Row)
  /\ \A ids \in SUBSET Cams : NoOne \notin [ids -> Channels]

None == [kind |-> "none"]
Ok(chans) == [st |-> "ok", chans |-> chans]
Torn == [st |-> "torn", chans |-> <<>>]
Missing == [st |-> "missing", chans |-> <<>>]

\* bootstrapSeedFiles creates the file, empty, along with a new configuration; beside
\* an older configuration it may be missing.
Init ==
  /\ disk \in {Missing} \cup {Ok(chans) : chans \in Files}
  /\ mu = NoOne /\ faults = FALSE
  /\ cameras = <<>>
  /\ pc = [w \in Workers |-> "idle"] /\ req = [w \in Workers |-> None]
  /\ buf = [w \in Workers |-> <<>>]
  /\ requests = 0 /\ raced = {}
-----------------------------------------------------------------------------
(* The provider's file. *)

Ids(chans) == {ch.id : ch \in ToSet(chans)}
TableOf(chans) == [id \in Ids(chans) |-> CHOOSE ch \in ToSet(chans) : ch.id = id]

\* A load that takes an empty file for an empty list.
load_Lenient == IF disk.st \in {"ok", "torn"} THEN disk ELSE [st |-> "error", chans |-> <<>>]
\* load: a missing file is an error as any other, its cause wrapped.
load == IF disk.st = "ok" THEN disk ELSE [st |-> "error", chans |-> <<>>]

\* A save that appends a second entry, and one that drops what the other channels
\* have beyond their main fields.
Saved_Appends(chans, ch) == Append(chans, ch)
Saved_Strips(chans, ch) ==
  LET stripped == [i \in DOMAIN chans |-> IF chans[i].id = ch.id THEN ch ELSE [chans[i] EXCEPT !.site = 1]]
  IN IF ch.id \in Ids(chans) THEN stripped ELSE Append(stripped, ch)
\* The entry at which SaveChannel's and DeleteChannel's search breaks off.
Position(chans, id) ==
  CHOOSE i \in DOMAIN chans : chans[i].id = id /\ \A j \in 1 .. i - 1 : chans[j].id # id
\* SaveChannel's replace or append, DeleteChannel's removal.
Saved(chans, ch) ==
  IF ch.id \in Ids(chans) THEN ReplaceAt(chans, Position(chans, ch.id), ch) ELSE Append(chans, ch)
Deleted(chans, id) == RemoveAt(chans, Position(chans, id))
-----------------------------------------------------------------------------
(* Requests. *)

Writers == {w \in Workers : pc[w] \in {"row", "lock", "load", "truncate", "write", "apply"}}
\* Cameras that a request is about to change.
Targets(r) ==
  CASE r.kind = "upsert" -> {r.rows[1].ch.id}
    [] r.kind = "import" -> {row.ch.id : row \in {x \in ToSet(r.rows) : "ch" \in DOMAIN x}}
    [] r.kind = "delete" -> {r.id}
    [] OTHER -> {}
InFlight(id) == \E w \in Writers : id \in Targets(req[w])

Begin(w, r, at) ==
  /\ pc[w] = "idle" /\ requests < MaxRequests
  /\ requests' = requests + 1
  /\ req' = [req EXCEPT ![w] = r]
  /\ pc' = [pc EXCEPT ![w] = at]
  /\ raced' = raced \cup {id \in Targets(r) : InFlight(id)}
  /\ UNCHANGED <<fileVars, cameras, buf>>

\* PUT /api/cameras/{id} with a URL.
Upsert(w, id, name) ==
  Begin(w, [kind |-> "upsert", rows |-> <<[ch |-> [id |-> id, name |-> name, site |-> 2]]>>], "lock")

Delete(w, id) == Begin(w, [kind |-> "delete", id |-> id], "lock")

\* POST /api/cameras/import.csv: recordToChannel puts every camera at site 1.
Import(w, rows) == Begin(w, [kind |-> "import", rows |-> rows], "row")

Get(w, id) == Begin(w, [kind |-> "get", id |-> id], "read")

\* GET /api/cameras/config, one page after the other.
List(w) == Begin(w, [kind |-> "list", offset |-> 0, items |-> <<>>, outdated |-> FALSE], "page")

\* The request is answered, with this status, and the goroutine is done.
Answered(w, status) ==
  /\ pc' = [pc EXCEPT ![w] = "idle"]
  /\ buf' = [buf EXCEPT ![w] = <<>>]
  /\ req' = [req EXCEPT ![w] = None]

\* saveCSVRecords: the next row; rows without id or URL are passed over, a row that
\* is not CSV ends the import with what was saved so far.
NextRow(w) ==
  /\ pc[w] = "row"
  /\ LET rows == req[w].rows IN
     \/ /\ rows = <<>> /\ Answered(w, 200)
     \/ /\ rows # <<>> /\ "skip" \in DOMAIN rows[1]
        /\ req' = [req EXCEPT ![w].rows = Tail(rows)] /\ UNCHANGED <<pc, buf>>
     \/ /\ rows # <<>> /\ "bad" \in DOMAIN rows[1]
        /\ Answered(w, 500)
     \/ /\ rows # <<>> /\ "ch" \in DOMAIN rows[1]
        /\ pc' = [pc EXCEPT ![w] = "lock"] /\ UNCHANGED <<req, buf>>
  /\ UNCHANGED <<fileVars, cameras, requests, raced>>

Lock(w) ==
  /\ pc[w] = "lock" /\ mu = NoOne
  /\ mu' = w
  /\ pc' = [pc EXCEPT ![w] = "load"]
  /\ UNCHANGED <<disk, faults, cameras, req, buf, requests, raced>>

\* A delete of an unknown camera that returns with the mutex held.
Unlock_Leaky(w, status) == mu' = IF status = 404 THEN mu ELSE NoOne
\* The deferred Unlock, whichever way the call returns.
Unlock(w, status) == mu' = NoOne

\* Load the file and change the list; a file that does not load is an error, for a
\* save too, and so is a camera to delete that is not there.
Load(w) ==
  /\ pc[w] = "load"
  /\ LET r == req[w] IN
     \/ /\ load.st = "error"
        /\ Answered(w, 500) /\ Unlock(w, 500)
     \/ /\ load.st # "error" /\ r.kind = "delete" /\ r.id \notin Ids(load.chans)
        /\ Answered(w, 404) /\ Unlock(w, 404)
     \/ /\ load.st # "error" /\ (r.kind = "delete" => r.id \in Ids(load.chans))
        /\ buf' = [buf EXCEPT ![w] = IF r.kind = "delete" THEN Deleted(load.chans, r.id)
                                     ELSE Saved(load.chans, r.rows[1].ch)]
        /\ pc' = [pc EXCEPT ![w] = "truncate"]
        /\ UNCHANGED <<mu, req>>
  /\ UNCHANGED <<disk, faults, cameras, requests, raced>>

\* A write that gives the mutex back before its data is written.
Truncate_Early(w) ==
  /\ pc[w] = "truncate"
  /\ disk' = [disk EXCEPT !.st = "torn"] /\ mu' = NoOne
  /\ pc' = [pc EXCEPT ![w] = "write"]
  /\ UNCHANGED <<buf, faults, cameras, req, requests, raced>>
\* os.WriteFile opens and truncates the file, or fails to open it ...
Truncate(w) ==
  /\ pc[w] = "truncate"
  /\ \/ /\ disk' = [disk EXCEPT !.st = "torn"] \* its channels are still what the store held
        /\ pc' = [pc EXCEPT ![w] = "write"]
        /\ UNCHANGED <<mu, req, buf>>
     \/ /\ Answered(w, 500) /\ Unlock(w, 500)
        /\ UNCHANGED disk
  /\ UNCHANGED <<faults, cameras, requests, raced>>

\* Pages that a client is reading were cut from an older file.
Outdated == [w \in Workers |-> IF req[w].kind = "list" THEN [req[w] EXCEPT !.outdated = TRUE] ELSE req[w]]

\* ... and writes it, or fails and leaves it torn.
Write(w) ==
  /\ pc[w] = "write"
  /\ \/ /\ disk' = Ok(buf[w])
        /\ pc' = [pc EXCEPT ![w] = "apply"]
        /\ Unlock(w, 200)
        /\ req' = Outdated
        /\ buf' = [buf EXCEPT ![w] = <<>>]
        /\ UNCHANGED faults
     \/ /\ disk' = Torn /\ faults' = TRUE
        /\ Answered(w, 500) /\ Unlock(w, 500)
  /\ UNCHANGED <<cameras, requests, raced>>

\* An import that only saves.
Apply_Unlisted(w) ==
  LET r == req[w] IN
  /\ pc[w] = "apply"
  /\ cameras' = CASE r.kind = "delete" -> [id \in DOMAIN cameras \ {r.id} |-> cameras[id]]
                  [] r.kind = "import" -> cameras
                  [] OTHER -> [id \in DOMAIN cameras \cup {r.rows[1].ch.id} |->
                                IF id = r.rows[1].ch.id THEN r.rows[1].ch.name ELSE cameras[id]]
  /\ IF r.kind = "import"
     THEN /\ req' = [req EXCEPT ![w].rows = Tail(r.rows)]
          /\ pc' = [pc EXCEPT ![w] = "row"] /\ UNCHANGED buf
     ELSE Answered(w, 200)
  /\ UNCHANGED <<fileVars, requests, raced>>
\* RegisterCamera or UnregisterCamera, and the answer or the import's next row.
Apply(w) ==
  LET r == req[w] IN
  /\ pc[w] = "apply"
  /\ cameras' = IF r.kind = "delete" THEN [id \in DOMAIN cameras \ {r.id} |-> cameras[id]]
                ELSE [id \in DOMAIN cameras \cup {r.rows[1].ch.id} |->
                        IF id = r.rows[1].ch.id THEN r.rows[1].ch.name ELSE cameras[id]]
  /\ IF r.kind = "import"
     THEN /\ req' = [req EXCEPT ![w].rows = Tail(r.rows)]
          /\ pc' = [pc EXCEPT ![w] = "row"] /\ UNCHANGED buf
     ELSE Answered(w, 200)
  /\ UNCHANGED <<fileVars, requests, raced>>

\* GetChannel, as the GET request and the demuxer factory call it.
Read(w) ==
  /\ pc[w] = "read"
  /\ \/ load.st = "error" /\ Answered(w, 500)
     \/ load.st # "error" /\ req[w].id \in Ids(load.chans) /\ Answered(w, 200)
     \/ /\ load.st # "error" /\ req[w].id \notin Ids(load.chans)
        /\ pc' = [pc EXCEPT ![w] = "absent"] /\ UNCHANGED <<req, buf>>
  /\ UNCHANGED <<fileVars, cameras, requests, raced>>

\* A page of the list: Limit channels from offset on, or what there is of them.
Page(all, offset) ==
  LET total == Len(all)
      from == IF offset > total THEN total ELSE offset
  IN SubSeq(all, from + 1, IF from + Limit < total THEN from + Limit ELSE total)

\* The client asks for pages until it has all that there are.
ReadPage(w) ==
  LET r == req[w] IN
  /\ pc[w] = "page"
  /\ \/ load.st = "error" /\ Answered(w, 500)
     \/ /\ load.st # "error"
        /\ req' = [req EXCEPT ![w].items = r.items \o Page(load.chans, r.offset), ![w].offset = r.offset + Limit]
        /\ pc' = [pc EXCEPT ![w] = IF r.offset + Limit < Len(load.chans) THEN "page" ELSE "listed"]
        /\ UNCHANGED buf
  /\ UNCHANGED <<fileVars, cameras, requests, raced>>

\* What was read is sent: a list, or that there is no such camera.
EndRead(w) ==
  /\ \/ pc[w] = "listed" /\ Answered(w, 200)
     \/ pc[w] = "absent" /\ Answered(w, 404)
  /\ UNCHANGED <<fileVars, cameras, requests, raced>>
-----------------------------------------------------------------------------
(* The process. *)

\* It ends, at whatever point its goroutines are.
Kill ==
  /\ disk' = IF disk.st = "torn" THEN Torn ELSE disk
  /\ faults' = (faults \/ disk.st = "torn")
  /\ mu' = NoOne /\ cameras' = <<>>
  /\ pc' = [w \in Workers |-> "idle"] /\ req' = [w \in Workers |-> None]
  /\ buf' = [w \in Workers |-> <<>>] /\ raced' = {}
  /\ UNCHANGED requests

\* The start of the next one registers the channels of the file, if it loads.
RegisterAll ==
  /\ cameras' = [id \in Ids(load.chans) |-> TableOf(load.chans)[id].name]
  /\ UNCHANGED <<fileVars, workVars>>

\* A request arrives.
Arrive(w) ==
  \/ \E id \in Cams : Delete(w, id) \/ Get(w, id) \/ \E name \in Names : Upsert(w, id, name)
  \/ \E rows \in Imports : Import(w, rows)
  \/ List(w)
\* A goroutine's next step.
Serve(w) ==
  NextRow(w) \/ Lock(w) \/ Load(w) \/ Truncate(w) \/ Write(w) \/ Apply(w) \/ Read(w) \/ ReadPage(w) \/ EndRead(w)
-----------------------------------------------------------------------------
(* Properties. *)

\* The file is unreadable only while a goroutine that holds the mutex writes it,
\* or for good after a write failed or the process ended in one.
TornOnlyByFaults ==
  disk.st = "torn" => faults \/ \E w \in Workers : pc[w] = "write" /\ mu = w

\* What the file holds as a table.  While it is written, what it held before.
StoreView == IF disk.st = "ok" \/ \E w \in Workers : pc[w] = "write" THEN TableOf(disk.chans) ELSE NoOne
Store == INSTANCE ChannelStore WITH store <- StoreView, Lost <- NoOne
\* The file provider is a ChannelStore: no concurrent save or delete, on whichever
\* camera, is lost in another.
ImplementsStore == Store!Spec

\* Once no request is changing a camera the list in memory has it if and only if the
\* file has it, under the same name, unless two requests changed it at once.
RegistryMatches ==
  disk.st = "ok" =>
    \A id \in Cams \ raced : ~InFlight(id) =>
      /\ id \in DOMAIN cameras <=> id \in Ids(disk.chans)
      /\ id \in DOMAIN cameras => cameras[id] = TableOf(disk.chans)[id].name

\* A reader that races a writer may be refused, but is never told that a camera does
\* not exist when it does.
NoFalseAbsence ==
  [][\A w \in Workers : pc[w] = "read" /\ pc'[w] = "absent" =>
       /\ StoreView # NoOne /\ req[w].id \notin DOMAIN StoreView]_vars

\* A client that reads all pages of a file nobody changes gets each camera, once:
\* neither the pages nor the saves and imports that made the file repeat one.
PagesCover ==
  \A w \in Workers : pc[w] = "listed" /\ ~req[w].outdated /\ disk.st = "ok" =>
    /\ ToSet(req[w].items) = ToSet(disk.chans)
    /\ \A i, j \in DOMAIN req[w].items : req[w].items[i].id = req[w].items[j].id => i = j

\* Every request is answered, unless the process ends first: whatever fails, the
\* mutex is given back and no goroutine waits for it for ever.
RequestsAnswered == []<>(\A w \in Workers : pc[w] = "idle")
=============================================================================
