------------------------------- MODULE EdgeApp -------------------------------
(***************************************************************************)
(* The edge application (internal/edge/app.go, Run): the order in which it *)
(* starts its parts and, in the deferred calls, stops them; the goroutine  *)
(* that shuts its servers down; the metrics collector's snapshot loop      *)
(* (pkg/metrics/collector.go); and the camera requests it serves meanwhile *)
(* (module CameraConfig).  Run returns, and the process ends, without      *)
(* waiting for the servers.                                                *)
(***************************************************************************)
EXTENDS CameraConfig

CONSTANT MaxRuns    \* bound: starts of the process

VARIABLES
  stage,     \* what Run does next; "down" when there is no process
  defers,    \* the parts whose stopping is deferred, last one first
  snap,      \* the snapshot loop: none, idle, taking, exited
  servers,   \* none, accepting requests, stopped
  runs

appVars == <<stage, defers, snap, servers, runs>>
allVars == <<vars, appVars>>

AppInit ==
  /\ Init
  /\ stage = "down" /\ defers = <<>> /\ snap = "none" /\ servers = "none" /\ runs = 0

Boot ==
  /\ stage = "down" /\ runs < MaxRuns
  /\ runs' = runs + 1 /\ stage' = "providers"
  /\ UNCHANGED <<vars, defers, snap, servers>>
-----------------------------------------------------------------------------
(* Run. *)

\* A part is started and its stopping deferred, or an error ends Run.
Push(parts, then) == defers' = parts \o defers /\ stage' = then
Abort == stage' = "unwind" /\ UNCHANGED defers

\* The providers of channels and schedules and the recording index ("stores"), and the
\* analytics database: a path that the configuration lacks is an error.
StartProviders ==
  /\ stage = "providers"
  /\ \/ Abort
     \/ Push(<<"analyticsWriter", "analyticsDB", "stores">>, "hub")
  /\ UNCHANGED <<vars, snap, servers, runs>>

StartHub ==
  /\ stage = "hub"
  /\ Push(<<"hub">>, "recorder") \/ Abort
  /\ UNCHANGED <<vars, snap, servers, runs>>

StartRecorder ==
  /\ stage = "recorder"
  /\ Push(<<"recorder">>, "analytics") \/ Abort
  /\ UNCHANGED <<vars, snap, servers, runs>>

\* The analytics relay hub.
StartAnalytics ==
  /\ stage = "analytics"
  /\ Push(<<"relayHub">>, "register") \/ Abort
  /\ UNCHANGED <<vars, snap, servers, runs>>

RegisterCameras ==
  /\ stage = "register"
  /\ RegisterAll
  /\ stage' = "metrics"
  /\ UNCHANGED <<defers, snap, servers, runs>>

\* Metrics whose store is closed before the collector is stopped.
StartMetrics_Swapped ==
  /\ stage = "metrics"
  /\ \/ Push(<<"metricsStore", "collector">>, "server") /\ snap' = "idle"
     \/ Push(<<>>, "server") /\ UNCHANGED snap
  /\ UNCHANGED <<vars, servers, runs>>
\* Without a metrics store there is no collector.
StartMetrics ==
  /\ stage = "metrics"
  /\ \/ Push(<<"collector", "metricsStore">>, "server") /\ snap' = "idle"
     \/ Push(<<>>, "server") /\ UNCHANGED snap
  /\ UNCHANGED <<vars, servers, runs>>

\* The listener may fail; then the servers and the goroutine that will stop them start.
StartServers ==
  /\ stage = "server"
  /\ \/ Push(<<>>, "serving") /\ servers' = "accepting"
     \/ Abort /\ UNCHANGED servers
  /\ UNCHANGED <<vars, snap, runs>>

\* A signal or the HTTP server's error: WaitForTerminationRequest returns, the context
\* is cancelled and the deferred calls begin.
Terminate ==
  /\ stage = "serving"
  /\ stage' = "unwind"
  /\ UNCHANGED <<vars, defers, snap, servers, runs>>

\* A collector that is stopped without waiting for its loop.
Unwind_Hasty ==
  /\ stage = "unwind" /\ defers # <<>>
  /\ defers' = Tail(defers)
  /\ UNCHANGED <<vars, stage, snap, servers, runs>>
\* The next deferred call.  Collector.Stop waits for the snapshot loop.
Unwind ==
  /\ stage = "unwind" /\ defers # <<>>
  /\ defers[1] = "collector" => snap = "exited"
  /\ defers' = Tail(defers)
  /\ UNCHANGED <<vars, stage, snap, servers, runs>>

Down == stage' = "down" /\ defers' = <<>> /\ snap' = "none" /\ servers' = "none"

\* A main that waits for the servers to be shut down.
Return_Waits ==
  /\ stage = "unwind" /\ defers = <<>> /\ servers # "accepting"
  /\ Kill /\ Down /\ UNCHANGED runs
\* Run has returned: the process ends, requests or not.
Return ==
  /\ stage = "unwind" /\ defers = <<>>
  /\ Kill /\ Down /\ UNCHANGED runs

Crash ==
  /\ stage # "down"
  /\ Kill /\ Down /\ UNCHANGED runs
-----------------------------------------------------------------------------
(* Other goroutines. *)

\* snapshotLoop.
TakeSnapshot ==
  /\ snap = "idle" /\ snap' = "taking"
  /\ UNCHANGED <<vars, stage, defers, servers, runs>>
EndSnapshot ==
  /\ snap = "taking" /\ snap' = "idle"
  /\ UNCHANGED <<vars, stage, defers, servers, runs>>
\* The loop ends once Stop has cancelled it.
EndSnapshots ==
  /\ snap = "idle" /\ stage = "unwind" /\ defers # <<>> /\ defers[1] = "collector"
  /\ snap' = "exited"
  /\ UNCHANGED <<vars, stage, defers, servers, runs>>

\* The shutdown goroutine: GracefulStop waits for the analytics ingestion streams, as
\* long as their clients like (there is no fairness for it); only then the HTTP server is
\* told to stop, which takes no more requests and leaves those it has ten seconds.
StopServers ==
  /\ stage = "unwind" /\ servers = "accepting"
  /\ servers' = "stopped"
  /\ UNCHANGED <<vars, stage, defers, snap, runs>>

Request(w) ==
  \/ servers = "accepting" /\ Arrive(w) /\ UNCHANGED appVars
  \/ Serve(w) /\ UNCHANGED appVars
-----------------------------------------------------------------------------
MainStep ==
  \/ StartProviders \/ StartHub \/ StartRecorder \/ StartAnalytics \/ RegisterCameras
  \/ StartMetrics \/ StartServers \/ Unwind \/ Return

AppNext ==
  \/ Boot \/ MainStep \/ Terminate \/ Crash
  \/ TakeSnapshot \/ EndSnapshot \/ EndSnapshots \/ StopServers
  \/ \E w \in Workers : Request(w)

\* Goroutines are scheduled, and a snapshot and a call to the file return.
AppSpec ==
  /\ AppInit /\ [][AppNext]_allVars
  /\ WF_allVars(MainStep) /\ WF_allVars(EndSnapshot) /\ SF_allVars(EndSnapshots)
  /\ \A w \in Workers : WF_allVars(Serve(w) /\ UNCHANGED appVars)
-----------------------------------------------------------------------------
(* Properties. *)

\* Samples of how long something took or how much went through: the hub's demuxers, the
\* recorder and the HTTP handlers hand them to the collector, which stores them.
Samples == {"hub", "recorder", "servers"} \X {"collector", "metricsStore"}

\* Which part calls which, directly or through what it was given.  "servers" are the HTTP
\* and gRPC servers and their requests, "health" is the health logger.
Calls ==
  Samples
  \cup ({"hub", "recorder", "relayHub", "servers"} \X {"stores"})
  \cup ({"analyticsWriter", "relayHub", "servers"} \X {"analyticsDB"})
  \cup ({"recorder", "relayHub", "collector", "health", "servers"} \X {"hub"})
  \cup ({"collector", "health", "servers"} \X {"recorder"})
  \cup ({"servers"} \X {"relayHub", "analyticsWriter"})
  \cup {<<"collector", "metricsStore">>}

\* The parts that may run.
Up ==
  ToSet(defers)
  \cup {p \in {"servers"} : servers # "none"}
  \cup {p \in {"health"} : stage \in {"server", "serving", "unwind"}}

\* Callers Run's order does not protect: without a collector nobody samples; and while the
\* deferred calls run off, samples still come for a collector and a store that are stopped
\* first, and Run waits neither for the servers nor for the health logger.
Unprotected(call) ==
  \/ call \in Samples /\ snap = "none"
  \/ stage = "unwind" /\ (call \in Samples \/ call[1] \in {"servers", "health"})

\* What a part calls runs, whichever start failed: all of it before the deferred calls
\* begin, and then too, but for the callers named above.  No snapshot is taken of a part
\* that was stopped or recorded in a metrics store that is closed.
UsersStopFirst ==
  /\ \A call \in Calls : call[1] \in Up /\ ~Unprotected(call) => call[2] \in Up
  /\ snap = "taking" => {"metricsStore", "hub", "recorder"} \subseteq Up

\* While requests are served, the list of cameras in memory agrees with the file
\* (CameraConfig, RegistryMatches), from the first one after a restart on.
ListedAsStored == stage \in {"metrics", "server", "serving", "unwind"} /\ servers # "none" => RegistryMatches

\* Once it is asked to terminate, or failed to start, the process ends, also when a
\* client keeps an ingestion stream or a request open.
TerminationEnds == stage = "unwind" ~> stage = "down"
=============================================================================
