-------------------------------- MODULE App --------------------------------
(***************************************************************************)
(* The process: App.Run (internal/app/app.go) under runServe               *)
(* (internal/command/command.go), the MySQL service it starts and shuts    *)
(* down (gateway.Service or the relay; their insides are modules Listener, *)
(* Session and Relay), the admin server and the upstream prober            *)
(* (internal/control/runtime.go).                                          *)
(***************************************************************************)
EXTENDS Naturals, Lifecycle

CONSTANTS Modes,      \* subset of {"disabled", "pooled", "transparent"}
          MaxClients  \* bound on the clients connected at a time

ASSUME AppAssumption == Modes \subseteq {"disabled", "pooled", "transparent"} /\ MaxClients \in Nat

VARIABLES mode,
          ctx,       \* the signal context: "live" or "cancelled"
          state,     \* of the lifecycle manager
          run,       \* where Run is
          result,    \* what it returned: "none", "nil" or "error"
          exit,      \* exit status of the process: "none", "zero" or "nonzero"
          service,   \* "none", "configured", "serving", "draining", "ended"
          sctx,      \* the context Shutdown cancels, or the relay's stop: "live", "cancelled"
          broke,     \* "yes" when the service's accept loop ended with an error
          clients,   \* client connections the service handles
          database,  \* the gateway's pool: "none", "open", "closed"
          admin,     \* "none", "serving", "failed", "closed"
          prober,    \* "none", "idle", "probing", "stopped"
          probed     \* probeStatus

process == <<state, run, result>>
traffic == <<service, broke, clients>>
probes == <<prober, probed>>
vars == <<mode, ctx, exit, process, traffic, sctx, database, admin, probes>>

Init ==
    /\ mode \in Modes
    /\ ctx = "live" /\ exit = "none" /\ state = "starting" /\ run = "mkdir" /\ result = "none"
    /\ service = "none" /\ sctx = "live" /\ broke = "no" /\ clients = 0 /\ database = "none"
    /\ admin = "none" /\ prober = "none" /\ probed = "checking"

\* Until runServe returns the process is there.
Living == exit = "none" /\ UNCHANGED <<mode, exit>>

\* Run moves on, or returns with an error after Transition(Failed).
Goto(from, to) == run = from /\ run' = to /\ UNCHANGED <<state, result>>
Fail(from) ==
    /\ run = from /\ run' = "returned" /\ result' = "error"
    /\ state' = Transition(state, "failed")

\* MkdirAll.
MakeDataDir ==
    /\ Goto("mkdir", IF mode = "disabled" THEN "bind" ELSE "configure") \/ Fail("mkdir")
    /\ Living /\ UNCHANGED <<ctx, traffic, sctx, database, admin, probes>>

\* UpstreamDurations, upstream.New and gateway.New or relay.New.  gateway.New
\* probes the database before it opens the pool; the relay only checks its
\* settings.
Configure ==
    /\ \/ Goto("configure", "start") /\ service' = "configured"
          /\ database' = (IF mode = "pooled" THEN "open" ELSE "none")
       \/ Fail("configure") /\ UNCHANGED <<service, database>>
    /\ Living /\ UNCHANGED <<ctx, broke, clients, sctx, admin, probes>>

\* trafficService.Start: the listener is open and accepting when it returns.
Start ==
    /\ \/ Goto("start", "bind") /\ service' = "serving"
       \/ Fail("start") /\ UNCHANGED service
    /\ Living /\ UNCHANGED <<ctx, broke, clients, sctx, database, admin, probes>>

\* The admin listener; without it the service is shut down within two seconds.
BindAdmin ==
    /\ Goto("bind", "ready") /\ admin' = "serving" /\ prober' = "probing"
    /\ Living /\ UNCHANGED <<ctx, traffic, sctx, database, probed>>
BindAdminFails ==
    /\ IF service = "none" THEN Fail("bind") /\ UNCHANGED sctx
                           ELSE Goto("bind", "unbind") /\ sctx' = "cancelled"
    /\ Living /\ UNCHANGED <<ctx, traffic, database, admin, probes>>

\* Shutdown of the service returns: its accept loop has ended and, in pooled mode,
\* the pool is closed.  Otherwise its context expires first.
ServiceDown ==
    /\ service = "ended"
    /\ database' = (IF mode = "pooled" THEN "closed" ELSE database)
Unbind ==
    /\ Fail("unbind")
    /\ ServiceDown \/ UNCHANGED database
    /\ Living /\ UNCHANGED <<ctx, traffic, sctx, admin, probes>>

BecomeReady ==
    /\ run = "ready" /\ run' = "select" /\ state' = Transition(state, "ready") /\ UNCHANGED result
    /\ Living /\ UNCHANGED <<ctx, traffic, sctx, database, admin, probes>>

\* The select of Run.  Nobody else shuts the admin server down, so Serve never
\* returns ErrServerClosed here.
ShutdownRequested ==
    /\ run = "select" /\ ctx = "cancelled"
    /\ run' = "stopAdmin" /\ state' = Transition(state, "draining") /\ UNCHANGED result
    /\ Living /\ UNCHANGED <<ctx, traffic, sctx, database, admin, probes>>
AdminServerFailed ==
    /\ admin = "failed" /\ Fail("select")
    /\ Living /\ UNCHANGED <<ctx, traffic, sctx, database, admin, probes>>

\* server.Shutdown; when the deadline passes, server.Close and an error.
StopAdmin ==
    /\ admin' = "closed"
    /\ \/ Goto("stopAdmin", IF service = "none" THEN "stop" ELSE "stopService")
          /\ sctx' = (IF service = "none" THEN sctx ELSE "cancelled")
       \/ Fail("stopAdmin") /\ UNCHANGED sctx
    /\ Living /\ UNCHANGED <<ctx, traffic, database, probes>>

\* trafficService.Shutdown: done, done with the accept loop's error, or too late.
MutStopService ==
    /\ ServiceDown /\ Goto("stopService", "stop")
    /\ Living /\ UNCHANGED <<ctx, traffic, sctx, admin, probes>>
MutStopServiceWaits ==
    /\ \/ ServiceDown /\ broke = "no" /\ Goto("stopService", "stop")
       \/ ServiceDown /\ broke = "yes" /\ Fail("stopService")
    /\ Living /\ UNCHANGED <<ctx, traffic, sctx, admin, probes>>
StopService ==
    /\ \/ ServiceDown /\ broke = "no" /\ Goto("stopService", "stop")
       \/ ServiceDown /\ broke = "yes" /\ Fail("stopService")
       \/ Fail("stopService") /\ UNCHANGED database
    /\ Living /\ UNCHANGED <<ctx, traffic, sctx, admin, probes>>

Stop ==
    /\ run = "stop" /\ run' = "returned" /\ result' = "nil" /\ state' = Transition(state, "stopped")
    /\ Living /\ UNCHANGED <<ctx, traffic, sctx, database, admin, probes>>

\* runServe returns and the process ends.
Exit ==
    /\ run = "returned" /\ exit = "none"
    /\ exit' = (IF result = "error" THEN "nonzero" ELSE "zero")
    /\ UNCHANGED <<mode, ctx, process, traffic, sctx, database, admin, probes>>

RunStep ==
    \/ MakeDataDir \/ Configure \/ Start \/ BindAdmin \/ BindAdminFails \/ Unbind \/ BecomeReady
    \/ ShutdownRequested \/ AdminServerFailed \/ StopAdmin \/ StopService \/ Stop \/ Exit

-----------------------------------------------------------------------------
(* The others, while the process lives.                                    *)
Signal ==
    /\ ctx = "live" /\ ctx' = "cancelled"
    /\ Living /\ UNCHANGED <<process, traffic, sctx, database, admin, probes>>
AdminBreaks ==
    /\ admin = "serving" /\ admin' = "failed"
    /\ Living /\ UNCHANGED <<ctx, process, traffic, sctx, database, probes>>

AcceptClient ==
    /\ service = "serving" /\ clients < MaxClients /\ clients' = clients + 1
    /\ Living /\ UNCHANGED <<ctx, process, service, broke, sctx, database, admin, probes>>
MutClientLeaves ==
    /\ service # "none" /\ clients' = clients - 1
    /\ Living /\ UNCHANGED <<ctx, process, service, broke, sctx, database, admin, probes>>
ClientLeaves ==
    /\ clients > 0 /\ clients' = clients - 1
    /\ Living /\ UNCHANGED <<ctx, process, service, broke, sctx, database, admin, probes>>
AcceptBreaks ==
    /\ service = "serving" /\ ctx = "live" /\ sctx = "live"
    /\ service' = "draining" /\ broke' = "yes"
    /\ Living /\ UNCHANGED <<ctx, process, clients, sctx, database, admin, probes>>
ServiceDrains ==
    /\ service = "serving" /\ (ctx = "cancelled" \/ sctx = "cancelled") /\ service' = "draining"
    /\ Living /\ UNCHANGED <<ctx, process, broke, clients, sctx, database, admin, probes>>
ServiceEnds ==
    /\ service = "draining" /\ clients = 0 /\ service' = "ended"
    /\ Living /\ UNCHANGED <<ctx, process, broke, clients, sctx, database, admin, probes>>

\* Runtime.Start's goroutine: a probe at once, then one per tick.  probe without
\* a connector only says so; an error keeps the last report.
ProbeEnds ==
    /\ prober = "probing" /\ prober' = "idle"
    /\ probed' \in (IF mode = "disabled" THEN {"disabled"} ELSE {"ok", "error"})
    /\ Living /\ UNCHANGED <<ctx, process, traffic, sctx, database, admin>>
ProbeTick ==
    /\ prober = "idle" /\ prober' = "probing"
    /\ Living /\ UNCHANGED <<ctx, process, traffic, sctx, database, admin, probed>>
ProberStops ==
    /\ prober = "idle" /\ ctx = "cancelled" /\ prober' = "stopped"
    /\ Living /\ UNCHANGED <<ctx, process, traffic, sctx, database, admin, probed>>

Environment ==
    \/ Signal \/ AdminBreaks \/ AcceptClient \/ ClientLeaves \/ AcceptBreaks
    \/ ServiceDrains \/ ServiceEnds \/ ProbeEnds \/ ProbeTick \/ ProberStops

Terminated == exit # "none" /\ UNCHANGED vars
Next == RunStep \/ Environment \/ Terminated

Spec == Init /\ [][Next]_vars
\* Run keeps going, and its deadlines do pass.
FairSpec == Spec /\ WF_vars(RunStep)

-----------------------------------------------------------------------------
(* Types of the process's variables.                                       *)
TypeOK ==
    /\ mode \in Modes /\ state \in States /\ ctx \in {"live", "cancelled"} /\ sctx \in {"live", "cancelled"}
    /\ run \in {"mkdir", "configure", "start", "bind", "unbind", "ready", "select", "stopAdmin", "stopService",
                "stop", "returned"}
    /\ result \in {"none", "nil", "error"} /\ exit \in {"none", "zero", "nonzero"}
    /\ service \in {"none", "configured", "serving", "draining", "ended"} /\ broke \in {"yes", "no"}
    /\ clients \in 0..MaxClients /\ database \in {"none", "open", "closed"}
    /\ admin \in {"none", "serving", "failed", "closed"}
    /\ prober \in {"none", "idle", "probing", "stopped"} /\ probed \in {"checking", "ok", "error", "disabled"}

\* When Run has returned, the lifecycle state says how: every Transition whose
\* error Run drops was legal where it was made.
ReturnReported ==
    run = "returned" => (result = "nil" /\ state = "stopped") \/ (result = "error" /\ state = "failed")

\* Exit status 0 means an orderly stop: no client was cut off by the process's
\* end, the pool and the admin server are closed, and the MySQL listener had not
\* failed unnoticed at some time before.
CleanExit ==
    exit = "zero" =>
        /\ ctx = "cancelled" /\ state = "stopped" /\ admin = "closed" /\ broke = "no"
        /\ service \in {"none", "ended"} /\ clients = 0 /\ database # "open"

\* Readiness is reported only between the opening of every listener and the
\* start of the shutdown, and never again after it was withdrawn.
ReadyOnce ==
    [][/\ IsReady(state') => admin' # "none" /\ (mode # "disabled" => service' \notin {"none", "configured"})
       /\ IsReady(state) /\ ~IsReady(state') => ctx = "cancelled" \/ admin = "failed"
       /\ ~IsReady(state) /\ IsReady(state') => state = "starting"]_vars

\* A signal ends the process, whatever the clients and the admin server do.
StopsOnSignal == ctx = "cancelled" ~> exit # "none"

\* The lifecycle state and the exit status say how the process ended.
ExitTruthful == ReturnReported /\ CleanExit
=============================================================================
