------------------------------ MODULE Services ------------------------------
(***************************************************************************)
(* The MySQL service of a process (internal/app/app.go): the gateway with  *)
(* its listener, or the transparent relay, as the mode says.  The one that *)
(* is not configured is never started and keeps its initial state.         *)
(***************************************************************************)
EXTENDS Listener

CONSTANTS Clients, MaxRelayed  \* Clients and MaxConnections of the relay

ASSUME ServicesAssumption == IsFiniteSet(Clients) /\ MaxRelayed \in Nat \ {0}

VARIABLES mysqlMode,  \* cfg.Server.MySQLMode: "pooled" or "transparent"
          rctx, rlistener, rstopped, rloop, rwatcher, rpc, rsock, rconns, rsem, ractive, rwg, rrunErr, rshutdown
relay == <<rctx, rlistener, rstopped, rloop, rwatcher, rpc, rsock, rconns, rsem, ractive, rwg, rrunErr, rshutdown>>

R == INSTANCE Relay WITH
    MaxConnections <- MaxRelayed, ctx <- rctx, listener <- rlistener, stopped <- rstopped, loop <- rloop,
    watcher <- rwatcher, pc <- rpc, sock <- rsock, conns <- rconns, sem <- rsem, active <- ractive, wg <- rwg,
    runErr <- rrunErr, shutdown <- rshutdown

ServicesInit == mysqlMode \in {"pooled", "transparent"} /\ ListenerInit /\ R!Init
ServicesNext ==
    \/ mysqlMode = "pooled" /\ ListenerNext /\ UNCHANGED <<mysqlMode, relay>>
    \/ mysqlMode = "transparent" /\ R!Next /\ UNCHANGED <<mysqlMode, listenerVars>>
\* A service that is not started has no step that its fairness asks for.
ServicesFairness == ListenerFairness /\ R!Fairness
servicesVars == <<mysqlMode, listenerVars, relay>>

-----------------------------------------------------------------------------
(* Types of the variables of the relay.                                    *)
RelayTypes == R!TypeOK
\* The relay's semaphore, gauge and wait group count exactly the clients between
\* their two ends, it has no more upstream connections than slots, and a Shutdown
\* that returns before its deadline leaves no socket open and no goroutine running.
RelaySound == R!RelaySound
\* Cancelling the relay's context before Shutdown is called, which is the order of
\* App.Run, closes every connection and ends every goroutine, with no help from the
\* peers: a client accepted behind stop's back cannot dial.
CancelClosesAll == R!CancelClosesAll
=============================================================================
