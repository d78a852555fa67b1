----------------------------- MODULE Lifecycle -----------------------------
(***************************************************************************)
(* lifecycle.Manager (internal/lifecycle/state.go): the state of the       *)
(* process that /livez and /readyz report.                                 *)
(***************************************************************************)
States == {"starting", "ready", "draining", "stopped", "failed"}

Allowed(current, next) ==
    \/ current = next
    \/ current = "starting" /\ next \in {"ready", "draining", "failed", "stopped"}
    \/ current = "ready" /\ next \in {"draining", "failed"}
    \/ current = "draining" /\ next \in {"stopped", "failed"}
    \/ current = "failed" /\ next \in {"draining", "stopped"}

\* Transition, with the error its callers drop: an illegal one changes nothing.
Transition(current, next) == IF Allowed(current, next) THEN next ELSE current

IsLive(state) == state # "stopped"
IsReady(state) == state = "ready"
=============================================================================
