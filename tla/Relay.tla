-------------------------------- MODULE Relay --------------------------------
(***************************************************************************)
(* The transparent relay (internal/relay/relay.go): the accept loop, the   *)
(* goroutine that calls stop when the context ends, one handle goroutine   *)
(* per client with its upstream connection, and one caller of Shutdown.    *)
(* The bytes copied are abstracted away: a copy ends when a peer ends it,  *)
(* and has to end when one of its two sockets is closed.                   *)
(***************************************************************************)
EXTENDS Integers, FiniteSets

CONSTANTS Clients,        \* the connections clients open while the relay runs
          MaxConnections  \* capacity of the sem channel

Sockets == Clients \X {"client", "upstream"}

VARIABLES ctx,       \* the context given to Start: "live" or "done"
          listener,  \* "open" or "closed"
          stopped,   \* stopOnce: "no" or "yes"
          loop,      \* next statement of acceptLoop ("done": s.done is closed)
          watcher,   \* the goroutine of Start
          pc,        \* next statement for each client
          sock,      \* both sockets of each client
          conns,     \* Server.conns
          sem, active, wg,
          runErr,    \* "nil" or "error"
          shutdown   \* the caller of Shutdown

server == <<ctx, listener, stopped, watcher, runErr, shutdown>>
counts == <<sem, active, wg>>
vars == <<server, loop, pc, sock, conns, counts>>

At(S) == {c \in Clients : pc[c] \in S}
Relaying == {"dial", "trackUpstream", "copy", "dropUpstream", "untrack", "close", "count"}
Slotted == At({"accepted", "track", "spawn", "sem"} \cup Relaying)
Active  == At({"track", "spawn"} \cup Relaying)
Waited  == At({"sem", "wgDone"} \cup Relaying)

Open(s) == sock[s] = "open"

Init ==
    /\ ctx = "live" /\ listener = "open" /\ stopped = "no" /\ loop = "accept" /\ watcher = "select"
    /\ pc = [c \in Clients |-> "new"]
    /\ sock = [s \in Sockets |-> "none"]
    /\ conns = {}
    /\ sem = 0 /\ active = 0 /\ wg = 0
    /\ runErr = "nil" /\ shutdown = "idle"

Goto(c, from, to) == pc[c] = from /\ pc' = [pc EXCEPT ![c] = to]
LoopGoto(from, to) == loop = from /\ loop' = to

-----------------------------------------------------------------------------
(* stop, under mu and once: the listener and every tracked connection.     *)
Stop ==
    /\ stopped' = "yes" /\ listener' = "closed"
    /\ sock' = [s \in Sockets |-> IF stopped = "no" /\ s \in conns THEN "closed" ELSE sock[s]]

CancelContext ==
    /\ ctx = "live" /\ ctx' = "done"
    /\ UNCHANGED <<listener, stopped, watcher, runErr, shutdown, loop, pc, sock, conns, counts>>
WatcherStops ==
    /\ watcher = "select" /\ ctx = "done"
    /\ watcher' = "exit" /\ Stop
    /\ UNCHANGED <<ctx, runErr, shutdown, loop, pc, conns, counts>>
WatcherExits ==
    /\ watcher = "select" /\ loop = "done"
    /\ watcher' = "exit"
    /\ UNCHANGED <<ctx, listener, stopped, runErr, shutdown, loop, pc, sock, conns, counts>>

\* Shutdown: stop, wait for the loop and the handlers or for the deadline.
ShutdownStops ==
    /\ shutdown = "idle" /\ shutdown' = "waiting"
    /\ Stop
    /\ UNCHANGED <<ctx, watcher, runErr, loop, pc, conns, counts>>
ShutdownReturns ==
    /\ shutdown = "waiting" /\ loop = "done" /\ wg = 0
    /\ shutdown' = runErr
    /\ UNCHANGED <<ctx, listener, stopped, watcher, runErr, loop, pc, sock, conns, counts>>
ShutdownExpires ==
    /\ shutdown = "waiting"
    /\ shutdown' = "expired"
    /\ UNCHANGED <<ctx, listener, stopped, watcher, runErr, loop, pc, sock, conns, counts>>

-----------------------------------------------------------------------------
(* acceptLoop.                                                             *)
Accept(c) ==
    /\ listener = "open" /\ LoopGoto("accept", "busy") /\ Goto(c, "new", "select")
    /\ sock' = [sock EXCEPT ![<<c, "client">>] = "open"]
    /\ UNCHANGED <<server, conns, counts>>
AcceptClosed ==
    /\ listener = "closed" /\ LoopGoto("accept", "done")
    /\ UNCHANGED <<server, pc, sock, conns, counts>>
\* Any other accept error is kept for Shutdown and stops the relay.
AcceptError ==
    /\ listener = "open" /\ LoopGoto("accept", "done")
    /\ runErr' = "error" /\ Stop
    /\ UNCHANGED <<ctx, watcher, shutdown, pc, conns, counts>>

TakeSlot(c) ==
    /\ sem < MaxConnections /\ sem' = sem + 1
    /\ Goto(c, "select", "accepted")
    /\ UNCHANGED <<server, loop, sock, conns, active, wg>>
RejectClient(c) ==
    /\ sem >= MaxConnections
    /\ LoopGoto("busy", "accept") /\ Goto(c, "select", "rejected")
    /\ sock' = [sock EXCEPT ![<<c, "client">>] = "closed"]
    /\ UNCHANGED <<server, conns, counts>>
Count(c) ==
    /\ Goto(c, "accepted", "track") /\ active' = active + 1
    /\ UNCHANGED <<server, loop, sock, conns, sem, wg>>
Track(c) ==
    /\ Goto(c, "track", "spawn") /\ conns' = conns \cup {<<c, "client">>}
    /\ UNCHANGED <<server, loop, sock, counts>>
Spawn(c) ==
    /\ LoopGoto("busy", "accept") /\ Goto(c, "spawn", "dial")
    /\ wg' = wg + 1
    /\ UNCHANGED <<server, sock, conns, sem, active>>

-----------------------------------------------------------------------------
(* handle.  DialContext fails by itself, by its timeout, or because the    *)
(* context is done; it succeeds only on a live context.                    *)
MutDialOK(c) ==
    /\ Goto(c, "dial", "trackUpstream")
    /\ sock' = [sock EXCEPT ![<<c, "upstream">>] = "open"]
    /\ UNCHANGED <<server, loop, conns, counts>>
DialOK(c) ==
    /\ ctx = "live" /\ Goto(c, "dial", "trackUpstream")
    /\ sock' = [sock EXCEPT ![<<c, "upstream">>] = "open"]
    /\ UNCHANGED <<server, loop, conns, counts>>
DialFails(c) ==
    /\ Goto(c, "dial", "untrack")
    /\ UNCHANGED <<server, loop, sock, conns, counts>>
TrackUpstream(c) ==
    /\ Goto(c, "trackUpstream", "copy") /\ conns' = conns \cup {<<c, "upstream">>}
    /\ UNCHANGED <<server, loop, sock, counts>>
\* The first of the two copies to end makes handle close both connections.
CopyEnds(c) ==
    /\ Goto(c, "copy", "dropUpstream")
    /\ sock' = [sock EXCEPT ![<<c, "client">>] = "closed", ![<<c, "upstream">>] = "closed"]
    /\ UNCHANGED <<server, loop, conns, counts>>
\* The deferred calls: untrack and close upstream (closed already), untrack the
\* client, close it, and undo active, sem and wg.
DropUpstream(c) ==
    /\ Goto(c, "dropUpstream", "untrack") /\ conns' = conns \ {<<c, "upstream">>}
    /\ UNCHANGED <<server, loop, sock, counts>>
Untrack(c) ==
    /\ Goto(c, "untrack", "close") /\ conns' = conns \ {<<c, "client">>}
    /\ UNCHANGED <<server, loop, sock, counts>>
CloseClient(c) ==
    /\ Goto(c, "close", "count") /\ sock' = [sock EXCEPT ![<<c, "client">>] = "closed"]
    /\ UNCHANGED <<server, loop, conns, counts>>
Uncount(c) ==
    /\ Goto(c, "count", "sem") /\ active' = active - 1
    /\ UNCHANGED <<server, loop, sock, conns, sem, wg>>
MutReturnSlot(c) ==
    /\ Goto(c, "sem", "wgDone")
    /\ UNCHANGED <<server, loop, sock, conns, counts>>
ReturnSlot(c) ==
    /\ Goto(c, "sem", "wgDone") /\ sem' = sem - 1
    /\ UNCHANGED <<server, loop, sock, conns, active, wg>>
WgDone(c) ==
    /\ Goto(c, "wgDone", "done") /\ wg' = wg - 1
    /\ UNCHANGED <<server, loop, sock, conns, sem, active>>

LoopStep(c) == TakeSlot(c) \/ RejectClient(c) \/ Count(c) \/ Track(c) \/ Spawn(c)
HandleStep(c) == \/ DialOK(c) \/ DialFails(c) \/ TrackUpstream(c) \/ DropUpstream(c) \/ Untrack(c)
                 \/ CloseClient(c) \/ Uncount(c) \/ ReturnSlot(c) \/ WgDone(c)
Finished == loop = "done" /\ watcher = "exit" /\ shutdown \notin {"idle", "waiting"} /\ UNCHANGED vars

Next ==
    \/ CancelContext \/ WatcherStops \/ WatcherExits
    \/ ShutdownStops \/ ShutdownReturns \/ ShutdownExpires
    \/ AcceptClosed \/ AcceptError
    \/ \E c \in Clients : Accept(c) \/ LoopStep(c) \/ HandleStep(c) \/ CopyEnds(c)
    \/ Finished

Spec == Init /\ [][Next]_vars

\* Every goroutine that can move does; a dial ends; a copy ends once one of its
\* sockets is closed.  No peer is obliged to end a copy by itself.
Fairness ==
    /\ WF_vars(WatcherStops) /\ WF_vars(AcceptClosed)
    /\ \A c \in Clients :
          /\ WF_vars(LoopStep(c)) /\ WF_vars(HandleStep(c))
          /\ WF_vars((\E s \in Sockets : s[1] = c /\ sock[s] = "closed") /\ CopyEnds(c))

-----------------------------------------------------------------------------
(* Types of the variables of the relay.                                    *)
TypeOK ==
    /\ ctx \in {"live", "done"} /\ listener \in {"open", "closed"} /\ stopped \in {"no", "yes"}
    /\ loop \in {"accept", "busy", "done"} /\ watcher \in {"select", "exit"}
    /\ pc \in [Clients -> {"new", "select", "rejected", "accepted", "track", "spawn", "sem", "wgDone", "done"}
                          \cup Relaying]
    /\ sock \in [Sockets -> {"none", "open", "closed"}]
    /\ conns \subseteq Sockets
    /\ sem \in Nat /\ active \in Nat /\ wg \in Nat
    /\ runErr \in {"nil", "error"}
    /\ shutdown \in {"idle", "waiting", "nil", "error", "expired"}

\* sem, active and wg count exactly the clients between their two ends, and the
\* relay never opens more upstream connections than MaxConnections.
CountersExact ==
    /\ sem = Cardinality(Slotted) /\ sem <= MaxConnections
    /\ active = Cardinality(Active)
    /\ wg = Cardinality(Waited)
    /\ Cardinality({c \in Clients : Open(<<c, "upstream">>)}) <= sem

\* A Shutdown that returns before its deadline leaves no socket open and no
\* goroutine running.
ShutdownClean ==
    shutdown \in {"nil", "error"} =>
        /\ listener = "closed" /\ conns = {} /\ sem = 0 /\ active = 0
        /\ \A s \in Sockets : ~Open(s)

\* Cancelling the context given to Start before Shutdown is called, which is the
\* order of App.Run, closes every connection and ends every goroutine, with no
\* help from the peers: a client accepted behind stop's back cannot dial.
CancelClosesAll ==
    (ctx = "done" /\ shutdown = "idle") ~> (loop = "done" /\ wg = 0 /\ \A s \in Sockets : ~Open(s))

\* The relay loses neither a socket nor a unit of its capacity, while it runs and
\* when Shutdown returns.
RelaySound == CountersExact /\ ShutdownClean
=============================================================================
