------------------------------ MODULE Listener ------------------------------
(***************************************************************************)
(* Server.Serve (internal/protocol/mysql/listener.go): the accept loop,    *)
(* the goroutine that closes everything when the serve context ends, one   *)
(* handler goroutine per accepted connection, and the deferred calls by    *)
(* which each of them unwinds.  loop and pc name the next statement of a   *)
(* goroutine; every statement that another goroutine can see is a step.    *)
(* Handler.Handle is external: it may return at any time, and does return  *)
(* once its connection is closed.                                          *)
(***************************************************************************)
EXTENDS Integers, FiniteSets

CONSTANTS Conns,          \* the connections clients open while Serve runs
          MaxConnections  \* capacity of the tokens channel

ASSUME ListenerAssumption == IsFiniteSet(Conns) /\ MaxConnections \in Nat \ {0}

VARIABLES serveCtx,          \* the serve context: "live" or "done"
          listener,     \* the listening socket: "open" or "closed"
          loop,         \* next statement of Serve
          stopper,      \* next statement of the closing goroutine
          pc, sock,     \* next statement for each connection, and its socket
          connections,  \* Server.connections
          tokens, active, wait

serve == <<serveCtx, listener, stopper>>
counts == <<tokens, active, wait>>
listenerVars == <<serve, loop, pc, sock, connections, counts>>

At(S) == {c \in Conns : pc[c] \in S}

\* The connections that hold a token, that count as active, and that Serve
\* waits for.
Tokened == At({"register", "spawn", "handle", "close", "remove", "count", "token"})
Active  == At({"handle", "close", "remove", "count"})
Waited  == At({"handle", "close", "remove", "count", "token", "waitDone"})

ListenerInit ==
    /\ serveCtx = "live" /\ listener = "open" /\ loop = "accept" /\ stopper = "select"
    /\ pc = [c \in Conns |-> "new"]
    /\ sock = [c \in Conns |-> "new"]
    /\ connections = {}
    /\ tokens = 0 /\ active = 0 /\ wait = 0

ConnGoto(c, from, to) == pc[c] = from /\ pc' = [pc EXCEPT ![c] = to]
LoopGoto(from, to) == loop = from /\ loop' = to

-----------------------------------------------------------------------------
(* The end of the context, and the goroutine Serve starts to act on it:    *)
(* listener.Close and closeActive, or nothing once Serve has returned.     *)

CancelParent ==
    /\ serveCtx = "live" /\ serveCtx' = "done"
    /\ UNCHANGED <<listener, stopper, loop, pc, sock, connections, counts>>

\* closeActive closes every registered connection under the lock.
CloseActive ==
    sock' = [c \in Conns |-> IF c \in connections THEN "closed" ELSE sock[c]]

StopperWakes ==
    /\ stopper = "select" /\ serveCtx = "done"
    /\ stopper' = "sweep" /\ listener' = "closed"
    /\ UNCHANGED <<serveCtx, loop, pc, sock, connections, counts>>
StopperSweeps ==
    /\ stopper = "sweep" /\ stopper' = "exit"
    /\ CloseActive
    /\ UNCHANGED <<serveCtx, listener, loop, pc, connections, counts>>
StopperExits ==
    /\ stopper = "select" /\ loop = "returned" /\ stopper' = "exit"
    /\ UNCHANGED <<serveCtx, listener, loop, pc, sock, connections, counts>>

-----------------------------------------------------------------------------
(* The accept loop.                                                        *)

Accept(c) ==
    /\ listener = "open" /\ LoopGoto("accept", "select") /\ ConnGoto(c, "new", "select")
    /\ sock' = [sock EXCEPT ![c] = "open"]
    /\ UNCHANGED <<serve, connections, counts>>

\* Accept fails: on a closed listener or a done context Serve returns nil, after
\* a temporary error it backs off, after any other error it returns the error.
AcceptFails ==
    /\ \/ LoopGoto("accept", "unwind")
       \/ listener = "open" /\ serveCtx = "live" /\ LoopGoto("accept", "backoff")
    /\ UNCHANGED <<serve, pc, sock, connections, counts>>

\* time.After(backoff) or the end of the context, whichever select takes.
Backoff ==
    /\ LoopGoto("backoff", "accept") \/ (serveCtx = "done" /\ LoopGoto("backoff", "unwind"))
    /\ UNCHANGED <<serve, pc, sock, connections, counts>>

\* The select over the tokens channel.
TakeToken(c) ==
    /\ LoopGoto("select", "register") /\ ConnGoto(c, "select", "register")
    /\ tokens < MaxConnections /\ tokens' = tokens + 1
    /\ UNCHANGED <<serve, sock, connections, active, wait>>
RefuseConnection(c) ==
    /\ ConnGoto(c, "select", "refused")
    /\ \/ serveCtx = "done" /\ LoopGoto("select", "unwind")
       \/ serveCtx = "live" /\ tokens >= MaxConnections /\ LoopGoto("select", "accept")
    /\ sock' = [sock EXCEPT ![c] = "closed"]
    /\ UNCHANGED <<serve, connections, counts>>

MutAddConnection(c) ==
    /\ LoopGoto("register", "spawn") /\ ConnGoto(c, "register", "spawn")
    /\ UNCHANGED <<serve, sock, connections, counts>>
AddConnection(c) ==
    /\ LoopGoto("register", "spawn") /\ ConnGoto(c, "register", "spawn")
    /\ connections' = connections \cup {c}
    /\ UNCHANGED <<serve, sock, counts>>

Spawn(c) ==
    /\ LoopGoto("spawn", "accept") /\ ConnGoto(c, "spawn", "handle")
    /\ active' = active + 1 /\ wait' = wait + 1
    /\ UNCHANGED <<serve, sock, connections, tokens>>

\* The deferred calls of Serve: cancel and listener.Close, closeActive, and
\* wait.Wait; then closed is closed and Serve returns.
Unwind ==
    /\ LoopGoto("unwind", "sweep") /\ serveCtx' = "done" /\ listener' = "closed"
    /\ UNCHANGED <<stopper, pc, sock, connections, counts>>
MutServeSweeps ==
    /\ LoopGoto("sweep", "wait")
    /\ UNCHANGED <<serve, pc, sock, connections, counts>>
ServeSweeps ==
    /\ LoopGoto("sweep", "wait") /\ CloseActive
    /\ UNCHANGED <<serve, pc, connections, counts>>
ServeReturns ==
    /\ wait = 0 /\ LoopGoto("wait", "returned")
    /\ UNCHANGED <<serve, pc, sock, connections, counts>>

-----------------------------------------------------------------------------
(* One handler goroutine: Handle, and its five deferred calls.             *)

HandleReturns(c) ==
    /\ ConnGoto(c, "handle", "close")
    /\ UNCHANGED <<serve, loop, sock, connections, counts>>
CloseConnection(c) ==
    /\ ConnGoto(c, "close", "remove") /\ sock' = [sock EXCEPT ![c] = "closed"]
    /\ UNCHANGED <<serve, loop, connections, counts>>
RemoveConnection(c) ==
    /\ ConnGoto(c, "remove", "count") /\ connections' = connections \ {c}
    /\ UNCHANGED <<serve, loop, sock, counts>>
Uncount(c) ==
    /\ ConnGoto(c, "count", "token") /\ active' = active - 1
    /\ UNCHANGED <<serve, loop, sock, connections, tokens, wait>>
ReturnToken(c) ==
    /\ ConnGoto(c, "token", "waitDone") /\ tokens' = tokens - 1
    /\ UNCHANGED <<serve, loop, sock, connections, active, wait>>
WaitDone(c) ==
    /\ ConnGoto(c, "waitDone", "done") /\ wait' = wait - 1
    /\ UNCHANGED <<serve, loop, sock, connections, tokens, active>>

Dispose(c) == TakeToken(c) \/ RefuseConnection(c) \/ AddConnection(c) \/ Spawn(c)
HandlerUnwinds(c) == CloseConnection(c) \/ RemoveConnection(c) \/ Uncount(c) \/ ReturnToken(c) \/ WaitDone(c)
Finished == loop = "returned" /\ stopper = "exit" /\ UNCHANGED listenerVars

ListenerNext ==
    \/ CancelParent \/ StopperWakes \/ StopperSweeps \/ StopperExits
    \/ AcceptFails \/ Backoff \/ Unwind \/ ServeSweeps \/ ServeReturns
    \/ \E c \in Conns : Accept(c) \/ Dispose(c) \/ HandleReturns(c) \/ HandlerUnwinds(c)
    \/ Finished

ListenerSpec == ListenerInit /\ [][ListenerNext]_listenerVars

\* The Go scheduler runs every goroutine that can move.  Accept on a closed
\* listener and Handle on a closed connection return; nothing obliges a client
\* to connect or a healthy handler to end.
ListenerFairness ==
    /\ WF_listenerVars(StopperWakes) /\ WF_listenerVars(StopperSweeps)
    /\ WF_listenerVars(listener = "closed" /\ AcceptFails)
    /\ WF_listenerVars(Backoff) /\ WF_listenerVars(Unwind) /\ WF_listenerVars(ServeSweeps) /\ WF_listenerVars(ServeReturns)
    /\ \A c \in Conns : /\ WF_listenerVars(Dispose(c))
                        /\ WF_listenerVars(sock[c] = "closed" /\ HandleReturns(c))
                        /\ WF_listenerVars(HandlerUnwinds(c))

-----------------------------------------------------------------------------
(* Types of the variables of Serve and its goroutines.                     *)
ListenerTypes ==
    /\ serveCtx \in {"live", "done"}
    /\ listener \in {"open", "closed"}
    /\ loop \in {"accept", "select", "register", "spawn", "backoff", "unwind", "sweep", "wait", "returned"}
    /\ stopper \in {"select", "sweep", "exit"}
    /\ pc \in [Conns -> {"new", "select", "refused", "register", "spawn", "handle", "close",
                         "remove", "count", "token", "waitDone", "done"}]
    /\ sock \in [Conns -> {"new", "open", "closed"}]
    /\ connections \subseteq Conns
    /\ tokens \in Nat /\ active \in Nat /\ wait \in Nat

\* The tokens channel, the active gauge and the wait group each count exactly
\* the handlers between their two ends, so a finished connection never leaks
\* capacity and no more than MaxConnections handlers exist at once.
CountersExact ==
    /\ tokens = Cardinality(Tokened) /\ tokens <= MaxConnections
    /\ active = Cardinality(Active)
    /\ wait = Cardinality(Waited)

\* When Serve returns, the listener is closed, every connection it accepted is
\* closed, none is still registered and no handler runs.
ReturnsClean ==
    loop = "returned" =>
        /\ listener = "closed" /\ connections = {} /\ tokens = 0 /\ active = 0
        /\ \A c \in Conns : pc[c] \in {"new", "refused", "done"} /\ sock[c] \in {"new", "closed"}

\* An open connection is always in somebody's hands: the loop is about to
\* dispose of it, or it is registered, so that a closeActive can reach it.
OpenIsReachable ==
    \A c \in Conns : sock[c] = "open" =>
        c \in connections \/ (pc[c] \in {"select", "register"} /\ loop = pc[c])

\* Once the context is done Serve returns, whatever it was doing and however
\* many clients stay connected: a connection registered after the closing
\* goroutine swept is caught by the deferred closeActive.
ServeStops == serveCtx = "done" ~> loop = "returned"

\* Serve loses neither a connection nor a unit of its capacity, while it runs and
\* when it returns.
NothingEscapes == CountersExact /\ OpenIsReachable /\ ReturnsClean
=============================================================================
