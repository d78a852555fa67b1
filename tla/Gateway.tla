------------------------------ MODULE Gateway ------------------------------
(***************************************************************************)
(* The sessions of the pooled gateway together: they share the admission   *)
(* tokens (acquire) and the connections of the sql.DB behind them, which   *)
(* has as many as there are tokens.  A statement outside any transaction   *)
(* takes a token and a connection and gives both back, exec in one order   *)
(* and rows in the other; a pin (a transaction or a prepared handle) keeps *)
(* both until it ends, and its session may still run such statements next  *)
(* to it.  Session.tla has what happens on the connection, Admission.tla   *)
(* the inside of acquire, Checkout.tla that of checkout.                   *)
(***************************************************************************)
EXTENDS Naturals, FiniteSets

CONSTANTS Sessions, MaxUpstream, MaxQueued
ASSUME GatewayAssumption == IsFiniteSet(Sessions) /\ MaxUpstream \in Nat \ {0} /\ MaxQueued \in Nat

VARIABLES
    pc,        \* where the session's goroutine is
    want,      \* what it handles: exec, rows, pin, unpin
    pinned,    \* the sessions with a pinned connection
    client,    \* whether the client is still there
    admission, \* tokens taken
    queue,     \* places taken in the queue
    inUse      \* connections of the sql.DB in use
vars == <<pc, want, pinned, client, admission, queue, inUse>>

Stages == {"idle", "acquire", "queued", "granted", "checkout", "run", "close", "release", "reply", "end", "gone"}
\* The channels stay within their capacities and a session is at one stage.
TypeOK ==
    /\ pc \in [Sessions -> Stages] /\ want \in [Sessions -> {"none", "exec", "rows", "pin", "unpin"}]
    /\ pinned \subseteq Sessions /\ client \in [Sessions -> {"here", "left"}]
    /\ admission \in 0..MaxUpstream /\ queue \in 0..MaxQueued /\ inUse \in 0..MaxUpstream

Init ==
    /\ pc = [s \in Sessions |-> "idle"] /\ want = [s \in Sessions |-> "none"] /\ pinned = {}
    /\ client = [s \in Sessions |-> "here"] /\ admission = 0 /\ queue = 0 /\ inUse = 0

Goes(s, stage) == pc' = [pc EXCEPT ![s] = stage]

\* A command arrives at the session's loop.
Ask(s, w) ==
    /\ pc[s] = "idle" /\ client[s] = "here"
    /\ w = "pin" => s \notin pinned
    /\ w = "unpin" => s \in pinned
    /\ want' = [want EXCEPT ![s] = w]
    /\ Goes(s, IF w = "unpin" THEN "close" ELSE "acquire")
    /\ pinned' = IF w = "unpin" THEN pinned \ {s} ELSE pinned
    /\ UNCHANGED <<client, admission, queue, inUse>>

\* A mutated form: the queue takes one too many.
MutAcquire(s) ==
    /\ pc[s] = "acquire"
    /\ IF admission < MaxUpstream
       THEN admission' = admission + 1 /\ Goes(s, "checkout") /\ UNCHANGED queue
       ELSE queue <= MaxQueued /\ queue' = queue + 1 /\ Goes(s, "queued") /\ UNCHANGED admission
    /\ UNCHANGED <<want, pinned, client, inUse>>
\* acquire: a token at once, a place in the queue, or errQueueFull, which a
\* statement (a pin asks with no bytes) also gets for the bytes that are queued.
Acquire(s) ==
    /\ pc[s] = "acquire"
    /\ \/ /\ admission < MaxUpstream /\ admission' = admission + 1 /\ Goes(s, "checkout")
          /\ UNCHANGED queue
       \/ /\ admission = MaxUpstream /\ queue < MaxQueued /\ queue' = queue + 1 /\ Goes(s, "queued")
          /\ UNCHANGED admission
       \/ /\ admission = MaxUpstream /\ (queue = MaxQueued \/ want[s] # "pin") /\ Goes(s, "reply")
          /\ UNCHANGED <<admission, queue>>
    /\ UNCHANGED <<want, pinned, client, inUse>>
\* A mutated form: the waiter does not wait for a token.
MutGranted(s) ==
    /\ pc[s] = "queued" /\ admission' = admission + 1 /\ Goes(s, "granted")
    /\ UNCHANGED <<want, pinned, client, queue, inUse>>
Granted(s) ==
    /\ pc[s] = "queued" /\ admission < MaxUpstream
    /\ admission' = admission + 1 /\ Goes(s, "granted")
    /\ UNCHANGED <<want, pinned, client, queue, inUse>>
LeaveQueue(s) ==
    /\ pc[s] = "granted" /\ queue' = queue - 1 /\ Goes(s, "checkout")
    /\ UNCHANGED <<want, pinned, client, admission, inUse>>
\* A mutated form: a request that gave up keeps its place.
MutQueueDeadline(s) ==
    /\ pc[s] = "queued" /\ Goes(s, "reply")
    /\ UNCHANGED <<want, pinned, client, admission, queue, inUse>>
\* A mutated form: the context of a session with a pin has no deadline.
MutQueueDeadlinePinned(s) ==
    /\ pc[s] = "queued" /\ s \notin pinned /\ queue' = queue - 1 /\ Goes(s, "reply")
    /\ UNCHANGED <<want, pinned, client, admission, inUse>>
QueueDeadline(s) ==
    /\ pc[s] = "queued" /\ queue' = queue - 1 /\ Goes(s, "reply")
    /\ UNCHANGED <<want, pinned, client, admission, inUse>>

\* database.Conn waits while all connections are in use; the connection may also
\* fail its reset, or the deadline pass.
Checkout(s) ==
    /\ pc[s] = "checkout" /\ inUse < MaxUpstream
    /\ inUse' = inUse + 1 /\ Goes(s, "run")
    /\ UNCHANGED <<want, pinned, client, admission, queue>>
CheckoutFails(s) ==
    /\ pc[s] = "checkout" /\ admission' = admission - 1 /\ Goes(s, "reply")
    /\ UNCHANGED <<want, pinned, client, queue, inUse>>

\* The deferred calls of rows give the token back first, those of exec the connection.
First(w) == IF w = "rows" THEN "release" ELSE "close"
AfterClose(w) == IF w = "rows" THEN "reply" ELSE "release"
AfterRelease(w) == IF w = "rows" THEN "close" ELSE "reply"
Run(s) ==
    /\ pc[s] = "run"
    /\ \/ want[s] = "pin" /\ pinned' = pinned \cup {s} /\ Goes(s, "reply")
       \/ Goes(s, First(want[s])) /\ UNCHANGED pinned
    /\ UNCHANGED <<want, client, admission, queue, inUse>>
CloseConnection(s) ==
    /\ pc[s] = "close" /\ inUse' = inUse - 1 /\ Goes(s, AfterClose(want[s]))
    /\ UNCHANGED <<want, pinned, client, admission, queue>>
ReleaseToken(s) ==
    /\ pc[s] = "release" /\ admission' = admission - 1 /\ Goes(s, AfterRelease(want[s]))
    /\ UNCHANGED <<want, pinned, client, queue, inUse>>
Reply(s) ==
    /\ pc[s] = "reply" /\ Goes(s, "idle") /\ want' = [want EXCEPT ![s] = "none"]
    /\ UNCHANGED <<pinned, client, admission, queue, inUse>>

\* The client goes away; only the loop's next read notices.  clientSession.close
\* discards the pinned connection and then gives its token back.
Leave(s) ==
    /\ client[s] = "here" /\ pc[s] # "gone"
    /\ client' = [client EXCEPT ![s] = "left"]
    /\ UNCHANGED <<pc, want, pinned, admission, queue, inUse>>
End(s) ==
    /\ pc[s] = "idle" /\ client[s] # "here"
    /\ Goes(s, IF s \in pinned THEN "end" ELSE "gone")
    /\ inUse' = (IF s \in pinned THEN inUse - 1 ELSE inUse)
    /\ UNCHANGED <<want, pinned, client, admission, queue>>
Ended(s) ==
    /\ pc[s] = "end" /\ Goes(s, "gone") /\ admission' = admission - 1 /\ pinned' = pinned \ {s}
    /\ UNCHANGED <<want, client, queue, inUse>>

Work(s) == Acquire(s) \/ Granted(s) \/ LeaveQueue(s) \/ Run(s) \/ CloseConnection(s) \/ ReleaseToken(s)
             \/ Reply(s) \/ End(s) \/ Ended(s)
Next == \E s \in Sessions :
    \/ \E w \in {"exec", "rows", "pin", "unpin"} : Ask(s, w)
    \/ Acquire(s) \/ Granted(s) \/ LeaveQueue(s) \/ QueueDeadline(s) \/ Checkout(s) \/ CheckoutFails(s)
    \/ Run(s) \/ CloseConnection(s) \/ ReleaseToken(s) \/ Reply(s) \/ Leave(s) \/ End(s) \/ Ended(s)
Spec == Init /\ [][Next]_vars
\* Each goroutine goes on, a queued request has its deadline, and database/sql
\* hands a connection that is closed to a request that waits for one.
Fairness ==
    \A s \in Sessions : WF_vars(Work(s)) /\ WF_vars(QueueDeadline(s)) /\ SF_vars(Checkout(s))

-----------------------------------------------------------------------------
HoldsToken(s) == pc[s] \in {"granted", "checkout", "run"} \/ (pc[s] = "close" /\ want[s] # "rows") \/ pc[s] = "release"
HoldsConnection(s) == pc[s] \in {"run", "close"} \/ (pc[s] = "release" /\ want[s] = "rows")
KeepsConnection(s) == s \in pinned /\ pc[s] # "end"
Tokens      == {s \in Sessions : HoldsToken(s)}
Connections == {s \in Sessions : HoldsConnection(s)}
Kept        == {s \in Sessions : KeepsConnection(s)}
Queued      == {s \in Sessions : pc[s] \in {"queued", "granted"}}

\* Every token and every connection is held by a session that will give it back,
\* on every path of exec, rows, ensurePinnedConnection and close.
HoldingsExact ==
    /\ admission = Cardinality(Tokens) + Cardinality(pinned)
    /\ inUse = Cardinality(Connections) + Cardinality(Kept)
    /\ queue = Cardinality(Queued)

\* The sessions together keep the promise of the lease pool, a pin and a statement
\* of one session being two leases.
Requests == Sessions \X {"statement", "pin"}
Request(s) == <<s, IF want[s] \in {"pin", "unpin"} THEN "pin" ELSE "statement">>
Pool == INSTANCE LeasePool WITH
    leases <- {Request(s) : s \in Tokens} \cup {<<s, "pin">> : s \in pinned},
    waiters <- {Request(s) : s \in Queued}
\* The sessions together use acquire as the abstract pool allows: never more leases
\* than MaxUpstream, a lease only for a request, each given back once.
ImplementsLeasePool == Pool!PoolSpec

\* Every command is answered, even when sessions that hold a pin wait for each
\* other's tokens: the deadline ends that wait.  A request that has its token gets
\* its connection, though rows returns tokens before connections.
CommandsAnswered == \A s \in Sessions : pc[s] = "acquire" ~> pc[s] = "idle"
=============================================================================
