----------------------------- MODULE Admission -----------------------------
(***************************************************************************)
(* Service.acquire and the release function it returns                     *)
(* (internal/gateway/gateway.go): the admission channel that bounds the    *)
(* upstream leases, the queue channel that bounds the waiting requests,    *)
(* and the atomic counters queuedBytes and waiting.  Every channel         *)
(* operation and every atomic addition is a step of its own, so requests   *)
(* of different client goroutines interleave between any two of them.      *)
(***************************************************************************)
EXTENDS Integers, FiniteSets

CONSTANTS Requests,     \* calls of acquire, each made by a client goroutine
          MaxUpstream,  \* capacity of the admission channel
          MaxQueued,    \* capacity of the queue channel
          MaxBytes,     \* limits.max_queued_bytes
          Bytes         \* Bytes[r]: the requestBytes argument of r (0 for a pin)

ASSUME AdmissionAssumption ==
    /\ IsFiniteSet(Requests)
    /\ MaxUpstream \in Nat \ {0}
    /\ MaxQueued \in Nat \ {0}
    /\ MaxBytes \in Nat
    /\ Bytes \in [Requests -> Nat]

VARIABLES pc,           \* where each call of acquire stands
          granted,      \* the requests whose send on the admission channel succeeded
          admission,    \* number of tokens in the admission channel
          queue,        \* number of tokens in the queue channel
          queuedBytes, waiting

vars == <<pc, granted, admission, queue, queuedBytes, waiting>>

Labels == {"idle", "enqueue", "charge", "refund", "count", "wait", "uncount",
           "discharge", "leave", "held", "failed"}

At(S) == {r \in Requests : pc[r] \in S}

\* Requests that own a token of the queue channel, that have added their bytes
\* to queuedBytes, that were accepted as waiters, and that count as waiting.
Queued   == At({"charge", "refund", "count", "wait", "uncount", "discharge", "leave"})
Charged  == {r \in At({"refund", "count", "wait", "uncount", "discharge"}) : Bytes[r] > 0}
Accepted == At({"count", "wait", "uncount", "discharge"})
Waiters  == At({"wait", "uncount"})

\* The bytes of the requests of S together: one element of UnitsOf(S) per byte.
UnitsOf(S) == UNION {{r} \X (1..Bytes[r]) : r \in S}
BytesOf(S) == Cardinality(UnitsOf(S))

Init ==
    /\ pc = [r \in Requests |-> "idle"]
    /\ granted = {}
    /\ admission = 0
    /\ queue = 0
    /\ queuedBytes = 0
    /\ waiting = 0

Goto(r, from, to) == pc[r] = from /\ pc' = [pc EXCEPT ![r] = to]

\* A definition Mut... is a mutated form of the one after it, with one plausible
\* slip; it is used nowhere else, and shows that a property can fail.

MutSendAdmission(r) ==
    /\ admission <= MaxUpstream
    /\ admission' = admission + 1
    /\ granted' = granted \cup {r}
SendAdmission(r) ==
    /\ admission < MaxUpstream
    /\ admission' = admission + 1
    /\ granted' = granted \cup {r}

\* The non-blocking send at the head of acquire, and the size test behind it.
TryAdmission(r) ==
    /\ \/ Goto(r, "idle", "held") /\ SendAdmission(r)
       \/ /\ admission >= MaxUpstream
          /\ Goto(r, "idle", IF Bytes[r] > MaxBytes THEN "failed" ELSE "enqueue")
          /\ UNCHANGED <<granted, admission>>
    /\ UNCHANGED <<queue, queuedBytes, waiting>>

\* The non-blocking send on the queue channel.
MutEnqueue(r) ==
    /\ Goto(r, "enqueue", IF Bytes[r] > 0 THEN "charge" ELSE "count")
    /\ queue' = queue + 1
    /\ UNCHANGED <<granted, admission, queuedBytes, waiting>>
Enqueue(r) ==
    /\ \/ /\ queue < MaxQueued
          /\ Goto(r, "enqueue", IF Bytes[r] > 0 THEN "charge" ELSE "count")
          /\ queue' = queue + 1
       \/ queue >= MaxQueued /\ Goto(r, "enqueue", "failed") /\ UNCHANGED queue
    /\ UNCHANGED <<granted, admission, queuedBytes, waiting>>

\* queuedBytes.Add returns the new total, which decides.
MutCharge(r) ==
    /\ queuedBytes' = queuedBytes + Bytes[r]
    /\ Goto(r, "charge", IF queuedBytes > MaxBytes THEN "refund" ELSE "count")
    /\ UNCHANGED <<granted, admission, queue, waiting>>
Charge(r) ==
    /\ queuedBytes' = queuedBytes + Bytes[r]
    /\ Goto(r, "charge", IF queuedBytes' > MaxBytes THEN "refund" ELSE "count")
    /\ UNCHANGED <<granted, admission, queue, waiting>>

MutRefund(r) ==
    /\ Goto(r, "refund", "failed")
    /\ queuedBytes' = queuedBytes - Bytes[r]
    /\ UNCHANGED <<granted, admission, queue, waiting>>
Refund(r) ==
    /\ Goto(r, "refund", "leave")
    /\ queuedBytes' = queuedBytes - Bytes[r]
    /\ UNCHANGED <<granted, admission, queue, waiting>>

Count(r) ==
    /\ Goto(r, "count", "wait")
    /\ waiting' = waiting + 1
    /\ UNCHANGED <<granted, admission, queue, queuedBytes>>

\* The blocking select: the channel send or ctx.Done, whichever is ready, and
\* either one when both are.
Grant(r) ==
    /\ Goto(r, "wait", "uncount")
    /\ SendAdmission(r)
    /\ UNCHANGED <<queue, queuedBytes, waiting>>

MutExpire(r) == FALSE
Expire(r) ==
    /\ Goto(r, "wait", "uncount")
    /\ UNCHANGED <<granted, admission, queue, queuedBytes, waiting>>

\* The deferred function runs after the outcome is decided.
Uncount(r) ==
    /\ Goto(r, "uncount", "discharge")
    /\ waiting' = waiting - 1
    /\ UNCHANGED <<granted, admission, queue, queuedBytes>>

MutDischarge(r) ==
    /\ Goto(r, "discharge", "leave")
    /\ UNCHANGED <<granted, admission, queue, queuedBytes, waiting>>
Discharge(r) ==
    /\ Goto(r, "discharge", "leave")
    /\ queuedBytes' = queuedBytes - Bytes[r]
    /\ UNCHANGED <<granted, admission, queue, waiting>>

\* The receive from the queue channel, on the rejecting path and in the
\* deferred function; acquire then returns.
LeaveQueue(r) ==
    /\ Goto(r, "leave", IF r \in granted THEN "held" ELSE "failed")
    /\ queue' = queue - 1
    /\ UNCHANGED <<granted, admission, queuedBytes, waiting>>

\* The release function, called when the statement, pin or checkout is over.
MutRelease(r) ==
    /\ Goto(r, "held", "idle")
    /\ granted' = granted \ {r}
    /\ UNCHANGED <<admission, queue, queuedBytes, waiting>>
Release(r) ==
    /\ Goto(r, "held", "idle")
    /\ admission' = admission - 1
    /\ granted' = granted \ {r}
    /\ UNCHANGED <<queue, queuedBytes, waiting>>

\* errQueueFull or ctx.Err() goes back to the client, which may ask again.
Answer(r) ==
    /\ Goto(r, "failed", "idle")
    /\ UNCHANGED <<granted, admission, queue, queuedBytes, waiting>>

\* A step acquire takes by itself, without the environment's help.
Step(r) == \/ Enqueue(r) \/ Charge(r) \/ Refund(r) \/ Count(r)
           \/ Uncount(r) \/ Discharge(r) \/ LeaveQueue(r)

Next == \E r \in Requests :
    \/ TryAdmission(r) \/ Step(r) \/ Grant(r) \/ Expire(r)
    \/ Release(r) \/ Answer(r)

Spec == Init /\ [][Next]_vars

\* Goroutines are scheduled, and the context of every caller carries a deadline
\* (gateway.go:451, prepared.go:112), so a wait that is not served expires.
\* Nothing is assumed about the order in which waiters are served, or about
\* holders giving their lease back.
FairSpec == Spec /\ \A r \in Requests : WF_vars(Step(r)) /\ WF_vars(Expire(r))
-----------------------------------------------------------------------------
TypeOK ==
    /\ pc \in [Requests -> Labels]
    /\ granted \subseteq Requests
    /\ admission \in 0..MaxUpstream
    /\ queue \in 0..MaxQueued
    /\ queuedBytes \in Int
    /\ waiting \in Int

\* Each lease in use is backed by exactly one token of the admission channel,
\* also while its owner still runs the deferred part of acquire: a token is
\* neither lost when a grant races an expiring deadline nor released twice.
LeasesBacked ==
    /\ admission = Cardinality(granted)
    /\ At({"held"}) \subseteq granted
    /\ granted \subseteq At({"held", "uncount", "discharge", "leave"})

\* The queue channel and the waiting gauge count exactly the requests that are
\* queued and waiting, whatever path a request leaves by.
QueueExact == queue = Cardinality(Queued) /\ waiting = Cardinality(Waiters)

\* queuedBytes is exactly what the queued requests have charged: a rejected, a
\* served and an expired request each take back what they added, once.
BytesAccounted == queuedBytes = BytesOf(Charged)

\* The requests accepted as waiters never hold more than max_queued_bytes
\* together, although queuedBytes itself may overshoot between the addition and
\* the refund of a request that is being rejected.
AcceptedBytesBounded == BytesOf(Accepted) <= MaxBytes

\* Every call of acquire that has to queue comes back, with a lease or with an
\* error, even if no lease is ever returned.
AcquireReturns == \A r \in Requests :
    pc[r] = "enqueue" ~> pc[r] \in {"held", "failed"}

Pool == INSTANCE LeasePool WITH leases <- granted, waiters <- Queued

\* acquire implements the abstract pool of leases.
ImplementsLeasePool == Pool!PoolSpec
=============================================================================
