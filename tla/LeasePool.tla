----------------------------- MODULE LeasePool -----------------------------
(***************************************************************************)
(* What the gateway promises about upstream leases, without saying how:    *)
(* at most MaxUpstream requests hold a lease, at most MaxQueued requests   *)
(* stand in the waiting room, and a lease is only handed to a request that *)
(* asked for one.  Admission.tla is the code that keeps this promise.      *)
(***************************************************************************)
EXTENDS Naturals, FiniteSets

CONSTANTS Requests,     \* every call of acquire that can be in progress
          MaxUpstream,  \* limits.max_upstream_connections
          MaxQueued     \* limits.max_queued_requests

VARIABLES leases,   \* the requests that own an upstream lease
          waiters   \* the requests inside the waiting room

poolVars == <<leases, waiters>>

PoolInit == leases = {} /\ waiters = {}

\* A request is served at once.
Lease(r) ==
    /\ r \notin leases \cup waiters
    /\ Cardinality(leases) < MaxUpstream
    /\ leases' = leases \cup {r}
    /\ UNCHANGED waiters

Join(r) ==
    /\ r \notin leases \cup waiters
    /\ Cardinality(waiters) < MaxQueued
    /\ waiters' = waiters \cup {r}
    /\ UNCHANGED leases

\* A waiter gets its lease before it has left the waiting room.
Serve(r) ==
    /\ r \in waiters \ leases
    /\ Cardinality(leases) < MaxUpstream
    /\ leases' = leases \cup {r}
    /\ UNCHANGED waiters

\* With or without a lease.
Quit(r) ==
    /\ r \in waiters
    /\ waiters' = waiters \ {r}
    /\ UNCHANGED leases

Return(r) ==
    /\ r \in leases \ waiters
    /\ leases' = leases \ {r}
    /\ UNCHANGED waiters

PoolNext == \E r \in Requests :
    Lease(r) \/ Join(r) \/ Serve(r) \/ Quit(r) \/ Return(r)

PoolSpec == PoolInit /\ [][PoolNext]_poolVars
=============================================================================
