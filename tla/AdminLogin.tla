----------------------------- MODULE AdminLogin -----------------------------
(***************************************************************************)
(* adminAuth (internal/control/auth.go): the login endpoint, its table of  *)
(* failed logins per client.  Requests run concurrently; each reads the    *)
(* clock before it takes the mutex, so a critical section may use an old   *)
(* time.                                                                   *)
(***************************************************************************)
EXTENDS Integers, FiniteSets, Functions

CONSTANTS Requests,   \* each stands for one request after another
          Clients,    \* remote hosts
          MaxClients, \* maxLoginFailureClients
          MaxFailures, Minute,
          Overflow,   \* the key "overflow"
          MaxTime, MaxCount  \* bounds on the clock and on the overflow entry's count

VARIABLES failures,  \* on the keys with an entry
          now,
          req        \* req[r]: where it is, its remoteHost, and the time it read last
vars == <<failures, now, req>>

Idle == [pc |-> "idle", client |-> Overflow, at |-> 0]
Init ==
    /\ failures = [k \in {} |-> 0] /\ now = 1
    /\ req = [r \in Requests |-> Idle]

Tick == now < MaxTime /\ now' = now + 1 /\ UNCHANGED <<failures, req>>

At(r, pc) == req[r].pc = pc
Goto(r, pc, at) == req' = [req EXCEPT ![r].pc = pc, ![r].at = at]
Finish(r) == req' = [req EXCEPT ![r] = Idle]

\* The zero loginFailures has a since in the distant past.
Entry(f, k) == IF k \in DOMAIN f THEN f[k] ELSE [count |-> 0, since |-> -Minute]
Put(f, k, e) == [j \in DOMAIN f \cup {k} |-> IF j = k THEN e ELSE f[j]]
Without(f, S) == Restrict(f, DOMAIN f \ S)

\* failureKeyLocked: what it leaves of the table, and the key it returns.
Swept(c, t) ==
    IF c \in DOMAIN failures \/ Cardinality(DOMAIN failures) < MaxClients - 1 THEN failures
    ELSE Without(failures, {k \in DOMAIN failures : t - failures[k].since >= Minute})
FailureKey(c, t) ==
    IF c \in DOMAIN failures \/ Cardinality(DOMAIN failures) < MaxClients - 1 THEN c
    ELSE IF Cardinality(DOMAIN Swept(c, t)) >= MaxClients THEN Overflow ELSE c

\* login reads the clock and calls rateLimited.
Arrive(r, c) ==
    /\ At(r, "idle") /\ req' = [req EXCEPT ![r] = [pc |-> "limit", client |-> c, at |-> now]]
    /\ UNCHANGED <<failures, now>>
RateLimited(r) ==
    LET t == req[r].at
        k == FailureKey(req[r].client, t)
        f == Swept(req[r].client, t)
        over == t - Entry(f, k).since >= Minute IN
    /\ At(r, "limit")
    /\ failures' = IF over THEN Without(f, {k}) ELSE f
    /\ IF ~over /\ Entry(f, k).count >= MaxFailures THEN Finish(r) ELSE Goto(r, "decode", 0)
    /\ UNCHANGED now

\* A body that does not decode is answered 400 and counts as nothing.
BadRequest(r) == At(r, "decode") /\ Finish(r) /\ UNCHANGED <<failures, now>>

\* A wrong token: the clock is read, and recordFailure called.
WrongToken(r) ==
    /\ Entry(failures, Overflow).count < MaxCount
    /\ At(r, "decode") /\ Goto(r, "record", now) /\ UNCHANGED <<failures, now>>
MutRecordFailure(r) ==
    LET k == FailureKey(req[r].client, req[r].at)
        f == Swept(req[r].client, req[r].at) IN
    /\ At(r, "record") /\ Finish(r)
    /\ failures' = Put(f, k, [count |-> Entry(f, k).count + 1, since |-> req[r].at])
    /\ UNCHANGED now
RecordFailure(r) ==
    LET t == req[r].at
        k == FailureKey(req[r].client, t)
        f == Swept(req[r].client, t)
        old == Entry(f, k) IN
    /\ At(r, "record") /\ Finish(r)
    /\ failures' = Put(f, k, IF t - old.since >= Minute THEN [count |-> 1, since |-> t]
                             ELSE [old EXCEPT !.count = @ + 1])
    /\ UNCHANGED now

\* The right token: clearFailures.  The signed cookie that follows is kept by
\* the client; the server remembers nothing of it.
RightToken(r) ==
    /\ At(r, "decode") /\ Finish(r)
    /\ failures' = Without(failures, {req[r].client})
    /\ UNCHANGED now

Next ==
    \/ Tick
    \/ \E r \in Requests :
          \/ \E c \in Clients : Arrive(r, c)
          \/ RateLimited(r) \/ BadRequest(r) \/ WrongToken(r) \/ RecordFailure(r)
          \/ RightToken(r)

Spec == Init /\ [][Next]_vars

-----------------------------------------------------------------------------
(* Types of the table and of the requests.                                 *)
TypeOK ==
    /\ DOMAIN failures \subseteq Clients \cup {Overflow} /\ now \in 1..MaxTime
    /\ \A k \in DOMAIN failures : failures[k].count \in Nat \ {0} /\ failures[k].since \in 1..now
    /\ req \in [Requests -> [pc : {"idle", "limit", "decode", "record"}, client : Clients \cup {Overflow}, at : 0..now]]

\* The table holds at most maxLoginFailureClients clients and the entry they
\* share once it is full, whoever records failures at the same time.
FailureTableBounded == Cardinality(DOMAIN failures) <= MaxClients + 1

\* Within a minute a client records no more failures than the limit and the
\* requests it already had between rateLimited and recordFailure.
LoginGuessesBounded ==
    \A c \in DOMAIN failures \ {Overflow} :
        failures[c].count + Cardinality({r \in Requests : req[r].client = c /\ req[r].pc \in {"decode", "record"}})
            <= MaxFailures - 1 + Cardinality(Requests)

\* A limit lasts no longer than a minute from the first failure it counts: a
\* further failure does not move its start.
LimitFromFirstFailure ==
    [][\A k \in DOMAIN failures \cap DOMAIN failures' :
          failures'[k].since # failures[k].since => failures'[k].count = 1]_vars

\* The limiter of the login endpoint: bounded in memory, in the failures it lets a
\* client add and in the time it limits it.
LoginLimiterSound == [](FailureTableBounded /\ LoginGuessesBounded) /\ LimitFromFirstFailure
=============================================================================
