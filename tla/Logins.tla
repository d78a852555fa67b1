------------------------------- MODULE Logins -------------------------------
(***************************************************************************)
(* The two ways into a process: the MySQL handshake of the pooled gateway  *)
(* with its limiter, and the login endpoint of the admin API with its own. *)
(* They share no state; each behaviour uses one of the two doors.          *)
(***************************************************************************)
EXTENDS Handshake

CONSTANTS Requests, Clients, MaxClients, MaxLoginFailures, Minute, Overflow, MaxLoginTime, MaxCount

ASSUME AdminAssumption ==
    /\ MaxClients \in Nat \ {0} /\ MaxLoginFailures \in Nat \ {0} /\ Minute \in Nat \ {0}
    /\ MaxLoginTime \in Nat \ {0} /\ MaxCount \in Nat /\ Overflow \notin Clients
    /\ IsFiniteSet(Requests)

VARIABLES door, failures, clock, req
admin == <<failures, clock, req>>

L == INSTANCE AdminLogin WITH
    MaxFailures <- MaxLoginFailures, MaxTime <- MaxLoginTime, now <- clock

LoginsInit ==
    /\ door \in {"mysql", "admin"} /\ L!Init
    /\ IF door = "mysql" THEN Init ELSE Init /\ scenario = CHOOSE n \in DOMAIN Scenarios : TRUE
LoginsNext ==
    \/ door = "mysql" /\ Next /\ UNCHANGED <<door, admin>>
    \/ door = "admin" /\ L!Next /\ UNCHANGED <<door, vars>>
loginVars == <<door, vars, admin>>

-----------------------------------------------------------------------------
(* Types of the admin API's table and requests (auth.go).                  *)
AdminTypes == L!TypeOK
\* failureKeyLocked keeps the table at maxLoginFailureClients clients and the entry
\* they share once it is full; within a minute a client records no more failures
\* than the limit and the requests it already had between rateLimited and
\* recordFailure; and no further failure moves the start of that minute.
LoginLimiterSound == L!LoginLimiterSound
=============================================================================
