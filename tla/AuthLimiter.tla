---------------------------- MODULE AuthLimiter ----------------------------
(***************************************************************************)
(* authLimiter (internal/gateway/auth_limit.go): the table of failed       *)
(* authentications per host.  Each method holds the mutex, so it is one    *)
(* step; what lies between allowed and failure or success is not (module   *)
(* Handshake).  Time is a counter of clock ticks; 0 is the zero time.      *)
(***************************************************************************)
EXTENDS Integers, FiniteSets, Functions

CONSTANTS Hosts,
          MaxFailures, Window, Lockout, MaxEntries,  \* the fields of authLimiter
          MaxTime                                    \* bound on the clock

\* newAuthLimiter uses one minute for both durations.
ASSUME LimiterAssumption ==
    /\ MaxFailures \in Nat \ {0} /\ MaxEntries \in Nat \ {0}
    /\ Window \in Nat \ {0} /\ Lockout \in Nat /\ Lockout >= Window
    /\ MaxTime \in Nat \ {0}

VARIABLES attempts,  \* a function on the hosts that have an entry
          now,
          lastFailure  \* history: when each host last failed, 0 if never
limiter == <<attempts, now, lastFailure>>

LimiterInit == attempts = [h \in {} |-> 0] /\ now = 1 /\ lastFailure = [h \in Hosts |-> 0]

Tick ==
    /\ now < MaxTime /\ now' = now + 1
    /\ UNCHANGED <<attempts, lastFailure>>

Known(h) == h \in DOMAIN attempts
Put(h, a) == [k \in DOMAIN attempts \cup {h} |-> IF k = h THEN a ELSE attempts[k]]
Without(S) == Restrict(attempts, DOMAIN attempts \ S)
Blocked(h) == Known(h) /\ attempts[h].blockedUntil # 0 /\ now < attempts[h].blockedUntil
WindowOver(h) == now - attempts[h].windowStart >= Window

\* allowed, by its result.
MutRefusedWindow(h) ==
    /\ Blocked(h)
    /\ attempts' = [attempts EXCEPT ![h].lastSeen = now, ![h].windowStart = now]
    /\ UNCHANGED <<now, lastFailure>>
Refused(h) ==
    /\ Blocked(h)
    /\ attempts' = [attempts EXCEPT ![h].lastSeen = now]
    /\ UNCHANGED <<now, lastFailure>>
Allowed(h) ==
    /\ ~Blocked(h)
    /\ attempts' = IF Known(h) /\ WindowOver(h) THEN Without({h}) ELSE attempts
    /\ UNCHANGED <<now, lastFailure>>

\* evictOldest: map order decides between entries seen at the same time.
Oldest == {k \in DOMAIN attempts : \A j \in DOMAIN attempts : attempts[k].lastSeen <= attempts[j].lastSeen}

MutFailed(h) ==
    IF Known(h) /\ ~WindowOver(h) THEN [attempts[h] EXCEPT !.failures = @ + 1, !.lastSeen = now]
    ELSE [failures |-> 0, windowStart |-> now, blockedUntil |-> 0, lastSeen |-> now]
Failed(h) ==
    LET fresh == [failures |-> 0, windowStart |-> now, blockedUntil |-> 0, lastSeen |-> now]
        old == IF ~Known(h) \/ WindowOver(h) THEN fresh ELSE attempts[h]
    IN [old EXCEPT !.failures = @ + 1, !.lastSeen = now,
                   !.blockedUntil = IF old.failures + 1 >= MaxFailures THEN now + Lockout ELSE @]
Failure(h) ==
    /\ IF ~Known(h) /\ Cardinality(DOMAIN attempts) >= MaxEntries
       THEN \E k \in Oldest : attempts' = Restrict(Put(h, Failed(h)), (DOMAIN attempts \ {k}) \cup {h})
       ELSE attempts' = Put(h, Failed(h))
    /\ lastFailure' = [lastFailure EXCEPT ![h] = now] /\ UNCHANGED now

Success(h) == attempts' = Without({h}) /\ UNCHANGED <<now, lastFailure>>

-----------------------------------------------------------------------------
(* The table never holds more than maxEntries hosts.                       *)
TableBounded == Cardinality(DOMAIN attempts) <= MaxEntries

\* A lockout ends at the latest Lockout after the host's last failure: trying
\* again while locked out does not extend it.
LockoutEnds ==
    \A h \in DOMAIN attempts : attempts[h].blockedUntil # 0 =>
        attempts[h].blockedUntil <= lastFailure[h] + Lockout

\* An entry at the limit is locked out, or so old that the next allowed or
\* failure drops it: the end of a lockout leaves no count behind that would lock
\* the host out again after a single wrong password.
NoStaleCount ==
    \A h \in DOMAIN attempts : attempts[h].failures >= MaxFailures => Blocked(h) \/ WindowOver(h)
=============================================================================
