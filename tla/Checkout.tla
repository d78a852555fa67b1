------------------------------ MODULE Checkout ------------------------------
(***************************************************************************)
(* Service.checkout and resetConnection (internal/gateway/reset.go): how   *)
(* client sessions take physical connections from the database/sql pool    *)
(* and bring them back to the canonical baseline before use.  The pool and *)
(* the MySQL session behind each connection are external.  A connection    *)
(* slot is reused for a new physical connection after a discard.           *)
(***************************************************************************)
EXTENDS Integers, Sequences

CONSTANTS Callers,   \* client goroutines that call checkout
          Slots,     \* room for physical connections (SetMaxOpenConns)
          Volatile,  \* the settings a session may find changed
          HasDatabase \* baseline.Database is not empty

Settings == {"autocommit", "database", "names", "time_zone", "sql_mode", "isolation", "access"}
ASSUME CheckoutAssumption == Volatile \subseteq Settings /\ "nil" \notin Slots /\ HasDatabase \in BOOLEAN

\* The statements resetConnection sends, by the setting each restores.
MutCommands ==
    <<"autocommit", "rollback">> \o (IF HasDatabase THEN <<"database">> ELSE <<>>)
        \o <<"names", "time_zone", "sql_mode", "isolation", "access">>
Commands ==
    <<"rollback", "autocommit">> \o (IF HasDatabase THEN <<"database">> ELSE <<>>)
        \o <<"names", "time_zone", "sql_mode", "isolation", "access">>
\* verifyReset reads everything back but the read/write mode.
Verified == Settings \ {"access"}

VARIABLES phase,       \* next statement of each caller
          attempt, step,
          conn,     \* the slot each caller holds, or "nil"
          pool,     \* each slot: "none", "idle" or "used"
          changed,  \* each physical connection's settings that are off the baseline
          open,     \* whether a transaction is open on it
          warned,   \* whether its diagnostics area holds warnings
          suspect,  \* history: physical connections whose reset failed
          leaked    \* history: an abandoned transaction was committed

caller == <<phase, attempt, step, conn>>
link == <<changed, open, warned>>
checkoutVars == <<caller, pool, link, suspect, leaked>>

CheckoutInit ==
    /\ phase = [k \in Callers |-> "idle"]
    /\ attempt = [k \in Callers |-> 0] /\ step = [k \in Callers |-> 0]
    /\ conn = [k \in Callers |-> "nil"]
    /\ pool = [c \in Slots |-> "none"]
    /\ changed = [c \in Slots |-> {}]
    /\ open = [c \in Slots |-> "no"] /\ warned = [c \in Slots |-> "no"]
    /\ suspect = {} /\ leaked = "no"

Goto(k, from, to) == phase[k] = from /\ phase' = [phase EXCEPT ![k] = to]

Begin(k) ==
    /\ Goto(k, "idle", "get")
    /\ attempt' = [attempt EXCEPT ![k] = 1]
    /\ UNCHANGED <<step, conn, pool, link, suspect, leaked>>

-----------------------------------------------------------------------------
(* database.Conn: an idle connection, a new one (the server's defaults may *)
(* have moved since the baseline was captured), or an error after the wait *)
(* that the reset timeout bounds.                                          *)
GetIdle(k, c) ==
    /\ pool[c] = "idle" /\ Goto(k, "get", "reset")
    /\ pool' = [pool EXCEPT ![c] = "used"]
    /\ conn' = [conn EXCEPT ![k] = c] /\ step' = [step EXCEPT ![k] = 1]
    /\ UNCHANGED <<attempt, link, suspect, leaked>>
GetNew(k, c) ==
    /\ pool[c] = "none" /\ Goto(k, "get", "reset")
    /\ pool' = [pool EXCEPT ![c] = "used"]
    /\ conn' = [conn EXCEPT ![k] = c] /\ step' = [step EXCEPT ![k] = 1]
    /\ \E off \in SUBSET Volatile : changed' = [changed EXCEPT ![c] = off]
    /\ open' = [open EXCEPT ![c] = "no"] /\ warned' = [warned EXCEPT ![c] = "no"]
    /\ suspect' = suspect \ {c}
    /\ UNCHANGED <<attempt, leaked>>

\* The end of the loop body: another attempt, or the last error.
MutRetry(k) ==
    /\ phase' = [phase EXCEPT ![k] = IF attempt[k] < 2 THEN "get" ELSE "failed"]
    /\ UNCHANGED attempt
Retry(k) ==
    /\ phase' = [phase EXCEPT ![k] = IF attempt[k] < 2 THEN "get" ELSE "failed"]
    /\ attempt' = [attempt EXCEPT ![k] = @ + 1]
GetFails(k) ==
    /\ phase[k] = "get" /\ Retry(k)
    /\ UNCHANGED <<step, conn, pool, link, suspect, leaked>>

-----------------------------------------------------------------------------
(* resetConnection.  The server may run a command without effect, and a    *)
(* command may raise a warning, keep the old ones or clear them (servers   *)
(* differ).  From the second command on any warning fails the reset.       *)
Passes(k, c) == step[k] > 1 => warned'[c] = "no"

\* What a command does to the MySQL session.  Setting autocommit=1 commits a
\* transaction that is still open.
Effect(c, command) ==
    /\ changed' \in {[changed EXCEPT ![c] = @ \ {command}], changed}
    /\ open' = [open EXCEPT ![c] = IF command \in {"rollback", "autocommit"} THEN "no" ELSE @]
    /\ leaked' = IF command = "autocommit" /\ open[c] = "yes" THEN "yes" ELSE leaked
    /\ warned' \in {[warned EXCEPT ![c] = w] : w \in {"no", "yes"}}

ResetCommand(k) ==
    LET c == conn[k] IN
    /\ phase[k] = "reset" /\ step[k] <= Len(Commands)
    /\ Effect(c, Commands[step[k]])
    /\ phase' = [phase EXCEPT ![k] = IF Passes(k, c) THEN "reset" ELSE "discard"]
    /\ step' = [step EXCEPT ![k] = @ + 1]
    /\ UNCHANGED <<attempt, conn, pool, suspect>>

\* A command or a query fails, or the deadline of the attempt passes.  An unsafe
\* baseline fails in the same way, before the first command.
ResetError(k) ==
    /\ Goto(k, "reset", "discard")
    /\ UNCHANGED <<attempt, step, conn, pool, link, suspect, leaked>>

\* verifyReset, and the last look at the warnings.
VerifyReset(k) ==
    /\ step[k] > Len(Commands)
    /\ Goto(k, "reset", IF changed[conn[k]] \cap Verified = {} /\ warned[conn[k]] = "no"
                        THEN "held" ELSE "discard")
    /\ UNCHANGED <<attempt, step, conn, pool, link, suspect, leaked>>

\* discardConnection: the driver is told the connection is bad, so that Close
\* destroys it instead of returning it to the pool.
Discard(k) ==
    /\ phase[k] = "discard" /\ Retry(k)
    /\ pool' = [pool EXCEPT ![conn[k]] = "none"]
    /\ suspect' = suspect \cup {conn[k]}
    /\ conn' = [conn EXCEPT ![k] = "nil"]
    /\ UNCHANGED <<step, link, leaked>>

-----------------------------------------------------------------------------
(* The session uses the connection in any way, and closes it: back to the  *)
(* pool as it is, or gone if it broke.  A failed checkout is reported.     *)
Use(k) ==
    LET c == conn[k] IN
    /\ Goto(k, "held", "using")
    /\ \E off \in SUBSET Volatile : changed' = [changed EXCEPT ![c] = off]
    /\ \E o, w \in {"no", "yes"} : open' = [open EXCEPT ![c] = o] /\ warned' = [warned EXCEPT ![c] = w]
    /\ UNCHANGED <<attempt, step, conn, pool, suspect, leaked>>
GiveBack(k) ==
    /\ Goto(k, "using", "idle")
    /\ pool' \in {[pool EXCEPT ![conn[k]] = s] : s \in {"idle", "none"}}
    /\ conn' = [conn EXCEPT ![k] = "nil"]
    /\ UNCHANGED <<attempt, step, link, suspect, leaked>>
Report(k) ==
    /\ Goto(k, "failed", "idle")
    /\ UNCHANGED <<attempt, step, conn, pool, link, suspect, leaked>>

CheckoutStep(k) ==
    \/ \E c \in Slots : GetIdle(k, c) \/ GetNew(k, c)
    \/ GetFails(k) \/ ResetCommand(k) \/ ResetError(k) \/ VerifyReset(k) \/ Discard(k)

CheckoutNext == \E k \in Callers : Begin(k) \/ CheckoutStep(k) \/ Use(k) \/ GiveBack(k) \/ Report(k)

CheckoutSpec == CheckoutInit /\ [][CheckoutNext]_checkoutVars

\* A goroutine inside checkout keeps moving: every wait and every statement has
\* the deadline of its attempt.
CheckoutFairness == \A k \in Callers : WF_checkoutVars(CheckoutStep(k))

-----------------------------------------------------------------------------
(* Types of the variables of checkout and of the pool.                     *)
CheckoutTypes ==
    /\ phase \in [Callers -> {"idle", "get", "reset", "discard", "held", "using", "failed"}]
    /\ attempt \in [Callers -> 0..3] /\ step \in [Callers -> 0..(Len(Commands) + 1)]
    /\ conn \in [Callers -> Slots \cup {"nil"}]
    /\ pool \in [Slots -> {"none", "idle", "used"}]
    /\ changed \in [Slots -> SUBSET Settings]
    /\ open \in [Slots -> {"no", "yes"}] /\ warned \in [Slots -> {"no", "yes"}]
    /\ suspect \subseteq Slots /\ leaked \in {"no", "yes"}

\* A connection that checkout returns has every verified setting on the
\* baseline, no open transaction and no warnings, whatever its last user left
\* and whichever reset command had no effect.
HeldClean ==
    \A k \in Callers : phase[k] = "held" =>
        /\ changed[conn[k]] \cap Verified = {}
        /\ open[conn[k]] = "no" /\ warned[conn[k]] = "no"

\* No physical connection serves two sessions at once, and a connection in use
\* is not idle in the pool.
Exclusive ==
    \A k \in Callers : conn[k] # "nil" =>
        pool[conn[k]] = "used" /\ \A j \in Callers \ {k} : conn[j] # conn[k]

\* A connection whose reset failed is destroyed: it is never idle and never
\* returned by checkout.
FailedDestroyed ==
    \A c \in suspect : pool[c] = "none"

\* Work that a session abandoned in an open transaction is rolled back by the
\* reset, never committed by its SET autocommit=1.
NothingLeaked == leaked = "no"

\* checkout returns a connection or an error, at the latest after the second
\* attempt.
CheckoutReturns == \A k \in Callers : phase[k] = "get" ~> phase[k] \in {"held", "failed"}

\* What checkout hands out, and what becomes of what it does not: all of the above.
CheckoutSafe == HeldClean /\ Exclusive /\ FailedDestroyed /\ NothingLeaked
=============================================================================
