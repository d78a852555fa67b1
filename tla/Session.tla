------------------------------ MODULE Session ------------------------------
(***************************************************************************)
(* One pooled client session (internal/gateway/gateway.go, prepared.go):   *)
(* the command loop of handleClient and every handler that changes the     *)
(* session, next to the MySQL server as the handlers see it.  A handler    *)
(* runs as a chain of stages, one per upstream call; the server may answer *)
(* each call with success, with an error, or by losing the connection.     *)
(*                                                                         *)
(* The session's own goroutine is sequential.  What races with it is the   *)
(* server (connections die, transactions are aborted) and the client       *)
(* (which may vanish before any reply).                                    *)
(***************************************************************************)
EXTENDS Naturals, Logical

CONSTANTS Conns,          \* *sql.Conn handles a checkout may return
          NilConn,        \* the nil pointer
          IdSpace,        \* 2^32 in the code: nextPreparedID is a uint32
          MaxPreparedID,  \* bound: no prepare once nextPreparedID reaches it
          TextKinds,      \* text statement kinds the client sends
          PreparedKinds,  \* statement kinds the client prepares
          MaxWrites       \* bound: number of writes the client issues

ASSUME SessionAssumption ==
    /\ NilConn \notin Conns
    /\ IdSpace \in Nat \ {0, 1}
    /\ MaxPreparedID \in Nat
    /\ MaxWrites \in Nat
    /\ TextKinds \subseteq {"begin", "commit", "rollback", "savepoint", "ddl", "write",
                            "read", "autocommit_off", "autocommit_on"}
    /\ PreparedKinds \subseteq {"read", "write", "ddl"}

Ids    == 1..(IdSpace - 1)
Writes == 1..MaxWrites
Kinds  == {"begin", "commit", "rollback", "savepoint", "ddl", "write", "read",
           "autocommit_off", "autocommit_on", "none"}
Stages == {"idle", "pin", "begin", "lease", "prepare", "reprepare", "exec", "warn",
           "commit", "rollback", "reply", "fail", "closed"}

VARIABLES
    state,             \* the logical record
    tx,                \* s.tx # nil
    pinnedConnection,
    prepared,          \* s.prepared: id -> preparedStatement
    nextPreparedID,
    slots, pinned,     \* admission tokens this session holds; the pinned gauge
    pc,                \* stage of the handler
    cmd,               \* the command being handled
    lease              \* the connection of a statement outside any transaction

VARIABLES
    dead,              \* handles whose upstream link is lost
    srvTx,             \* MySQL has a transaction open on the pinned connection
    pending,           \* the writes inside it
    committed          \* the writes that are durable

VARIABLES              \* history: what the client was told
    nextWrite,
    txWrites,          \* writes acknowledged inside the open transaction
    aborted,           \* the client was told that MySQL aborted the transaction
    promised,          \* acknowledged as durable
    undone,            \* acknowledged as rolled back
    failed             \* answered with an error

sessionVars == <<state, tx, pinnedConnection, prepared, nextPreparedID, slots, pinned>>
pinVars     == <<pinnedConnection, slots, pinned>>
serverVars  == <<dead, srvTx, pending, committed>>
toldVars    == <<promised, undone, failed>>
historyVars == <<nextWrite, txWrites, aborted, toldVars>>
vars == <<sessionVars, pc, cmd, lease, serverVars, historyVars>>

Command == [op : {"query", "prepare", "execute"}, kind : Kinds, id : Ids \cup {0},
            write : 0..MaxWrites, pin : {"existing", "created"},
            answer : {"ok", "error"}]
NoCommand == [op |-> "query", kind |-> "none", id |-> 0, write |-> 0,
              pin |-> "existing", answer |-> "ok"]

PreparedStatement == [kind : {"read", "write", "ddl"}, statement : Conns \cup {NilConn},
                      transactionBound : BOOLEAN]

NoHandles == [id \in {} |-> NilConn]

Init ==
    /\ state = NewLogical /\ tx = FALSE /\ pinnedConnection = NilConn
    /\ prepared = NoHandles /\ nextPreparedID = 0 /\ slots = 0 /\ pinned = 0
    /\ pc = "idle" /\ cmd = NoCommand /\ lease = NilConn
    /\ dead = {} /\ srvTx = FALSE /\ pending = {} /\ committed = {}
    /\ nextWrite = 1 /\ txWrites = {} /\ aborted = FALSE
    /\ promised = {} /\ undone = {} /\ failed = {}
-----------------------------------------------------------------------------
\* Shared steps.  A definition Mut... is a mutated form of the one after it, with
\* one plausible slip; it is used nowhere else, and shows that a property can
\* fail.

One(c) == IF c = NilConn THEN 0 ELSE 1

Reply(answer) == pc' = "reply" /\ cmd' = [cmd EXCEPT !.answer = answer]

\* pinnedRelease gives one admission token back.
MutPinnedToken == 0
PinnedToken == One(pinnedConnection)

\* releasePinnedConnection: Close or discard, then give the admission token
\* back.  Either way MySQL ends a transaction left open on the connection.
ReleasePinned ==
    /\ pinnedConnection' = NilConn
    /\ slots' = slots - PinnedToken
    /\ pinned' = pinned - One(pinnedConnection)
    /\ dead' = dead \ {pinnedConnection}
    /\ srvTx' = FALSE
    /\ pending' = {}

\* The upstream link of the pinned connection is lost: MySQL rolls back.
LosePinned ==
    /\ dead' = dead \cup {pinnedConnection}
    /\ srvTx' = FALSE
    /\ pending' = {}

\* invalidateTransactionPrepared
MutInvalidated == prepared
Invalidated == [i \in DOMAIN prepared |->
    IF prepared[i].transactionBound
    THEN [kind |-> prepared[i].kind, statement |-> NilConn, transactionBound |-> FALSE]
    ELSE prepared[i]]

\* finishTransaction, after COMMIT or ROLLBACK ended the transaction on the
\* server; lost holds the pinned connection if its link went with it.
FinishTransaction(lost) ==
    /\ tx' = FALSE
    /\ prepared' = Invalidated
    /\ IF state.Prepared = {}
       THEN ReleasePinned
       ELSE /\ UNCHANGED pinVars
            /\ dead' = dead \cup lost
            /\ srvTx' = FALSE
            /\ pending' = {}

\* The stage a prepared execution enters once its transaction is settled:
\* statementForExecution prepares again when the handle has no statement.
StatementStage(id, inTx) ==
    IF prepared[id].statement = NilConn \/ (prepared[id].transactionBound /\ ~inTx)
    THEN "reprepare" ELSE "exec"
-----------------------------------------------------------------------------
\* Commands, read by handleClient when the session is idle.

\* The stage of a transactional command: ensurePinnedConnection comes first,
\* unless the session already has a pinned connection.
PinThen(stage) == IF pinnedConnection = NilConn THEN "pin" ELSE stage

\* A command is classified and its handler enters stage; answer is the reply it
\* is heading for.  The client numbers its writes.
Receive(op, kind, id, stage, answer) ==
    /\ pc = "idle"
    /\ IF kind = "write" /\ op # "prepare"
       THEN /\ nextWrite <= MaxWrites
            /\ nextWrite' = nextWrite + 1
            /\ cmd' = [op |-> op, kind |-> kind, id |-> id, write |-> nextWrite,
                       pin |-> "existing", answer |-> answer]
       ELSE /\ nextWrite' = nextWrite
            /\ cmd' = [op |-> op, kind |-> kind, id |-> id, write |-> 0,
                       pin |-> "existing", answer |-> answer]
    /\ pc' = stage
    /\ UNCHANGED <<tx, pinVars, nextPreparedID, lease, serverVars, txWrites, aborted,
                   toldVars>>

RefusedIf(condition) == IF condition THEN "error" ELSE "ok"

QueryBegin ==
    /\ Receive("query", "begin", 0, IF tx THEN "reply" ELSE PinThen("begin"),
               RefusedIf(tx))
    /\ UNCHANGED <<state, prepared>>

\* COMMIT and ROLLBACK without a transaction are answered at once.
QueryEnd(kind) ==
    /\ kind \in {"commit", "rollback"}
    /\ Receive("query", kind, 0, IF tx THEN kind ELSE "reply", "ok")
    /\ UNCHANGED <<state, prepared>>

\* SAVEPOINT, RELEASE and ROLLBACK TO
QuerySavepoint ==
    /\ LET refused == ApplyFails(state, "savepoint") \/ ~tx
       IN  Receive("query", "savepoint", 0, IF refused THEN "reply" ELSE "exec",
                   RefusedIf(refused))
    /\ UNCHANGED <<state, prepared>>

QueryAutocommitOff ==
    /\ Receive("query", "autocommit_off", 0, "reply", "ok")
    /\ state' = Apply(state, "autocommit_off")
    /\ UNCHANGED prepared

QueryAutocommitOn ==
    /\ Receive("query", "autocommit_on", 0, IF tx THEN "commit" ELSE "reply", "ok")
    /\ state' = IF tx THEN state ELSE Apply(state, "autocommit_on")
    /\ UNCHANGED prepared

QueryDDL ==
    /\ Receive("query", "ddl", 0, IF tx THEN "reply" ELSE "lease", RefusedIf(tx))
    /\ UNCHANGED <<state, prepared>>

\* ensureImplicitTransaction, then exec or rows
MutDataStage == IF state.Autocommit THEN "lease"
                ELSE IF tx THEN "exec" ELSE PinThen("begin")
DataStage == IF tx THEN "exec"
             ELSE IF state.Autocommit THEN "lease" ELSE PinThen("begin")

QueryData(kind) ==
    /\ kind \in {"write", "read"}
    /\ Receive("query", kind, 0, DataStage, "ok")
    /\ UNCHANGED <<state, prepared>>

\* COM_PING, COM_INIT_DB, SET NAMES, USE, SHOW COUNT(*) WARNINGS and everything
\* that is refused: answered without touching the session.
Stateless(answer) ==
    /\ Receive("query", "none", 0, "reply", answer)
    /\ UNCHANGED <<state, prepared>>

Query(kind) ==
    \/ kind = "begin" /\ QueryBegin
    \/ QueryEnd(kind)
    \/ kind = "savepoint" /\ QuerySavepoint
    \/ kind = "autocommit_off" /\ QueryAutocommitOff
    \/ kind = "autocommit_on" /\ QueryAutocommitOn
    \/ kind = "ddl" /\ QueryDDL
    \/ QueryData(kind)

PrepareCommand(kind) ==
    /\ nextPreparedID < MaxPreparedID
    /\ LET refused == kind = "ddl" /\ tx
       IN  /\ Receive("prepare", kind, 0,
                      IF refused THEN "reply" ELSE PinThen("prepare"),
                      RefusedIf(refused))
           /\ UNCHANGED <<state, prepared>>

\* executePrepared: an unknown handle, a cursor request, oversized long data and
\* malformed arguments are refused; otherwise ensureImplicitTransaction, then
\* statementForExecution.
ExecuteCommand(id, wellFormed) ==
    /\ IF id \in DOMAIN prepared /\ wellFormed
       THEN Receive("execute", prepared[id].kind, id,
                    IF ~state.Autocommit /\ ~tx THEN PinThen("begin")
                    ELSE StatementStage(id, tx), "ok")
       ELSE Receive("execute", "none", id, "reply", "error")
    /\ UNCHANGED <<state, prepared>>

\* closePrepared releases the connection with the last handle.
MutLastUse(id) == DOMAIN prepared = {id}
LastUse(id) == DOMAIN prepared = {id} /\ ~tx

\* closePrepared: COM_STMT_CLOSE has no reply.
ClosePrepared(id) ==
    /\ pc = "idle"
    /\ id \in DOMAIN prepared
    /\ prepared' = [i \in DOMAIN prepared \ {id} |-> prepared[i]]
    /\ state' = RemovePrepared(state, id)
    /\ IF LastUse(id)
       THEN ReleasePinned
       ELSE UNCHANGED <<pinVars, dead, srvTx, pending>>
    /\ UNCHANGED <<tx, nextPreparedID, pc, cmd, lease, committed, historyVars>>
-----------------------------------------------------------------------------
\* Handler stages.

\* ensurePinnedConnection: acquire and checkout.
Pin ==
    /\ pc = "pin"
    /\ \/ /\ pinnedConnection' \in Conns
          /\ slots' = slots + 1
          /\ pinned' = pinned + 1
          /\ cmd' = [cmd EXCEPT !.pin = "created"]
          /\ pc' = IF cmd.op = "prepare" THEN "prepare" ELSE "begin"
       \/ Reply("error") /\ UNCHANGED pinVars
    /\ UNCHANGED <<state, tx, prepared, nextPreparedID, lease, serverVars, historyVars>>

\* begin, after BeginTx succeeded and Apply accepted the transition
BeginOK ==
    /\ pc = "begin"
    /\ pinnedConnection \notin dead
    /\ ~ApplyFails(state, "begin")
    /\ tx' = TRUE
    /\ state' = Apply(state, "begin")
    /\ srvTx' = TRUE
    /\ aborted' = FALSE
    /\ pc' = CASE cmd.op = "execute" -> StatementStage(cmd.id, TRUE)
               [] cmd.op = "query" /\ cmd.kind = "begin" -> "reply"
               [] OTHER -> "exec"
    /\ UNCHANGED <<pinVars, prepared, nextPreparedID, cmd, lease, dead, pending, committed,
                   nextWrite, txWrites, toldVars>>

MutCreatedHere == FALSE
CreatedHere == cmd.pin = "created"

\* begin, when BeginTx fails, or when Apply refuses and the new transaction is
\* rolled back: a connection pinned by this call is released.
BeginFail ==
    /\ pc = "begin"
    /\ Reply("error")
    /\ IF CreatedHere
       THEN ReleasePinned
       ELSE /\ \/ UNCHANGED <<dead, srvTx, pending>>
               \/ LosePinned
            /\ UNCHANGED pinVars
    /\ UNCHANGED <<state, tx, prepared, nextPreparedID, lease, committed, historyVars>>

\* prepareOnCurrentConnection succeeded; the identifier is a uint32 that skips 0.
NextID == IF nextPreparedID + 1 = IdSpace THEN 1 ELSE nextPreparedID + 1

PrepareOK ==
    /\ pc = "prepare"
    /\ pinnedConnection \notin dead
    /\ nextPreparedID' = NextID
    /\ IF NextID \in state.Prepared
       THEN /\ prepared' = [i \in DOMAIN prepared \ {NextID} |-> prepared[i]]
            /\ UNCHANGED state
            /\ Reply("error")
       ELSE /\ prepared' = [i \in DOMAIN prepared \cup {NextID} |->
                  IF i = NextID
                  THEN [kind |-> cmd.kind, statement |-> pinnedConnection,
                        transactionBound |-> tx]
                  ELSE prepared[i]]
            /\ state' = AddPrepared(state, NextID)
            /\ Reply("ok")
    /\ UNCHANGED <<tx, pinVars, lease, serverVars, historyVars>>

MutPinUnused == state.Prepared = {}
PinUnused == state.Prepared = {} /\ ~tx

PrepareFail ==
    /\ pc = "prepare"
    /\ Reply("error")
    /\ IF PinUnused
       THEN ReleasePinned
       ELSE /\ \/ UNCHANGED <<dead, srvTx, pending>>
               \/ LosePinned
            /\ UNCHANGED pinVars
    /\ UNCHANGED <<state, tx, prepared, nextPreparedID, lease, committed, historyVars>>

\* statementForExecution, when the handle has to be prepared again
Reprepare ==
    /\ pc = "reprepare"
    /\ \/ /\ pinnedConnection \notin dead
          /\ prepared' = [prepared EXCEPT ![cmd.id].statement = pinnedConnection,
                                          ![cmd.id].transactionBound = tx]
          /\ pc' = "exec"
          /\ UNCHANGED <<cmd, dead, srvTx, pending>>
       \/ /\ Reply("error")
          /\ \/ UNCHANGED <<dead, srvTx, pending>>
             \/ LosePinned
          /\ UNCHANGED prepared
    /\ UNCHANGED <<state, tx, pinVars, nextPreparedID, lease, committed, historyVars>>

\* exec and rows outside a transaction: acquire and checkout of a connection for
\* this one statement, kept until the reply is written.
Lease ==
    /\ pc = "lease"
    /\ \/ /\ lease' \in Conns \ {pinnedConnection}
          /\ slots' = slots + 1
          /\ pc' = "exec"
          /\ UNCHANGED cmd
       \/ Reply("error") /\ UNCHANGED <<lease, slots>>
    /\ UNCHANGED <<state, tx, pinnedConnection, pinned, prepared, nextPreparedID,
                   serverVars, historyVars>>

\* One executor stands for exec and rows (text) and for execPrepared and
\* queryPrepared: rows reach the client before the warning count is read, which
\* no property tells apart.  Target is the connection the statement runs on.
Target == IF lease # NilConn THEN lease ELSE pinnedConnection

\* MySQL: the statement runs inside the open transaction of the pinned
\* connection, and the writes that it makes durable by itself (an autocommitted
\* write; what an implicit commit covers).
InsideTx == lease = NilConn /\ srvTx
Durable  == CASE cmd.kind = "write" /\ ~InsideTx -> {cmd.write}
              [] cmd.kind = "ddl" /\ InsideTx    -> pending
              [] OTHER                           -> {}

\* ROLLBACK TO drops the latest writes.
PendingAfter ==
    CASE cmd.kind = "write" /\ InsideTx -> {pending \cup {cmd.write}}
      [] cmd.kind = "ddl" /\ InsideTx   -> {{}}
      [] cmd.kind = "savepoint"         -> {{w \in pending : w < n} : n \in 1..(MaxWrites + 1)}
      [] OTHER                          -> {pending}

ExecOK ==
    /\ pc = "exec"
    /\ Target \notin dead
    /\ committed' = committed \cup Durable
    /\ srvTx' = (srvTx /\ ~(cmd.kind = "ddl" /\ InsideTx))
    /\ pending' \in PendingAfter
    /\ pc' = "warn"
    /\ UNCHANGED <<sessionVars, cmd, lease, dead, historyVars>>

\* MySQL refuses the statement and nothing else happens.
ExecError ==
    /\ pc = "exec"
    /\ Reply("error")
    /\ UNCHANGED <<sessionVars, lease, serverVars, historyVars>>

\* MySQL aborts the transaction (deadlock victim, lock wait timeout with
\* innodb_rollback_on_timeout) and says so.
ExecAbort ==
    /\ pc = "exec"
    /\ InsideTx
    /\ Reply("error")
    /\ srvTx' = FALSE
    /\ pending' = {}
    /\ aborted' = TRUE
    /\ txWrites' = {}
    /\ UNCHANGED <<sessionVars, lease, dead, committed, nextWrite, toldVars>>

LoseTarget ==
    /\ dead' = dead \cup {Target}
    /\ srvTx' = (srvTx /\ lease # NilConn)
    /\ pending' = IF lease # NilConn THEN pending ELSE {}

\* The link is lost, or the deadline closes it, while the statement runs: it may
\* have taken effect or not.
ExecLost ==
    /\ pc = "exec"
    /\ Target \notin dead
    /\ Reply("error")
    /\ LoseTarget
    /\ committed' \in {committed, committed \cup Durable}
    /\ UNCHANGED <<sessionVars, lease, historyVars>>

\* readWarningCount: a second round trip before the answer.
Warn ==
    /\ pc = "warn"
    /\ \/ Target \notin dead /\ Reply("ok") /\ UNCHANGED <<dead, srvTx, pending>>
       \/ Reply("error") /\ UNCHANGED <<dead, srvTx, pending>>
       \/ Reply("error") /\ LoseTarget
    /\ UNCHANGED <<sessionVars, lease, committed, historyVars>>

MutUpstreamConfirms == TRUE
UpstreamConfirms == pinnedConnection \notin dead

\* commit, and SET AUTOCOMMIT=1 inside a transaction
CommitOK ==
    /\ pc = "commit"
    /\ UpstreamConfirms
    /\ committed' = committed \cup pending
    /\ FinishTransaction({})
    /\ state' = Apply(state, cmd.kind)
    /\ Reply("ok")
    /\ UNCHANGED <<nextPreparedID, lease, historyVars>>

\* tx.Commit failed: the outcome is unknown, the session is poisoned and the
\* handler returns the error, which ends the client connection.
CommitFail ==
    /\ pc = "commit"
    /\ committed' \in {committed, committed \cup pending}
    /\ \E lost \in {{}, {pinnedConnection}} : FinishTransaction(lost)
    /\ state' = Poison(state)
    /\ pc' = "fail"
    /\ UNCHANGED <<nextPreparedID, cmd, lease, historyVars>>

RollbackOK ==
    /\ pc = "rollback"
    /\ pinnedConnection \notin dead
    /\ FinishTransaction({})
    /\ state' = Apply(state, "rollback")
    /\ Reply("ok")
    /\ UNCHANGED <<nextPreparedID, lease, committed, historyVars>>

\* tx.Rollback failed with the link: the error is answered and the session goes
\* on, poisoned, with InTransaction as it was.
RollbackFail ==
    /\ pc = "rollback"
    /\ FinishTransaction({pinnedConnection})
    /\ state' = Poison(state)
    /\ Reply("error")
    /\ UNCHANGED <<nextPreparedID, lease, committed, historyVars>>
-----------------------------------------------------------------------------
\* What the client learns from the reply (an error tells it nothing about a
\* ROLLBACK TO).  A write inside a transaction counts as part of it unless MySQL
\* aborted the transaction and autocommit is on, where the next write of a
\* direct connection would be autocommitted too.
Told ==
    /\ promised' = promised \cup
           CASE cmd.answer = "ok" /\ cmd.write # 0 /\ ~tx -> {cmd.write}
             [] cmd.answer = "ok" /\ cmd.kind \in {"commit", "autocommit_on"} -> txWrites
             [] OTHER -> {}
    /\ undone' = undone \cup (IF cmd.answer = "ok" /\ cmd.kind = "rollback" THEN txWrites ELSE {})
    /\ failed' = failed \cup (IF cmd.answer = "error" /\ cmd.write # 0 THEN {cmd.write} ELSE {})
    /\ txWrites' = CASE cmd.answer = "ok" /\ cmd.write # 0 /\ tx /\ ~(aborted /\ state.Autocommit) ->
                            txWrites \cup {cmd.write}
                     [] cmd.kind = "savepoint" -> txWrites \cap (pending \cup committed)
                     [] cmd.kind \in {"commit", "autocommit_on", "rollback"} -> {}
                     [] OTHER -> txWrites

MutLeaseToken == 1
LeaseToken == One(lease)

\* The reply reaches the client; the handler's deferred calls give a leased
\* connection and its token back.
Deliver ==
    /\ pc = "reply"
    /\ pc' = "idle"
    /\ cmd' = NoCommand
    /\ lease' = NilConn
    /\ slots' = slots - LeaseToken
    /\ dead' = dead \ {lease}
    /\ UNCHANGED <<state, tx, pinnedConnection, pinned, prepared, nextPreparedID,
                   srvTx, pending, committed, nextWrite, aborted>>
    /\ Told

\* clientSession.close, when the client leaves, a reply cannot be written or a
\* handler returned an error.
Close ==
    /\ pc \in {"idle", "reply", "fail"}
    /\ pc' = "closed"
    /\ cmd' = NoCommand
    /\ tx' = FALSE
    /\ prepared' = NoHandles
    /\ pinnedConnection' = NilConn
    /\ pinned' = pinned - One(pinnedConnection)
    /\ slots' = (slots - One(pinnedConnection)) - One(lease)
    /\ lease' = NilConn
    /\ dead' = dead \ {pinnedConnection, lease}
    /\ srvTx' = FALSE
    /\ pending' = {}
    /\ state' = Reset(state)
    /\ txWrites' = {}
    /\ UNCHANGED <<nextPreparedID, committed, nextWrite, aborted, toldVars>>

\* The next client: handleClient builds a fresh clientSession.
Connect ==
    /\ pc = "closed"
    /\ pc' = "idle"
    /\ state' = NewLogical
    /\ nextPreparedID' = 0
    /\ UNCHANGED <<tx, pinVars, prepared, cmd, lease, serverVars, historyVars>>

\* The upstream link of the pinned connection dies between two calls.
ConnDies ==
    /\ pinnedConnection \notin dead \cup {NilConn}
    /\ LosePinned
    /\ UNCHANGED <<sessionVars, pc, cmd, lease, committed, historyVars>>
-----------------------------------------------------------------------------
Commands ==
    \/ \E kind \in TextKinds : Query(kind)
    \/ \E answer \in {"ok", "error"} : Stateless(answer)
    \/ \E kind \in PreparedKinds : PrepareCommand(kind)
    \/ \E id \in Ids, wellFormed \in BOOLEAN : ExecuteCommand(id, wellFormed)
    \/ \E id \in Ids : ClosePrepared(id)

Handler ==
    \/ Pin \/ BeginOK \/ BeginFail
    \/ PrepareOK \/ PrepareFail \/ Reprepare
    \/ Lease \/ ExecOK \/ ExecError \/ ExecAbort \/ ExecLost \/ Warn
    \/ CommitOK \/ CommitFail \/ RollbackOK \/ RollbackFail
    \/ Deliver

Next == Commands \/ Handler \/ Close \/ Connect \/ ConnDies

Spec == Init /\ [][Next]_vars
-----------------------------------------------------------------------------
SessionType ==
    /\ state \in LogicalType(Ids)
    /\ pinnedConnection \in Conns \cup {NilConn}
    /\ DOMAIN prepared \subseteq Ids
    /\ prepared \in [DOMAIN prepared -> PreparedStatement]
    /\ nextPreparedID \in 0..(IdSpace - 1)
FlagType == tx \in BOOLEAN /\ srvTx \in BOOLEAN /\ aborted \in BOOLEAN
CounterType == slots \in Nat /\ pinned \in Nat
CommandType == pc \in Stages /\ cmd \in Command /\ lease \in Conns \cup {NilConn}
ServerType ==
    /\ dead \subseteq Conns
    /\ pending \subseteq Writes /\ committed \subseteq Writes
HistoryType ==
    /\ nextWrite \in 1..(MaxWrites + 1)
    /\ txWrites \subseteq Writes /\ promised \subseteq Writes
    /\ undone \subseteq Writes /\ failed \subseteq Writes

TypeOK ==
    SessionType /\ FlagType /\ CounterType /\ CommandType /\ ServerType /\ HistoryType

\* The session's share of the service counters is what it really holds: one
\* admission token and one unit of the pinned gauge for the pinned connection,
\* one token for a leased one.  A path of begin, prepare or close that forgets a
\* release, or releases twice, breaks it.
TokensMatchConnections ==
    /\ slots = One(pinnedConnection) + One(lease)
    /\ pinned = One(pinnedConnection)

\* Between commands a session keeps an upstream connection exactly when it needs
\* one: while a transaction is open or a prepared handle is live
\* (finishTransaction, closePrepared, begin and prepare each decide this alone).
PinnedIffStateful ==
    pc = "idle" => (pinnedConnection # NilConn <=> tx \/ DOMAIN prepared # {})

\* The two registries of prepared handles, s.prepared and state.Prepared, agree,
\* every server-side statement lives on the connection that is pinned now, and
\* one bound to a transaction does not outlive it.
HandlesCurrent ==
    /\ DOMAIN prepared = state.Prepared
    /\ \A id \in DOMAIN prepared :
          /\ prepared[id].statement \in {NilConn, pinnedConnection}
          /\ prepared[id].transactionBound => tx

\* No handler calls through a nil connection: the stages that use
\* s.pinnedConnection or s.tx find them set.
NoNilConnection ==
    /\ pc \in {"begin", "prepare", "reprepare", "commit", "rollback"} =>
          pinnedConnection # NilConn
    /\ pc \in {"commit", "rollback"} => tx
    /\ pc \in {"exec", "warn"} => Target # NilConn

\* The in-transaction status bit follows s.tx unless a failed COMMIT or ROLLBACK
\* poisoned the session, and an open transaction always shows.
StatusFollowsTx ==
    /\ tx => state.InTransaction
    /\ ~state.poisoned => (state.InTransaction <=> tx)

\* A write the client was told is durable (an autocommitted OK, or an OK for the
\* COMMIT or SET AUTOCOMMIT=1 that ends its transaction) is durable in MySQL.
NoFalseDurability == promised \subseteq committed

\* A write whose transaction the client was told is rolled back never becomes
\* durable, for clients that neither prepare DDL nor turn autocommit off.
RollbackUndoes == undone \cap committed = {}

\* While a transaction is open its connection never changes: no handler moves,
\* drops or replaces the pinned connection under s.tx.
TransactionKeepsConnection ==
    [][tx /\ tx' => pinnedConnection' = pinnedConnection]_vars
-----------------------------------------------------------------------------
\* What the documents say and the code does not keep.

\* "ROLLBACK is relayed and local transaction state is cleared": between commands
\* the in-transaction bit is set only while a transaction is open.
RollbackClearsState == pc = "idle" /\ state.InTransaction => tx

\* Supported DDL is "refused inside a transaction": none reaches MySQL inside one.
NoDDLInTransaction == pc = "exec" /\ cmd.kind = "ddl" => ~tx

\* When the outcome of a write is unknown the client "sees connection failure":
\* no write that was answered with an error is durable.
NoFailureForDurableWrite == failed \cap committed = {}

\* "Transactions and other stateful sessions stay pinned to one upstream
\* connection": a session never holds a second one.
OneConnection == lease # NilConn => pinnedConnection = NilConn

\* A prepared statement keeps the session "Pinned until handles close or
\* disconnect": a session without handles and transaction holds no connection.
UnpinnedWithoutHandles ==
    pc = "idle" /\ DOMAIN prepared = {} /\ ~tx => pinnedConnection = NilConn
=============================================================================
