--------------------------- MODULE SessionProofs ---------------------------
(***************************************************************************)
(* Proofs about Session for every set of connections, every workload and   *)
(* every bound, as long as no session prepares so many statements that the *)
(* uint32 identifier wraps (MaxPreparedID < IdSpace): its tokens, handles  *)
(* and connections agree, and what its client is told about writes is true.*)
(***************************************************************************)
EXTENDS Session, TLAPS

\* Where the session's connections stand at every stage.
PinInv ==
    /\ tx \/ DOMAIN prepared # {} => pinnedConnection # NilConn
    /\ pinnedConnection # NilConn =>
          tx \/ DOMAIN prepared # {} \/ (pc \in {"begin", "prepare"} /\ cmd.pin = "created")
    /\ pc = "pin" => pinnedConnection = NilConn
    /\ pc \in {"begin", "prepare", "reprepare", "commit", "rollback"} =>
          pinnedConnection # NilConn
    /\ pc \in {"exec", "warn"} => lease # NilConn \/ pinnedConnection # NilConn
    /\ pc \in {"begin", "prepare"} /\ cmd.pin = "created" => ~tx /\ DOMAIN prepared = {}
    /\ pc \in {"begin", "lease", "closed"} => ~tx
    /\ pc \in {"commit", "rollback"} => tx
    /\ lease # NilConn =>
          pc \in {"exec", "warn", "reply"} /\ lease # pinnedConnection /\ ~tx
    /\ pc = "closed" => DOMAIN prepared = {}

\* What the command in progress looks like at every stage.
CmdInv ==
    /\ cmd.write # 0 => cmd.kind = "write"
    /\ cmd.kind = "write" /\ cmd.op # "prepare" => cmd.write # 0
    /\ cmd.op = "prepare" =>
          /\ pc \in {"pin", "prepare", "reply"}
          /\ cmd.kind \in {"read", "write", "ddl"}
          /\ pc # "reply" => nextPreparedID < MaxPreparedID
    /\ cmd.op = "execute" /\ pc \in {"pin", "begin", "lease", "reprepare", "exec", "warn"} =>
          cmd.id \in DOMAIN prepared
    /\ pc = "prepare" => cmd.op = "prepare"
    /\ pc = "reprepare" => cmd.op = "execute"
    /\ pc = "commit" => cmd.kind \in {"commit", "autocommit_on"}
    /\ pc = "rollback" => cmd.kind = "rollback"

\* Live identifiers were all given out by this session.
IdInv ==
    /\ state.Prepared \subseteq 1..nextPreparedID
    /\ nextPreparedID <= MaxPreparedID

ControlInv ==
    /\ TypeOK
    /\ TokensMatchConnections
    /\ HandlesCurrent
    /\ StatusFollowsTx
    /\ PinInv
    /\ CmdInv
    /\ IdInv

-----------------------------------------------------------------------------

\* What each update of the logical record yields: a record that differs in the
\* named fields only.
Differs(new, st, autocommit, inTransaction, ids, poisoned) ==
    /\ new \in LogicalType(Ids)
    /\ new.Autocommit = autocommit
    /\ new.InTransaction = inTransaction
    /\ new.Prepared = ids
    /\ new.poisoned = poisoned

\* The updates of the logical record by Apply, Poison and Reset.
LEMMA LogicalUpdates ==
  ASSUME NEW st \in LogicalType(Ids)
  PROVE  /\ Differs(NewLogical, st, TRUE, FALSE, {}, FALSE)
         /\ Differs(Apply(st, "begin"), st, st.Autocommit, TRUE, st.Prepared, st.poisoned)
         /\ Differs(Apply(st, "commit"), st, st.Autocommit, FALSE, st.Prepared, st.poisoned)
         /\ Differs(Apply(st, "rollback"), st, st.Autocommit, FALSE, st.Prepared, st.poisoned)
         /\ Differs(Apply(st, "autocommit_off"), st, FALSE, st.InTransaction, st.Prepared,
                    st.poisoned)
         /\ Differs(Apply(st, "autocommit_on"), st, TRUE, FALSE, st.Prepared, st.poisoned)
         /\ Differs(Poison(st), st, st.Autocommit, st.InTransaction, st.Prepared, TRUE)
<1>0. Differs(NewLogical, st, TRUE, FALSE, {}, FALSE)
  BY Zenon DEF Differs, LogicalType, NewLogical
<1>1. Differs(Apply(st, "begin"), st, st.Autocommit, TRUE, st.Prepared, st.poisoned)
  <2>1. Apply(st, "begin") = [st EXCEPT !.InTransaction = TRUE]
    BY DEF Apply
  <2> QED BY <2>1, Zenon DEF Differs, LogicalType
<1>2. Differs(Apply(st, "commit"), st, st.Autocommit, FALSE, st.Prepared, st.poisoned)
  <2>1. Apply(st, "commit") = [st EXCEPT !.InTransaction = FALSE]
    BY DEF Apply
  <2> QED BY <2>1, Zenon DEF Differs, LogicalType
<1>3. Differs(Apply(st, "rollback"), st, st.Autocommit, FALSE, st.Prepared, st.poisoned)
  <2>1. Apply(st, "rollback") = [st EXCEPT !.InTransaction = FALSE]
    BY DEF Apply
  <2> QED BY <2>1, Zenon DEF Differs, LogicalType
<1>4. Differs(Apply(st, "autocommit_off"), st, FALSE, st.InTransaction, st.Prepared,
              st.poisoned)
  <2>1. Apply(st, "autocommit_off") = [st EXCEPT !.Autocommit = FALSE]
    BY DEF Apply
  <2> QED BY <2>1, Zenon DEF Differs, LogicalType
<1>5. Differs(Apply(st, "autocommit_on"), st, TRUE, FALSE, st.Prepared, st.poisoned)
  <2>1. Apply(st, "autocommit_on") = [st EXCEPT !.Autocommit = TRUE, !.InTransaction = FALSE]
    BY DEF Apply
  <2> QED BY <2>1, Zenon DEF Differs, LogicalType
<1>6. Differs(Poison(st), st, st.Autocommit, st.InTransaction, st.Prepared, TRUE)
  BY Zenon DEF Differs, LogicalType, Poison
<1> QED BY <1>0, <1>1, <1>2, <1>3, <1>4, <1>5, <1>6, Zenon

\* The updates of the logical record by AddPrepared and RemovePrepared.
LEMMA HandleUpdates ==
  ASSUME NEW st \in LogicalType(Ids), NEW id \in Ids
  PROVE  /\ Differs(AddPrepared(st, id), st, st.Autocommit, st.InTransaction,
                    st.Prepared \cup {id}, st.poisoned)
         /\ Differs(RemovePrepared(st, id), st, st.Autocommit, st.InTransaction,
                    st.Prepared \ {id}, st.poisoned)
  BY DEF Differs, LogicalType, AddPrepared, RemovePrepared

\* What finishTransaction leaves behind.
Finished(lost) ==
    /\ tx' = FALSE
    /\ DOMAIN prepared' = DOMAIN prepared
    /\ prepared' \in [DOMAIN prepared -> PreparedStatement]
    /\ \A id \in DOMAIN prepared :
          /\ prepared'[id].statement \in {NilConn, prepared[id].statement}
          /\ ~prepared'[id].transactionBound
    /\ srvTx' = FALSE /\ pending' = {}
    /\ \/ /\ DOMAIN prepared = {} /\ pinnedConnection' = NilConn
          /\ slots' = slots - One(pinnedConnection)
          /\ pinned' = pinned - One(pinnedConnection)
          /\ dead' = dead \ {pinnedConnection}
       \/ /\ DOMAIN prepared # {} /\ pinnedConnection' = pinnedConnection
          /\ slots' = slots /\ pinned' = pinned /\ dead' = dead \cup lost

\* finishTransaction drops the statements bound to the transaction, and the pinned
\* connection with them unless a handle still needs it.
LEMMA FinishEffect ==
  ASSUME NEW lost, FinishTransaction(lost), SessionType, HandlesCurrent
  PROVE  Finished(lost)
<1>1. prepared' = Invalidated /\ tx' = FALSE /\ srvTx' = FALSE /\ pending' = {}
  BY DEF FinishTransaction, ReleasePinned
<1>2. /\ DOMAIN prepared' = DOMAIN prepared
      /\ prepared' \in [DOMAIN prepared -> PreparedStatement]
  BY <1>1 DEF Invalidated, SessionType, PreparedStatement
<1>3. \A id \in DOMAIN prepared :
         /\ prepared'[id].statement \in {NilConn, prepared[id].statement}
         /\ ~prepared'[id].transactionBound
  BY <1>1 DEF Invalidated, SessionType, PreparedStatement
<1> QED
  BY <1>1, <1>2, <1>3 DEF FinishTransaction, ReleasePinned, PinnedToken, HandlesCurrent,
     pinVars, Finished

\* The counters are natural numbers because they count connections.
LEMMA TokensCount == TokensMatchConnections' => CounterType'
  BY DEF TokensMatchConnections, CounterType, One

\* The initial state satisfies the control invariant.
LEMMA InitControl == Init => ControlInv
<1> SUFFICES ASSUME Init PROVE ControlInv
  OBVIOUS
<1>1. Differs(state, state, TRUE, FALSE, {}, FALSE)
  BY LogicalUpdates, Zenon DEF Init, NewLogical, Differs, LogicalType
<1>2. FlagType
  BY Zenon DEF Init, FlagType
<1>3. prepared \in [{} -> PreparedStatement] /\ DOMAIN prepared = {}
  BY DEF Init, NoHandles
<1> QED
  BY <1>1, <1>2, <1>3, SessionAssumption
  DEF Init, ControlInv, TypeOK, SessionType, CounterType, CommandType, ServerType,
      HistoryType, TokensMatchConnections, HandlesCurrent, StatusFollowsTx, PinInv, CmdInv,
      IdInv, Differs, NoCommand, Command, Kinds, Ids, Stages, One

\* Every step of the session preserves the control invariant.
LEMMA StepControl ==
  ASSUME MaxPreparedID < IdSpace, ControlInv, Next PROVE ControlInv'
<1> USE DEF ControlInv, TypeOK, sessionVars, pinVars, serverVars, toldVars, historyVars
<1>1. ASSUME Pin PROVE ControlInv'
  <2>1. (SessionType /\ ServerType /\ HistoryType /\ StatusFollowsTx /\ IdInv)'
    BY <1>1 DEF Pin, Reply, SessionType, ServerType, HistoryType, StatusFollowsTx, IdInv
  <2>2. FlagType'  BY <1>1, Zenon DEF Pin, Reply, FlagType
  <2> USE <1>1, SessionAssumption DEF Pin, Reply, SessionType, CommandType, PinInv,
     CmdInv, LogicalType, Command, Kinds, Ids
  <2>3. CommandType'  BY DEF Stages
  <2>4. TokensMatchConnections'  BY DEF TokensMatchConnections, One
  <2>5. HandlesCurrent'  BY DEF HandlesCurrent
  <2>6. PinInv'  BY Zenon
  <2>7. CmdInv'  OBVIOUS
  <2> QED BY <2>1, <2>2, <2>3, <2>4, <2>5, <2>6, <2>7, TokensCount
<1>2. ASSUME BeginOK PROVE ControlInv'
  <2>1. (ServerType /\ HistoryType /\ TokensMatchConnections)'
    BY <1>2 DEF BeginOK, ServerType, HistoryType, TokensMatchConnections
  <2>2. Differs(state', state, state.Autocommit, TRUE, state.Prepared, state.poisoned)
    BY <1>2, LogicalUpdates, Zenon DEF BeginOK, SessionType
  <2>3. FlagType'
    BY <1>2, Zenon DEF BeginOK, StatementStage, ApplyFails, Differs, FlagType
  <2> USE <1>2, <2>2, SessionAssumption DEF BeginOK, StatementStage, ApplyFails,
     Differs, SessionType, CommandType, PinInv, CmdInv, LogicalType, Command, Kinds, Ids
  <2>4. SessionType'  BY DEF PreparedStatement
  <2>5. CommandType'  BY DEF Stages
  <2>6. HandlesCurrent'  BY DEF HandlesCurrent
  <2>7. StatusFollowsTx'  BY DEF StatusFollowsTx
  <2>8. PinInv'  OBVIOUS
  <2>9. CmdInv'  OBVIOUS
  <2>10. IdInv'  BY DEF IdInv
  <2> QED BY <2>1, <2>2, <2>3, <2>4, <2>5, <2>6, <2>7, <2>8, <2>9, <2>10, TokensCount
<1>3. ASSUME BeginFail PROVE ControlInv'
  <2>1. (HistoryType /\ StatusFollowsTx /\ CmdInv /\ IdInv)'
    BY <1>3 DEF BeginFail, Reply, LosePinned, HistoryType, StatusFollowsTx, CmdInv,
       IdInv
  <2>2. FlagType'
    BY <1>3, Zenon DEF BeginFail, Reply, ReleasePinned, PinnedToken, LosePinned,
       CreatedHere, FlagType
  <2> USE <1>3, SessionAssumption DEF BeginFail, Reply, ReleasePinned, PinnedToken,
     LosePinned, CreatedHere, SessionType, CommandType, PinInv, CmdInv, LogicalType,
     Command, Kinds, Ids
  <2>3. SessionType'  BY DEF PreparedStatement
  <2>4. CommandType'  BY Zenon DEF Stages
  <2>5. ServerType'  BY DEF ServerType
  <2>6. TokensMatchConnections'  BY DEF TokensMatchConnections, One
  <2>7. HandlesCurrent'  BY DEF HandlesCurrent
  <2>8. PinInv'  OBVIOUS
  <2> QED BY <2>1, <2>2, <2>3, <2>4, <2>5, <2>6, <2>7, <2>8, TokensCount
<1>4. ASSUME PrepareOK PROVE ControlInv'
  <2>1. (ServerType /\ HistoryType /\ TokensMatchConnections)'
    BY <1>4 DEF PrepareOK, Reply, ServerType, HistoryType, TokensMatchConnections
  <2>2. NextID \in Ids /\ NextID \notin state.Prepared /\ NextID = nextPreparedID + 1
    BY <1>4, SessionAssumption DEF PrepareOK, SessionType, IdInv, CmdInv, NextID, Ids
  <2>3. Differs(state', state, state.Autocommit, state.InTransaction, state.Prepared
     \cup {NextID}, state.poisoned)
    BY <1>4, <2>2, HandleUpdates, Zenon DEF PrepareOK, SessionType
  <2>4. FlagType'  BY <1>4, Zenon DEF PrepareOK, Reply, Differs, FlagType
  <2> USE <1>4, <2>2, <2>3, SessionAssumption DEF PrepareOK, Reply, Differs,
     SessionType, CommandType, PinInv, CmdInv, LogicalType, Command, Kinds, Ids
  <2>5. SessionType'  BY DEF PreparedStatement, FlagType
  <2>6. CommandType'  BY DEF Stages
  <2>7. HandlesCurrent'  BY DEF HandlesCurrent
  <2>8. StatusFollowsTx'  BY DEF StatusFollowsTx
  <2>9. PinInv'  OBVIOUS
  <2>10. CmdInv'  OBVIOUS
  <2>11. IdInv'  BY DEF IdInv
  <2> QED BY <2>1, <2>2, <2>3, <2>4, <2>5, <2>6, <2>7, <2>8, <2>9, <2>10, <2>11,
     TokensCount
<1>5. ASSUME PrepareFail PROVE ControlInv'
  <2>1. (HistoryType /\ StatusFollowsTx /\ CmdInv /\ IdInv)'
    BY <1>5 DEF PrepareFail, Reply, LosePinned, HistoryType, StatusFollowsTx, CmdInv,
       IdInv
  <2>2. FlagType'
    BY <1>5, Zenon DEF PrepareFail, Reply, ReleasePinned, PinnedToken, LosePinned,
       PinUnused, FlagType
  <2> USE <1>5, SessionAssumption DEF PrepareFail, Reply, ReleasePinned, PinnedToken,
     LosePinned, PinUnused, SessionType, CommandType, PinInv, CmdInv, LogicalType,
     Command, Kinds, Ids
  <2>3. SessionType'  BY DEF PreparedStatement
  <2>4. CommandType'  BY DEF Stages
  <2>5. ServerType'  BY DEF ServerType
  <2>6. TokensMatchConnections'  BY DEF TokensMatchConnections, One
  <2>7. HandlesCurrent'  BY DEF HandlesCurrent
  <2>8. PinInv'  BY DEF HandlesCurrent
  <2> QED BY <2>1, <2>2, <2>3, <2>4, <2>5, <2>6, <2>7, <2>8, TokensCount
<1>6. ASSUME Reprepare PROVE ControlInv'
  <2>1. (HistoryType /\ TokensMatchConnections /\ StatusFollowsTx /\ PinInv /\ IdInv)'
    BY <1>6 DEF Reprepare, Reply, LosePinned, HistoryType, TokensMatchConnections,
       StatusFollowsTx, PinInv, IdInv
  <2>2. FlagType'  BY <1>6, Zenon DEF Reprepare, Reply, LosePinned, FlagType
  <2> USE <1>6, SessionAssumption DEF Reprepare, Reply, LosePinned, SessionType,
     CommandType, PinInv, CmdInv, LogicalType, Command, Kinds, Ids
  <2>3. SessionType'  BY DEF PreparedStatement
  <2>4. CommandType'  BY DEF Stages
  <2>5. ServerType'  BY DEF ServerType
  <2>6. HandlesCurrent'  BY DEF HandlesCurrent, PreparedStatement
  <2>7. CmdInv'  OBVIOUS
  <2> QED BY <2>1, <2>2, <2>3, <2>4, <2>5, <2>6, <2>7, TokensCount
<1>7. ASSUME Lease PROVE ControlInv'
  <2>1. (SessionType /\ ServerType /\ HistoryType /\ HandlesCurrent /\ StatusFollowsTx
     /\ PinInv /\ IdInv)'
    BY <1>7 DEF Lease, Reply, SessionType, ServerType, HistoryType, HandlesCurrent,
       StatusFollowsTx, PinInv, IdInv
  <2>2. FlagType'  BY <1>7, Zenon DEF Lease, Reply, FlagType
  <2> USE <1>7, SessionAssumption DEF Lease, Reply, SessionType, CommandType, PinInv,
     CmdInv, LogicalType, Command, Kinds, Ids
  <2>3. CommandType'  BY DEF Stages
  <2>4. TokensMatchConnections'  BY DEF TokensMatchConnections, One
  <2>5. CmdInv'  OBVIOUS
  <2> QED BY <2>1, <2>2, <2>3, <2>4, <2>5, TokensCount
<1>8. ASSUME ExecOK PROVE ControlInv'
  <2>1. (SessionType /\ HistoryType /\ TokensMatchConnections /\ HandlesCurrent /\
     StatusFollowsTx /\ PinInv /\ CmdInv /\ IdInv)'
    BY <1>8 DEF ExecOK, SessionType, HistoryType, TokensMatchConnections,
       HandlesCurrent, StatusFollowsTx, PinInv, CmdInv, IdInv
  <2>2. Durable \subseteq Writes
    BY <1>8 DEF ExecOK, Durable, CommandType, CmdInv, Command, ServerType, Writes
  <2>3. pending' \subseteq pending \cup {cmd.write} /\ (cmd.kind # "write" => pending'
     \subseteq pending)
    BY <1>8 DEF ExecOK, PendingAfter
  <2>4. cmd.kind = "write" => cmd.write \in Writes
    BY <1>8 DEF ExecOK, CommandType, CmdInv, Command, Writes
  <2>5. FlagType'  BY <1>8, Zenon DEF ExecOK, Target, InsideTx, FlagType
  <2> USE <1>8, <2>2, <2>3, <2>4, SessionAssumption DEF ExecOK, Target, InsideTx,
     SessionType, CommandType, PinInv, CmdInv, LogicalType, Command, Kinds, Ids
  <2>6. CommandType'  BY DEF Stages
  <2>7. ServerType'  BY DEF ServerType
  <2> QED BY <2>1, <2>2, <2>3, <2>4, <2>5, <2>6, <2>7, TokensCount
<1>9. ASSUME ExecError PROVE ControlInv'
  <2>1. (SessionType /\ ServerType /\ HistoryType /\ TokensMatchConnections /\
     HandlesCurrent /\ StatusFollowsTx /\ PinInv /\ CmdInv /\ IdInv)'
    BY <1>9 DEF ExecError, Reply, SessionType, ServerType, HistoryType,
       TokensMatchConnections, HandlesCurrent, StatusFollowsTx, PinInv, CmdInv, IdInv
  <2>2. FlagType'  BY <1>9, Zenon DEF ExecError, Reply, FlagType
  <2> USE <1>9, SessionAssumption DEF ExecError, Reply, SessionType, CommandType,
     PinInv, CmdInv, LogicalType, Command, Kinds, Ids
  <2>3. CommandType'  BY DEF Stages
  <2> QED BY <2>1, <2>2, <2>3, TokensCount
<1>10. ASSUME ExecAbort PROVE ControlInv'
  <2>1. (SessionType /\ ServerType /\ HistoryType /\ TokensMatchConnections /\
     HandlesCurrent /\ StatusFollowsTx /\ PinInv /\ CmdInv /\ IdInv)'
    BY <1>10 DEF ExecAbort, Reply, SessionType, ServerType, HistoryType,
       TokensMatchConnections, HandlesCurrent, StatusFollowsTx, PinInv, CmdInv, IdInv
  <2>2. FlagType'  BY <1>10, Zenon DEF ExecAbort, Reply, InsideTx, FlagType
  <2> USE <1>10, SessionAssumption DEF ExecAbort, Reply, InsideTx, SessionType,
     CommandType, PinInv, CmdInv, LogicalType, Command, Kinds, Ids
  <2>3. CommandType'  BY DEF Stages
  <2> QED BY <2>1, <2>2, <2>3, TokensCount
<1>11. ASSUME ExecLost PROVE ControlInv'
  <2>1. (SessionType /\ HistoryType /\ TokensMatchConnections /\ HandlesCurrent /\
     StatusFollowsTx /\ PinInv /\ CmdInv /\ IdInv)'
    BY <1>11 DEF ExecLost, Reply, LoseTarget, SessionType, HistoryType,
       TokensMatchConnections, HandlesCurrent, StatusFollowsTx, PinInv, CmdInv, IdInv
  <2>2. Durable \subseteq Writes
    BY <1>11 DEF ExecLost, Durable, CommandType, CmdInv, Command, ServerType, Writes
  <2>3. FlagType'
    BY <1>11, Zenon DEF ExecLost, Reply, LoseTarget, Target, InsideTx, FlagType
  <2> USE <1>11, <2>2, SessionAssumption DEF ExecLost, Reply, LoseTarget, Target,
     InsideTx, SessionType, CommandType, PinInv, CmdInv, LogicalType, Command, Kinds,
     Ids
  <2>4. CommandType'  BY DEF Stages
  <2>5. ServerType'  BY DEF ServerType
  <2> QED BY <2>1, <2>2, <2>3, <2>4, <2>5, TokensCount
<1>12. ASSUME Warn PROVE ControlInv'
  <2>1. (SessionType /\ HistoryType /\ TokensMatchConnections /\ HandlesCurrent /\
     StatusFollowsTx /\ PinInv /\ IdInv)'
    BY <1>12 DEF Warn, Reply, LoseTarget, SessionType, HistoryType,
       TokensMatchConnections, HandlesCurrent, StatusFollowsTx, PinInv, IdInv
  <2>2. FlagType'  BY <1>12, Zenon DEF Warn, Reply, LoseTarget, Target, FlagType
  <2> USE <1>12, SessionAssumption DEF Warn, Reply, LoseTarget, Target, SessionType,
     CommandType, PinInv, CmdInv, LogicalType, Command, Kinds, Ids
  <2>3. CommandType'  BY DEF Stages
  <2>4. ServerType'  BY DEF ServerType
  <2>5. CmdInv'  OBVIOUS
  <2> QED BY <2>1, <2>2, <2>3, <2>4, <2>5, TokensCount
<1>13. ASSUME CommitOK PROVE ControlInv'
  <2>1. (HistoryType /\ CmdInv)'  BY <1>13 DEF CommitOK, Reply, HistoryType, CmdInv
  <2>2. Differs(state', state, IF cmd.kind = "commit" THEN state.Autocommit ELSE TRUE,
     FALSE, state.Prepared, state.poisoned)
    BY <1>13, LogicalUpdates, Zenon DEF CommitOK, SessionType, CmdInv
  <2>3. Finished({})  BY <1>13, FinishEffect DEF CommitOK
  <2>4. FlagType'
    BY <1>13, <2>2, <2>3, Zenon DEF CommitOK, Reply, Differs, Finished, FlagType
  <2> USE <1>13, <2>2, <2>3, SessionAssumption DEF CommitOK, Reply, Differs, Finished,
     SessionType, CommandType, PinInv, CmdInv, LogicalType, Command, Kinds, Ids
  <2>5. SessionType'  BY DEF PreparedStatement
  <2>6. CommandType'  BY DEF Stages
  <2>7. ServerType'  BY DEF ServerType
  <2>8. TokensMatchConnections'  BY DEF TokensMatchConnections, One
  <2>9. HandlesCurrent'  BY DEF HandlesCurrent
  <2>10. StatusFollowsTx'  BY DEF StatusFollowsTx
  <2>11. PinInv'  BY DEF HandlesCurrent
  <2>12. IdInv'  BY DEF IdInv
  <2> QED BY <2>1, <2>2, <2>3, <2>4, <2>5, <2>6, <2>7, <2>8, <2>9, <2>10, <2>11, <2>12,
     TokensCount
<1>14. ASSUME CommitFail PROVE ControlInv'
  <2>1. (HistoryType /\ CmdInv)'  BY <1>14 DEF CommitFail, HistoryType, CmdInv
  <2>2. Differs(state', state, state.Autocommit, state.InTransaction, state.Prepared,
     TRUE)
    BY <1>14, LogicalUpdates, Zenon DEF CommitFail, SessionType
  <2>3. \E lost \in {{}, {pinnedConnection}} : Finished(lost)
    BY <1>14, FinishEffect DEF CommitFail
  <2>4. FlagType'  BY <1>14, <2>2, <2>3, Zenon DEF CommitFail, Differs, Finished, FlagType
  <2> USE <1>14, <2>2, <2>3, SessionAssumption DEF CommitFail, Differs, Finished,
     SessionType, CommandType, PinInv, CmdInv, LogicalType, Command, Kinds, Ids
  <2>5. SessionType'  BY DEF PreparedStatement
  <2>6. CommandType'  BY DEF Stages
  <2>7. ServerType'  BY DEF ServerType
  <2>8. TokensMatchConnections'  BY DEF TokensMatchConnections, One
  <2>9. HandlesCurrent'  BY DEF HandlesCurrent
  <2>10. StatusFollowsTx'  BY DEF StatusFollowsTx
  <2>11. PinInv'  OBVIOUS
  <2>12. IdInv'  BY DEF IdInv
  <2> QED BY <2>1, <2>2, <2>3, <2>4, <2>5, <2>6, <2>7, <2>8, <2>9, <2>10, <2>11, <2>12,
     TokensCount
<1>15. ASSUME RollbackOK PROVE ControlInv'
  <2>1. (HistoryType /\ CmdInv)'  BY <1>15 DEF RollbackOK, Reply, HistoryType, CmdInv
  <2>2. Differs(state', state, state.Autocommit, FALSE, state.Prepared, state.poisoned)
    BY <1>15, LogicalUpdates, Zenon DEF RollbackOK, SessionType
  <2>3. Finished({})  BY <1>15, FinishEffect DEF RollbackOK
  <2>4. FlagType'
    BY <1>15, <2>2, <2>3, Zenon DEF RollbackOK, Reply, Differs, Finished, FlagType
  <2> USE <1>15, <2>2, <2>3, SessionAssumption DEF RollbackOK, Reply, Differs, Finished,
     SessionType, CommandType, PinInv, CmdInv, LogicalType, Command, Kinds, Ids
  <2>5. SessionType'  BY DEF PreparedStatement
  <2>6. CommandType'  BY Zenon DEF Stages
  <2>7. ServerType'  BY DEF ServerType
  <2>8. TokensMatchConnections'  BY DEF TokensMatchConnections, One
  <2>9. HandlesCurrent'  BY DEF HandlesCurrent
  <2>10. StatusFollowsTx'  BY DEF StatusFollowsTx
  <2>11. PinInv'  OBVIOUS
  <2>12. IdInv'  BY DEF IdInv
  <2> QED BY <2>1, <2>2, <2>3, <2>4, <2>5, <2>6, <2>7, <2>8, <2>9, <2>10, <2>11, <2>12,
     TokensCount
<1>16. ASSUME RollbackFail PROVE ControlInv'
  <2>1. (HistoryType /\ CmdInv)'  BY <1>16 DEF RollbackFail, Reply, HistoryType, CmdInv
  <2>2. Differs(state', state, state.Autocommit, state.InTransaction, state.Prepared,
     TRUE)
    BY <1>16, LogicalUpdates, Zenon DEF RollbackFail, SessionType
  <2>3. Finished({pinnedConnection})  BY <1>16, FinishEffect DEF RollbackFail
  <2>4. FlagType'
    BY <1>16, <2>2, <2>3, Zenon DEF RollbackFail, Reply, Differs, Finished, FlagType
  <2> USE <1>16, <2>2, <2>3, SessionAssumption DEF RollbackFail, Reply, Differs,
     Finished, SessionType, CommandType, PinInv, CmdInv, LogicalType, Command, Kinds,
     Ids
  <2>5. SessionType'  BY DEF PreparedStatement
  <2>6. CommandType'  BY DEF Stages
  <2>7. ServerType'  BY DEF ServerType
  <2>8. TokensMatchConnections'  BY DEF TokensMatchConnections, One
  <2>9. HandlesCurrent'  BY DEF HandlesCurrent
  <2>10. StatusFollowsTx'  BY DEF StatusFollowsTx
  <2>11. PinInv'  OBVIOUS
  <2>12. IdInv'  BY DEF IdInv
  <2> QED BY <2>1, <2>2, <2>3, <2>4, <2>5, <2>6, <2>7, <2>8, <2>9, <2>10, <2>11, <2>12,
     TokensCount
<1>17. ASSUME Deliver PROVE ControlInv'
  <2>1. (SessionType /\ ServerType /\ HandlesCurrent /\ StatusFollowsTx /\ PinInv /\
     IdInv)'
    BY <1>17 DEF Deliver, SessionType, ServerType, HandlesCurrent, StatusFollowsTx,
       PinInv, IdInv
  <2>2. cmd.write # 0 => cmd.write \in Writes  BY DEF CommandType, Command, Writes
  <2>3. FlagType'  BY <1>17, Zenon DEF Deliver, Told, LeaseToken, NoCommand, FlagType
  <2> USE <1>17, <2>2, SessionAssumption DEF Deliver, Told, LeaseToken, NoCommand,
     SessionType, CommandType, PinInv, CmdInv, LogicalType, Command, Kinds, Ids
  <2>4. CommandType'  BY DEF Stages
  <2>5. HistoryType'  BY DEF HistoryType
  <2>6. TokensMatchConnections'  BY DEF TokensMatchConnections, One
  <2>7. CmdInv'  OBVIOUS
  <2> QED BY <2>1, <2>2, <2>3, <2>4, <2>5, <2>6, <2>7, TokensCount
<1>18. ASSUME Close PROVE ControlInv'
  <2>1. (ServerType /\ HistoryType)'  BY <1>18 DEF Close, ServerType, HistoryType
  <2>2. Differs(state', state, TRUE, FALSE, {}, FALSE)
    BY <1>18, LogicalUpdates, Zenon DEF Close, SessionType, Reset
  <2>3. FlagType'
    BY <1>18, Zenon DEF Close, NoCommand, NoHandles, Reset, Differs, FlagType
  <2> USE <1>18, <2>2, SessionAssumption DEF Close, NoCommand, NoHandles, Reset,
     Differs, SessionType, CommandType, PinInv, CmdInv, LogicalType, Command, Kinds, Ids
  <2>4. SessionType'  BY DEF PreparedStatement
  <2>5. CommandType'  BY DEF Stages
  <2>6. TokensMatchConnections'  BY DEF TokensMatchConnections, One
  <2>7. HandlesCurrent'  BY DEF HandlesCurrent
  <2>8. StatusFollowsTx'  BY DEF StatusFollowsTx
  <2>9. PinInv'  OBVIOUS
  <2>10. CmdInv'  OBVIOUS
  <2>11. IdInv'  BY DEF IdInv
  <2> QED BY <2>1, <2>2, <2>3, <2>4, <2>5, <2>6, <2>7, <2>8, <2>9, <2>10, <2>11,
     TokensCount
<1>19. ASSUME Connect PROVE ControlInv'
  <2>1. (ServerType /\ HistoryType /\ TokensMatchConnections /\ PinInv /\ CmdInv)'
    BY <1>19 DEF Connect, ServerType, HistoryType, TokensMatchConnections, PinInv,
       CmdInv
  <2>2. Differs(state', state, TRUE, FALSE, {}, FALSE)
    BY <1>19, LogicalUpdates, Zenon DEF Connect, SessionType
  <2>3. FlagType'  BY <1>19, Zenon DEF Connect, Differs, FlagType
  <2> USE <1>19, <2>2, SessionAssumption DEF Connect, Differs, SessionType, CommandType,
     PinInv, CmdInv, LogicalType, Command, Kinds, Ids
  <2>4. SessionType'  BY DEF PreparedStatement
  <2>5. CommandType'  BY DEF Stages
  <2>6. DOMAIN prepared' = {} /\ state'.Prepared = {}  OBVIOUS
  <2>7. HandlesCurrent'  BY <2>6, Zenon DEF HandlesCurrent
  <2>8. StatusFollowsTx'  BY DEF StatusFollowsTx
  <2>9. IdInv'  BY DEF IdInv
  <2> QED BY <2>1, <2>2, <2>3, <2>4, <2>5, <2>6, <2>7, <2>8, <2>9, TokensCount
<1>20. ASSUME ConnDies PROVE ControlInv'
  <2>1. (SessionType /\ CommandType /\ HistoryType)'
    BY <1>20 DEF ConnDies, SessionType, CommandType, HistoryType
  <2>2. (TokensMatchConnections /\ HandlesCurrent /\ StatusFollowsTx)'
    BY <1>20 DEF ConnDies, TokensMatchConnections, HandlesCurrent, StatusFollowsTx
  <2>3. (PinInv /\ IdInv)'
    BY <1>20 DEF ConnDies, PinInv, IdInv
  <2>4. CmdInv'
    BY <1>20 DEF ConnDies, CmdInv
  <2>5. FlagType'  BY <1>20, Zenon DEF ConnDies, LosePinned, FlagType
  <2> USE <1>20, SessionAssumption DEF ConnDies, LosePinned, SessionType, CommandType,
     PinInv, CmdInv, LogicalType, Command, Kinds, Ids
  <2>6. ServerType'  BY DEF ServerType
  <2> QED BY <2>1, <2>2, <2>3, <2>4, <2>5, <2>6, TokensCount
<1>21. ASSUME QueryBegin PROVE ControlInv'
  <2>1. (SessionType /\ ServerType /\ HistoryType /\ TokensMatchConnections /\
     HandlesCurrent /\ StatusFollowsTx /\ IdInv)'
    BY <1>21 DEF QueryBegin, Receive, SessionType, ServerType, HistoryType,
       TokensMatchConnections, HandlesCurrent, StatusFollowsTx, IdInv
  <2>2. FlagType'  BY <1>21, Zenon DEF QueryBegin, Receive, PinThen, RefusedIf, FlagType
  <2> USE <1>21, SessionAssumption DEF QueryBegin, Receive, PinThen, RefusedIf,
     SessionType, CommandType, PinInv, CmdInv, LogicalType, Command, Kinds, Ids
  <2>3. CommandType'  BY DEF Stages
  <2>4. PinInv'  OBVIOUS
  <2>5. CmdInv'  OBVIOUS
  <2> QED BY <2>1, <2>2, <2>3, <2>4, <2>5, TokensCount
<1>22. ASSUME NEW kind \in TextKinds, QueryEnd(kind) PROVE ControlInv'
  <2>1. (SessionType /\ ServerType /\ HistoryType /\ TokensMatchConnections /\
     HandlesCurrent /\ StatusFollowsTx /\ PinInv /\ CmdInv /\ IdInv)'
    BY <1>22 DEF QueryEnd, Receive, SessionType, ServerType, HistoryType,
       TokensMatchConnections, HandlesCurrent, StatusFollowsTx, PinInv, CmdInv, IdInv
  <2>2. FlagType'  BY <1>22, Zenon DEF QueryEnd, Receive, FlagType
  <2> USE <1>22, SessionAssumption DEF QueryEnd, Receive, SessionType, CommandType,
     PinInv, CmdInv, LogicalType, Command, Kinds, Ids
  <2>3. CommandType'  BY DEF Stages
  <2> QED BY <2>1, <2>2, <2>3, TokensCount
<1>23. ASSUME QuerySavepoint PROVE ControlInv'
  <2>1. (SessionType /\ ServerType /\ HistoryType /\ TokensMatchConnections /\
     HandlesCurrent /\ StatusFollowsTx /\ PinInv /\ CmdInv /\ IdInv)'
    BY <1>23 DEF QuerySavepoint, Receive, SessionType, ServerType, HistoryType,
       TokensMatchConnections, HandlesCurrent, StatusFollowsTx, PinInv, CmdInv, IdInv
  <2>2. FlagType'
    BY <1>23, Zenon DEF QuerySavepoint, Receive, ApplyFails, RefusedIf, FlagType
  <2> USE <1>23, SessionAssumption DEF QuerySavepoint, Receive, ApplyFails, RefusedIf,
     SessionType, CommandType, PinInv, CmdInv, LogicalType, Command, Kinds, Ids
  <2>3. CommandType'  BY DEF Stages
  <2> QED BY <2>1, <2>2, <2>3, TokensCount
<1>24. ASSUME QueryAutocommitOff PROVE ControlInv'
  <2>1. (ServerType /\ HistoryType /\ TokensMatchConnections /\ PinInv /\ CmdInv)'
    BY <1>24 DEF QueryAutocommitOff, Receive, ServerType, HistoryType,
       TokensMatchConnections, PinInv, CmdInv
  <2>2. Differs(state', state, FALSE, state.InTransaction, state.Prepared,
     state.poisoned)
    BY <1>24, LogicalUpdates, Zenon DEF QueryAutocommitOff, SessionType
  <2>3. FlagType'  BY <1>24, Zenon DEF QueryAutocommitOff, Receive, Differs, FlagType
  <2> USE <1>24, <2>2, SessionAssumption DEF QueryAutocommitOff, Receive, Differs,
     SessionType, CommandType, PinInv, CmdInv, LogicalType, Command, Kinds, Ids
  <2>4. SessionType'  BY DEF PreparedStatement
  <2>5. CommandType'  BY DEF Stages
  <2>6. HandlesCurrent'  BY DEF HandlesCurrent
  <2>7. StatusFollowsTx'  BY DEF StatusFollowsTx
  <2>8. IdInv'  BY DEF IdInv
  <2> QED BY <2>1, <2>2, <2>3, <2>4, <2>5, <2>6, <2>7, <2>8, TokensCount
<1>25. ASSUME QueryAutocommitOn PROVE ControlInv'
  <2>1. (ServerType /\ HistoryType /\ TokensMatchConnections /\ PinInv /\ CmdInv)'
    BY <1>25 DEF QueryAutocommitOn, Receive, ServerType, HistoryType,
       TokensMatchConnections, PinInv, CmdInv
  <2>2. IF tx THEN state' = state ELSE Differs(state', state, TRUE, FALSE,
     state.Prepared, state.poisoned)
    BY <1>25, LogicalUpdates, Zenon DEF QueryAutocommitOn, SessionType
  <2>3. FlagType'  BY <1>25, Zenon DEF QueryAutocommitOn, Receive, Differs, FlagType
  <2> USE <1>25, <2>2, SessionAssumption DEF QueryAutocommitOn, Receive, Differs,
     SessionType, CommandType, PinInv, CmdInv, LogicalType, Command, Kinds, Ids
  <2>4. SessionType'  BY DEF PreparedStatement
  <2>5. CommandType'  BY DEF Stages
  <2>6. HandlesCurrent'  BY DEF HandlesCurrent
  <2>7. StatusFollowsTx'  BY DEF StatusFollowsTx
  <2>8. IdInv'  BY DEF IdInv
  <2> QED BY <2>1, <2>2, <2>3, <2>4, <2>5, <2>6, <2>7, <2>8, TokensCount
<1>26. ASSUME QueryDDL PROVE ControlInv'
  <2>1. (SessionType /\ ServerType /\ HistoryType /\ TokensMatchConnections /\
     HandlesCurrent /\ StatusFollowsTx /\ PinInv /\ CmdInv /\ IdInv)'
    BY <1>26 DEF QueryDDL, Receive, SessionType, ServerType, HistoryType,
       TokensMatchConnections, HandlesCurrent, StatusFollowsTx, PinInv, CmdInv, IdInv
  <2>2. FlagType'  BY <1>26, Zenon DEF QueryDDL, Receive, RefusedIf, FlagType
  <2> USE <1>26, SessionAssumption DEF QueryDDL, Receive, RefusedIf, SessionType,
     CommandType, PinInv, CmdInv, LogicalType, Command, Kinds, Ids
  <2>3. CommandType'  BY DEF Stages
  <2> QED BY <2>1, <2>2, <2>3, TokensCount
<1>27. ASSUME NEW kind \in TextKinds, QueryData(kind) PROVE ControlInv'
  <2>1. (SessionType /\ ServerType /\ TokensMatchConnections /\ HandlesCurrent /\
     StatusFollowsTx /\ IdInv)'
    BY <1>27 DEF QueryData, Receive, SessionType, ServerType, TokensMatchConnections,
       HandlesCurrent, StatusFollowsTx, IdInv
  <2>2. FlagType'  BY <1>27, Zenon DEF QueryData, Receive, PinThen, DataStage, FlagType
  <2> USE <1>27, SessionAssumption DEF QueryData, Receive, PinThen, DataStage,
     SessionType, CommandType, PinInv, CmdInv, LogicalType, Command, Kinds, Ids
  <2>3. CommandType'  BY DEF Stages, HistoryType
  <2>4. HistoryType'  BY DEF HistoryType
  <2>5. PinInv'  OBVIOUS
  <2>6. CmdInv'  BY DEF HistoryType
  <2> QED BY <2>1, <2>2, <2>3, <2>4, <2>5, <2>6, TokensCount
<1>28. ASSUME NEW answer \in {"ok", "error"}, Stateless(answer) PROVE ControlInv'
  <2>1. (SessionType /\ ServerType /\ HistoryType /\ TokensMatchConnections /\
     HandlesCurrent /\ StatusFollowsTx /\ PinInv /\ CmdInv /\ IdInv)'
    BY <1>28 DEF Stateless, Receive, SessionType, ServerType, HistoryType,
       TokensMatchConnections, HandlesCurrent, StatusFollowsTx, PinInv, CmdInv, IdInv
  <2>2. FlagType'  BY <1>28, Zenon DEF Stateless, Receive, FlagType
  <2> USE <1>28, SessionAssumption DEF Stateless, Receive, SessionType, CommandType,
     PinInv, CmdInv, LogicalType, Command, Kinds, Ids
  <2>3. CommandType'  BY DEF Stages
  <2> QED BY <2>1, <2>2, <2>3, TokensCount
<1>29. ASSUME NEW kind \in PreparedKinds, PrepareCommand(kind) PROVE ControlInv'
  <2>1. (SessionType /\ ServerType /\ HistoryType /\ TokensMatchConnections /\
     HandlesCurrent /\ StatusFollowsTx /\ IdInv)'
    BY <1>29 DEF PrepareCommand, Receive, SessionType, ServerType, HistoryType,
       TokensMatchConnections, HandlesCurrent, StatusFollowsTx, IdInv
  <2>2. FlagType'
    BY <1>29, Zenon DEF PrepareCommand, Receive, PinThen, RefusedIf, FlagType
  <2> USE <1>29, SessionAssumption DEF PrepareCommand, Receive, PinThen, RefusedIf,
     SessionType, CommandType, PinInv, CmdInv, LogicalType, Command, Kinds, Ids
  <2>3. CommandType'  BY DEF Stages
  <2>4. PinInv'  OBVIOUS
  <2>5. CmdInv'  OBVIOUS
  <2> QED BY <2>1, <2>2, <2>3, <2>4, <2>5, TokensCount
<1>30. ASSUME NEW id \in Ids, NEW wellFormed \in BOOLEAN, ExecuteCommand(id, wellFormed) PROVE ControlInv'
  <2>1. (SessionType /\ ServerType /\ TokensMatchConnections /\ HandlesCurrent /\
     StatusFollowsTx /\ IdInv)'
    BY <1>30 DEF ExecuteCommand, Receive, SessionType, ServerType,
       TokensMatchConnections, HandlesCurrent, StatusFollowsTx, IdInv
  <2>2. FlagType'
    BY <1>30, Zenon DEF ExecuteCommand, Receive, PinThen, StatementStage, FlagType
  <2> USE <1>30, SessionAssumption DEF ExecuteCommand, Receive, PinThen, StatementStage,
     SessionType, CommandType, PinInv, CmdInv, LogicalType, Command, Kinds, Ids
  <2>3. CommandType'  BY DEF Stages, HistoryType, PreparedStatement
  <2>4. HistoryType'  BY DEF HistoryType
  <2>5. PinInv'  OBVIOUS
  <2>6. CmdInv'  BY DEF HistoryType
  <2> QED BY <2>1, <2>2, <2>3, <2>4, <2>5, <2>6, TokensCount
<1>31. ASSUME NEW id \in Ids, ClosePrepared(id) PROVE ControlInv'
  <2>1. (CommandType /\ HistoryType /\ CmdInv)'
    BY <1>31 DEF ClosePrepared, CommandType, HistoryType, CmdInv
  <2>2. Differs(state', state, state.Autocommit, state.InTransaction, state.Prepared \
     {id}, state.poisoned)
    BY <1>31, HandleUpdates, Zenon DEF ClosePrepared, SessionType
  <2>3. FlagType'
    BY <1>31, Zenon DEF ClosePrepared, ReleasePinned, PinnedToken, LastUse, Differs,
       FlagType
  <2> USE <1>31, <2>2, SessionAssumption DEF ClosePrepared, ReleasePinned, PinnedToken,
     LastUse, Differs, SessionType, CommandType, PinInv, CmdInv, LogicalType, Command,
     Kinds, Ids
  <2>4. SessionType'  BY DEF PreparedStatement
  <2>5. ServerType'  BY DEF ServerType
  <2>6. TokensMatchConnections'  BY DEF TokensMatchConnections, One
  <2>7. HandlesCurrent'  BY DEF HandlesCurrent
  <2>8. StatusFollowsTx'  BY DEF StatusFollowsTx
  <2>9. PinInv'  OBVIOUS
  <2>10. IdInv'  BY DEF IdInv
  <2> QED BY <2>1, <2>2, <2>3, <2>4, <2>5, <2>6, <2>7, <2>8, <2>9, <2>10, TokensCount
<1> QED BY <1>1, <1>2, <1>3, <1>4, <1>5, <1>6, <1>7, <1>8, <1>9, <1>10, <1>11, <1>12,
   <1>13, <1>14, <1>15, <1>16, <1>17, <1>18, <1>19, <1>20, <1>21, <1>22, <1>23, <1>24,
   <1>25, <1>26, <1>27, <1>28, <1>29, <1>30, <1>31, Zenon DEF Next, Commands, Handler, Query

\* The control invariant holds in every reachable state, stuttering included.
THEOREM SessionControl ==
  ASSUME MaxPreparedID < IdSpace PROVE Spec => []ControlInv
<1>1. ASSUME ControlInv, UNCHANGED vars PROVE ControlInv'
  <2> USE <1>1 DEF vars, sessionVars, pinVars, serverVars, toldVars, historyVars, ControlInv,
      TypeOK
  <2>1. SessionType'  BY DEF SessionType
  <2>2. (FlagType /\ CounterType /\ CommandType)'
    BY DEF FlagType, CounterType, CommandType
  <2>3. (ServerType /\ HistoryType)'  BY DEF ServerType, HistoryType
  <2>4. (TokensMatchConnections /\ HandlesCurrent /\ StatusFollowsTx)'
    BY DEF TokensMatchConnections, HandlesCurrent, StatusFollowsTx
  <2>5. (PinInv /\ CmdInv /\ IdInv)'  BY DEF PinInv, CmdInv, IdInv
  <2> QED BY <2>1, <2>2, <2>3, <2>4, <2>5
<1>2. ControlInv /\ [Next]_vars => ControlInv'
  BY <1>1, StepControl
<1> QED
  BY <1>2, InitControl, PTL DEF Spec

\* Every variable of the session keeps its type; in particular no counter that
\* releasePinnedConnection or a deferred release decrements goes below zero.
THEOREM SessionTypeCorrect ==
  ASSUME MaxPreparedID < IdSpace PROVE Spec => []TypeOK
<1>1. ControlInv => TypeOK
  BY DEF ControlInv
<1> QED BY <1>1, SessionControl, PTL

\* The admission tokens and the pinned gauge of a session are exactly its
\* connections, on every path through begin, prepare, exec, close.
THEOREM SessionTokens ==
  ASSUME MaxPreparedID < IdSpace PROVE Spec => []TokensMatchConnections
<1>1. ControlInv => TokensMatchConnections
  BY SessionAssumption DEF ControlInv, TokensMatchConnections
<1> QED BY <1>1, SessionControl, PTL

\* Between commands a session holds an upstream connection exactly while it has a
\* transaction or a prepared handle.
THEOREM SessionPinned ==
  ASSUME MaxPreparedID < IdSpace PROVE Spec => []PinnedIffStateful
<1>1. ControlInv => PinnedIffStateful
  BY SessionAssumption DEF ControlInv, PinInv, PinnedIffStateful
<1> QED BY <1>1, SessionControl, PTL

\* s.prepared and state.Prepared list the same handles, and each handle's
\* statement belongs to the connection pinned now.
THEOREM SessionHandles ==
  ASSUME MaxPreparedID < IdSpace PROVE Spec => []HandlesCurrent
<1>1. ControlInv => HandlesCurrent
  BY SessionAssumption DEF ControlInv, HandlesCurrent
<1> QED BY <1>1, SessionControl, PTL

\* No handler uses a nil s.pinnedConnection or s.tx.
THEOREM SessionNoNil ==
  ASSUME MaxPreparedID < IdSpace PROVE Spec => []NoNilConnection
<1>1. ControlInv => NoNilConnection
  BY SessionAssumption DEF ControlInv, TypeOK, CommandType, PinInv, NoNilConnection, Target
<1> QED BY <1>1, SessionControl, PTL

\* The in-transaction status bit follows s.tx unless the session is poisoned.
THEOREM SessionStatus ==
  ASSUME MaxPreparedID < IdSpace PROVE Spec => []StatusFollowsTx
<1>1. ControlInv => StatusFollowsTx
  BY SessionAssumption DEF ControlInv, StatusFollowsTx
<1> QED BY <1>1, SessionControl, PTL

\* No step takes the connection away from an open transaction.
LEMMA StepKeepsConnection ==
  ASSUME ControlInv, Next, tx, tx' PROVE pinnedConnection' = pinnedConnection
<1> USE DEF ControlInv, TypeOK, sessionVars, pinVars
<1>1. CASE Commands
  BY <1>1, Zenon DEF Commands, Query, QueryBegin, QueryEnd, QuerySavepoint, QueryAutocommitOff,
     QueryAutocommitOn, QueryDDL, QueryData, Stateless, PrepareCommand, ExecuteCommand,
     Receive, ClosePrepared, LastUse
<1>2. CASE Pin \/ BeginOK \/ BeginFail
  BY <1>2, Zenon DEF Pin, BeginOK, BeginFail, PinInv
<1>3. CASE PrepareOK \/ PrepareFail \/ Reprepare
  BY <1>3 DEF PrepareOK, PrepareFail, Reprepare, PinUnused
<1>4. CASE Lease \/ ExecOK \/ ExecError \/ ExecAbort \/ ExecLost \/ Warn \/ Deliver
  BY <1>4 DEF Lease, ExecOK, ExecError, ExecAbort, ExecLost, Warn, Deliver
<1>5. CASE CommitOK \/ CommitFail \/ RollbackOK \/ RollbackFail
  BY <1>5, Zenon DEF CommitOK, CommitFail, RollbackOK, RollbackFail, FinishTransaction
<1>6. CASE Close \/ Connect \/ ConnDies
  BY <1>6 DEF Close, Connect, ConnDies
<1> QED BY <1>1, <1>2, <1>3, <1>4, <1>5, <1>6 DEF Next, Handler

\* A transaction stays on the connection it began on, whatever the client sends
\* and however the upstream calls fail.
THEOREM OneTransactionOneConnection ==
  ASSUME MaxPreparedID < IdSpace PROVE Spec => TransactionKeepsConnection
<1>1. ControlInv /\ [Next]_vars => [tx /\ tx' => pinnedConnection' = pinnedConnection]_vars
  BY StepKeepsConnection
<1> QED BY <1>1, SessionControl, PTL DEF Spec, TransactionKeepsConnection

-----------------------------------------------------------------------------
(* What a client is told about its writes is true.  The invariant follows  *)
(* each write from the statement that executes it, through the server's    *)
(* transaction, to the reply that makes the promise.                       *)

\* MySQL has a transaction open only on a live connection of an open s.tx.
ServerInv ==
    /\ srvTx => tx /\ pinnedConnection \notin dead
    /\ ~srvTx => pending = {}

\* Acknowledged writes of the open transaction: none once it is over, except
\* while the reply that ends it is on its way.
EndedInv ==
    /\ ~tx /\ txWrites # {} =>
          pc = "fail" \/ (pc = "reply" /\ cmd.kind \in {"commit", "autocommit_on", "rollback"})
    /\ pc = "reply" /\ cmd.answer = "ok" /\ cmd.kind \in {"commit", "autocommit_on"} =>
          txWrites \subseteq committed

\* While the transaction's connection lives MySQL has all of them (ROLLBACK TO
\* drops some before its reply says so).
OpenInv ==
    tx /\ pinnedConnection \notin dead =>
       \/ txWrites \subseteq pending \cup committed
       \/ pc \in {"warn", "reply"} /\ cmd.kind = "savepoint"

\* A write about to be acknowledged has reached MySQL.
ReplyInv ==
    cmd.write # 0 /\ (pc = "warn" \/ (pc = "reply" /\ cmd.answer = "ok")) =>
       IF tx THEN pinnedConnection \in dead \/ cmd.write \in pending \cup committed
             ELSE cmd.write \in committed

\* A prepare carries no write, and a statement that MySQL executes is not one that
\* ends the transaction.
KindInv ==
    /\ cmd.op = "prepare" => cmd.write = 0
    /\ pc \in {"pin", "begin", "lease", "prepare", "reprepare", "exec", "warn"} =>
          cmd.kind \notin {"commit", "autocommit_on", "rollback"}

DurabilityInv == NoFalseDurability /\ ServerInv /\ EndedInv /\ OpenInv /\ ReplyInv /\ KindInv
-----------------------------------------------------------------------------
\* Every step keeps what the client was told true.
LEMMA StepDurability ==
  ASSUME ControlInv, DurabilityInv, Next PROVE DurabilityInv'
<1> USE DEF ControlInv, TypeOK, DurabilityInv, sessionVars, pinVars, serverVars,
   toldVars, historyVars
<1>1. ASSUME Pin PROVE DurabilityInv'
  <2>1. NoFalseDurability'
    BY <1>1, SessionAssumption DEF Pin, Reply, NoFalseDurability
  <2>2. ServerInv'
    BY <1>1, SessionAssumption DEF Pin, Reply, ServerInv, CommandType, Command, PinInv,
       CmdInv
  <2>3. EndedInv'
    BY <1>1, SessionAssumption DEF Pin, Reply, EndedInv, ServerInv, CommandType,
       Command, PinInv, CmdInv
  <2>4. OpenInv'
    BY <1>1, SessionAssumption DEF Pin, Reply, OpenInv, ServerInv, CommandType, Command,
       PinInv, CmdInv
  <2>5. ReplyInv'
    BY <1>1, SessionAssumption DEF Pin, Reply, ReplyInv, ServerInv, CommandType,
       Command, PinInv, CmdInv
  <2>6. KindInv'
    BY <1>1, SessionAssumption DEF Pin, Reply, KindInv, ServerInv, CommandType, Command,
       PinInv, CmdInv
  <2> QED BY <2>1, <2>2, <2>3, <2>4, <2>5, <2>6
<1>2. ASSUME BeginOK PROVE DurabilityInv'
  <2>1. (NoFalseDurability /\ ServerInv /\ EndedInv /\ KindInv)'
    BY <1>2, SessionAssumption DEF BeginOK, StatementStage, ApplyFails,
       NoFalseDurability, ServerInv, EndedInv, KindInv
  <2>2. OpenInv'
    BY <1>2, SessionAssumption DEF BeginOK, StatementStage, ApplyFails,
       NoFalseDurability, ServerInv, EndedInv, OpenInv, ReplyInv, KindInv, SessionType,
       CommandType, Command, PinInv, CmdInv, ServerType, LogicalType
  <2>3. ReplyInv'
    BY <1>2, SessionAssumption DEF BeginOK, StatementStage, ApplyFails, ReplyInv,
       ServerInv, CommandType, Command, PinInv, CmdInv
  <2> QED BY <2>1, <2>2, <2>3
<1>3. ASSUME BeginFail PROVE DurabilityInv'
  <2>1. (NoFalseDurability /\ ServerInv /\ EndedInv /\ ReplyInv /\ KindInv)'
    BY <1>3, SessionAssumption DEF BeginFail, Reply, ReleasePinned, PinnedToken,
       LosePinned, CreatedHere, NoFalseDurability, ServerInv, EndedInv, ReplyInv,
       KindInv
  <2>2. OpenInv'
    BY <1>3, SessionAssumption DEF BeginFail, Reply, ReleasePinned, PinnedToken,
       LosePinned, CreatedHere, OpenInv, ServerInv, CommandType, Command, PinInv, CmdInv
  <2> QED BY <2>1, <2>2
<1>4. ASSUME PrepareOK PROVE DurabilityInv'
  <2>1. (NoFalseDurability /\ ServerInv /\ OpenInv)'
    BY <1>4, SessionAssumption DEF PrepareOK, Reply, NoFalseDurability, ServerInv,
       OpenInv
  <2>2. EndedInv'
    BY <1>4, SessionAssumption DEF PrepareOK, Reply, EndedInv, ServerInv, CommandType,
       Command, PinInv, CmdInv
  <2>3. ReplyInv'
    BY <1>4, SessionAssumption DEF PrepareOK, Reply, ReplyInv, KindInv, CommandType,
       Command, CmdInv, SessionType, PreparedStatement
  <2>4. KindInv'
    BY <1>4, SessionAssumption DEF PrepareOK, Reply, KindInv, ServerInv, CommandType,
       Command, PinInv, CmdInv
  <2> QED BY <2>1, <2>2, <2>3, <2>4
<1>5. ASSUME PrepareFail PROVE DurabilityInv'
  <2>1. (NoFalseDurability /\ ServerInv /\ EndedInv /\ OpenInv /\ ReplyInv /\ KindInv)'
    BY <1>5, SessionAssumption DEF PrepareFail, Reply, ReleasePinned, PinnedToken,
       LosePinned, PinUnused, NoFalseDurability, ServerInv, EndedInv, OpenInv, ReplyInv,
       KindInv
  <2> QED BY <2>1
<1>6. ASSUME Reprepare PROVE DurabilityInv'
  <2>1. (NoFalseDurability /\ ServerInv /\ OpenInv)'
    BY <1>6, SessionAssumption DEF Reprepare, Reply, LosePinned, NoFalseDurability,
       ServerInv, OpenInv
  <2>2. EndedInv'
    BY <1>6, SessionAssumption DEF Reprepare, Reply, LosePinned, EndedInv, ServerInv,
       CommandType, Command, PinInv, CmdInv
  <2>3. ReplyInv'
    BY <1>6, SessionAssumption DEF Reprepare, Reply, LosePinned, ReplyInv, ServerInv,
       CommandType, Command, PinInv, CmdInv
  <2>4. KindInv'
    BY <1>6, SessionAssumption DEF Reprepare, Reply, LosePinned, KindInv, ServerInv,
       CommandType, Command, PinInv, CmdInv
  <2> QED BY <2>1, <2>2, <2>3, <2>4
<1>7. ASSUME Lease PROVE DurabilityInv'
  <2>1. (NoFalseDurability /\ ServerInv /\ OpenInv)'
    BY <1>7, SessionAssumption DEF Lease, Reply, NoFalseDurability, ServerInv, OpenInv
  <2>2. EndedInv'
    BY <1>7, SessionAssumption DEF Lease, Reply, EndedInv, ServerInv, CommandType,
       Command, PinInv, CmdInv
  <2>3. ReplyInv'
    BY <1>7, SessionAssumption DEF Lease, Reply, ReplyInv, ServerInv, CommandType,
       Command, PinInv, CmdInv
  <2>4. KindInv'
    BY <1>7, SessionAssumption DEF Lease, Reply, KindInv, ServerInv, CommandType,
       Command, PinInv, CmdInv
  <2> QED BY <2>1, <2>2, <2>3, <2>4
<1>8. ASSUME ExecOK PROVE DurabilityInv'
  <2>1. (NoFalseDurability /\ EndedInv /\ OpenInv /\ KindInv)'
    BY <1>8, SessionAssumption DEF ExecOK, Target, InsideTx, Durable, PendingAfter,
       NoFalseDurability, EndedInv, OpenInv, KindInv
  <2>2. srvTx' => srvTx
    BY <1>8, Zenon DEF ExecOK
  <2>3. ServerInv'
    <3>1. CASE srvTx'
      BY <1>8, <2>2, <3>1 DEF ExecOK, ServerInv
    <3>2. CASE ~srvTx /\ ~srvTx'
      BY <1>8, <3>2 DEF ExecOK, ServerInv, PendingAfter, InsideTx
    <3>3. CASE srvTx /\ ~srvTx'
      <4>1. cmd.kind = "ddl" /\ InsideTx
        BY <1>8, <3>3, Zenon DEF ExecOK
      <4> QED BY <1>8, <3>3, <4>1 DEF ExecOK, ServerInv, PendingAfter
    <3> QED BY <2>2, <3>1, <3>2, <3>3
  <2>4. ReplyInv'
    BY <1>8, SessionAssumption DEF ExecOK, Target, InsideTx, Durable, PendingAfter,
       ReplyInv, ServerInv, CommandType, Command, PinInv, CmdInv
  <2> QED BY <2>1, <2>3, <2>4
<1>9. ASSUME ExecError PROVE DurabilityInv'
  <2>1. (NoFalseDurability /\ ServerInv /\ EndedInv /\ OpenInv /\ ReplyInv /\ KindInv)'
    BY <1>9, SessionAssumption DEF ExecError, Reply, NoFalseDurability, ServerInv,
       EndedInv, OpenInv, ReplyInv, KindInv
  <2> QED BY <2>1
<1>10. ASSUME ExecAbort PROVE DurabilityInv'
  <2>1. (NoFalseDurability /\ ServerInv /\ EndedInv /\ OpenInv /\ ReplyInv /\ KindInv)'
    BY <1>10, SessionAssumption DEF ExecAbort, Reply, InsideTx, NoFalseDurability,
       ServerInv, EndedInv, OpenInv, ReplyInv, KindInv
  <2> QED BY <2>1
<1>11. ASSUME ExecLost PROVE DurabilityInv'
  <2>1. (NoFalseDurability /\ EndedInv /\ OpenInv /\ ReplyInv /\ KindInv)'
    BY <1>11, SessionAssumption DEF ExecLost, Reply, LoseTarget, Target, InsideTx,
       Durable, NoFalseDurability, EndedInv, OpenInv, ReplyInv, KindInv
  <2>2. IF lease # NilConn THEN srvTx' = srvTx ELSE ~srvTx'
    BY <1>11, Zenon DEF ExecLost, LoseTarget, FlagType
  <2>3. ServerInv'
    BY <1>11, <2>2 DEF ExecLost, LoseTarget, Target, ServerInv, PinInv
  <2> QED BY <2>1, <2>3
<1>12. ASSUME Warn PROVE DurabilityInv'
  <2>1. NoFalseDurability'
    BY <1>12, SessionAssumption DEF Warn, Reply, LoseTarget, Target, NoFalseDurability
  <2>2. LoseTarget => IF lease # NilConn THEN srvTx' = srvTx ELSE ~srvTx'
    BY Zenon DEF LoseTarget, FlagType
  <2>3. ServerInv'
    BY <1>12, <2>2 DEF Warn, LoseTarget, Target, ServerInv, PinInv
  <2>4. EndedInv'
    BY <1>12, SessionAssumption DEF Warn, Reply, LoseTarget, Target, EndedInv, KindInv,
       CommandType, Command, CmdInv, SessionType, PreparedStatement
  <2>5. OpenInv'
    BY <1>12, SessionAssumption DEF Warn, Reply, LoseTarget, Target, OpenInv, ServerInv,
       CommandType, Command, PinInv, CmdInv
  <2>6. ReplyInv'
    BY <1>12, SessionAssumption DEF Warn, Reply, LoseTarget, Target, ReplyInv,
       ServerInv, CommandType, Command, PinInv, CmdInv
  <2>7. KindInv'
    BY <1>12, SessionAssumption DEF Warn, Reply, LoseTarget, Target, KindInv, ServerInv,
       CommandType, Command, PinInv, CmdInv
  <2> QED BY <2>1, <2>3, <2>4, <2>5, <2>6, <2>7
<1>13. ASSUME CommitOK PROVE DurabilityInv'
  <2>1. (NoFalseDurability /\ ServerInv /\ OpenInv /\ KindInv)'
    BY <1>13, SessionAssumption DEF CommitOK, Reply, FinishTransaction, ReleasePinned,
       UpstreamConfirms, NoFalseDurability, ServerInv, OpenInv, KindInv
  <2>2. EndedInv'
    BY <1>13, SessionAssumption DEF CommitOK, Reply, FinishTransaction, ReleasePinned,
       UpstreamConfirms, NoFalseDurability, ServerInv, EndedInv, OpenInv, ReplyInv,
       KindInv, SessionType, CommandType, Command, PinInv, CmdInv, ServerType,
       LogicalType
  <2>3. ReplyInv'
    BY <1>13, SessionAssumption DEF CommitOK, Reply, FinishTransaction, ReleasePinned,
       UpstreamConfirms, ReplyInv, ServerInv, CommandType, Command, PinInv, CmdInv
  <2> QED BY <2>1, <2>2, <2>3
<1>14. ASSUME CommitFail PROVE DurabilityInv'
  <2>1. (NoFalseDurability /\ ServerInv /\ EndedInv /\ OpenInv /\ ReplyInv /\ KindInv)'
    BY <1>14, SessionAssumption DEF CommitFail, FinishTransaction, ReleasePinned,
       UpstreamConfirms, NoFalseDurability, ServerInv, EndedInv, OpenInv, ReplyInv,
       KindInv
  <2> QED BY <2>1
<1>15. ASSUME RollbackOK PROVE DurabilityInv'
  <2>1. (NoFalseDurability /\ ServerInv /\ OpenInv /\ KindInv)'
    BY <1>15, SessionAssumption DEF RollbackOK, Reply, FinishTransaction, ReleasePinned,
       UpstreamConfirms, NoFalseDurability, ServerInv, OpenInv, KindInv
  <2>2. EndedInv'
    BY <1>15, SessionAssumption DEF RollbackOK, Reply, FinishTransaction, ReleasePinned,
       UpstreamConfirms, EndedInv, ServerInv, CommandType, Command, PinInv, CmdInv
  <2>3. ReplyInv'
    BY <1>15, SessionAssumption DEF RollbackOK, Reply, FinishTransaction, ReleasePinned,
       UpstreamConfirms, ReplyInv, ServerInv, CommandType, Command, PinInv, CmdInv
  <2> QED BY <2>1, <2>2, <2>3
<1>16. ASSUME RollbackFail PROVE DurabilityInv'
  <2>1. (NoFalseDurability /\ ServerInv /\ OpenInv /\ ReplyInv /\ KindInv)'
    BY <1>16, SessionAssumption DEF RollbackFail, Reply, FinishTransaction,
       ReleasePinned, UpstreamConfirms, NoFalseDurability, ServerInv, OpenInv, ReplyInv,
       KindInv
  <2>2. EndedInv'
    BY <1>16, SessionAssumption DEF RollbackFail, Reply, FinishTransaction,
       ReleasePinned, UpstreamConfirms, EndedInv, ServerInv, CommandType, Command,
       PinInv, CmdInv
  <2> QED BY <2>1, <2>2
<1>17. ASSUME Deliver PROVE DurabilityInv'
  <2>1. (ServerInv /\ EndedInv /\ ReplyInv /\ KindInv)'
    BY <1>17, SessionAssumption DEF Deliver, Told, LeaseToken, NoCommand, ServerInv,
       EndedInv, ReplyInv, KindInv
  <2>2. NoFalseDurability'
    BY <1>17, SessionAssumption DEF Deliver, Told, LeaseToken, NoCommand,
       NoFalseDurability, ServerInv, EndedInv, OpenInv, ReplyInv, KindInv, SessionType,
       CommandType, Command, PinInv, CmdInv, ServerType, LogicalType
  <2>3. OpenInv'
    BY <1>17, SessionAssumption DEF Deliver, Told, LeaseToken, NoCommand,
       NoFalseDurability, ServerInv, EndedInv, OpenInv, ReplyInv, KindInv, SessionType,
       CommandType, Command, PinInv, CmdInv, ServerType, LogicalType
  <2> QED BY <2>1, <2>2, <2>3
<1>18. ASSUME Close PROVE DurabilityInv'
  <2>1. (NoFalseDurability /\ ServerInv /\ EndedInv /\ OpenInv /\ ReplyInv /\ KindInv)'
    BY <1>18, SessionAssumption DEF Close, NoCommand, NoHandles, Reset,
       NoFalseDurability, ServerInv, EndedInv, OpenInv, ReplyInv, KindInv
  <2> QED BY <2>1
<1>19. ASSUME Connect PROVE DurabilityInv'
  <2>1. (NoFalseDurability /\ ServerInv /\ EndedInv /\ OpenInv /\ ReplyInv /\ KindInv)'
    BY <1>19, SessionAssumption DEF Connect, NoFalseDurability, ServerInv, EndedInv,
       OpenInv, ReplyInv, KindInv
  <2> QED BY <2>1
<1>20. ASSUME ConnDies PROVE DurabilityInv'
  <2>1. (NoFalseDurability /\ ServerInv /\ EndedInv /\ OpenInv /\ ReplyInv /\ KindInv)'
    BY <1>20, SessionAssumption DEF ConnDies, LosePinned, NoFalseDurability, ServerInv,
       EndedInv, OpenInv, ReplyInv, KindInv
  <2> QED BY <2>1
<1>21. ASSUME QueryBegin PROVE DurabilityInv'
  <2>1. (NoFalseDurability /\ ServerInv /\ EndedInv /\ OpenInv /\ ReplyInv /\ KindInv)'
    BY <1>21, SessionAssumption DEF QueryBegin, Receive, PinThen, RefusedIf,
       NoFalseDurability, ServerInv, EndedInv, OpenInv, ReplyInv, KindInv
  <2> QED BY <2>1
<1>22. ASSUME NEW kind \in TextKinds, QueryEnd(kind) PROVE DurabilityInv'
  <2>1. (NoFalseDurability /\ ServerInv /\ EndedInv /\ OpenInv /\ ReplyInv /\ KindInv)'
    BY <1>22, SessionAssumption DEF QueryEnd, Receive, NoFalseDurability, ServerInv,
       EndedInv, OpenInv, ReplyInv, KindInv
  <2> QED BY <2>1
<1>23. ASSUME QuerySavepoint PROVE DurabilityInv'
  <2>1. (NoFalseDurability /\ ServerInv /\ EndedInv /\ OpenInv /\ ReplyInv /\ KindInv)'
    BY <1>23, SessionAssumption DEF QuerySavepoint, Receive, ApplyFails, RefusedIf,
       NoFalseDurability, ServerInv, EndedInv, OpenInv, ReplyInv, KindInv
  <2> QED BY <2>1
<1>24. ASSUME QueryAutocommitOff PROVE DurabilityInv'
  <2>1. (NoFalseDurability /\ ServerInv /\ EndedInv /\ OpenInv /\ ReplyInv /\ KindInv)'
    BY <1>24, SessionAssumption DEF QueryAutocommitOff, Receive, NoFalseDurability,
       ServerInv, EndedInv, OpenInv, ReplyInv, KindInv
  <2> QED BY <2>1
<1>25. ASSUME QueryAutocommitOn PROVE DurabilityInv'
  <2>1. (NoFalseDurability /\ ServerInv /\ EndedInv /\ OpenInv /\ ReplyInv /\ KindInv)'
    BY <1>25, SessionAssumption DEF QueryAutocommitOn, Receive, NoFalseDurability,
       ServerInv, EndedInv, OpenInv, ReplyInv, KindInv
  <2> QED BY <2>1
<1>26. ASSUME QueryDDL PROVE DurabilityInv'
  <2>1. (NoFalseDurability /\ ServerInv /\ EndedInv /\ OpenInv /\ ReplyInv /\ KindInv)'
    BY <1>26, SessionAssumption DEF QueryDDL, Receive, RefusedIf, NoFalseDurability,
       ServerInv, EndedInv, OpenInv, ReplyInv, KindInv
  <2> QED BY <2>1
<1>27. ASSUME NEW kind \in TextKinds, QueryData(kind) PROVE DurabilityInv'
  <2>1. (NoFalseDurability /\ ServerInv /\ EndedInv /\ OpenInv /\ ReplyInv /\ KindInv)'
    BY <1>27, SessionAssumption DEF QueryData, Receive, PinThen, DataStage,
       NoFalseDurability, ServerInv, EndedInv, OpenInv, ReplyInv, KindInv
  <2> QED BY <2>1
<1>28. ASSUME NEW answer \in {"ok", "error"}, Stateless(answer) PROVE DurabilityInv'
  <2>1. (NoFalseDurability /\ ServerInv /\ EndedInv /\ OpenInv /\ ReplyInv /\ KindInv)'
    BY <1>28, SessionAssumption DEF Stateless, Receive, NoFalseDurability, ServerInv,
       EndedInv, OpenInv, ReplyInv, KindInv
  <2> QED BY <2>1
<1>29. ASSUME NEW kind \in PreparedKinds, PrepareCommand(kind) PROVE DurabilityInv'
  <2>1. (NoFalseDurability /\ ServerInv /\ EndedInv /\ OpenInv /\ ReplyInv /\ KindInv)'
    BY <1>29, SessionAssumption DEF PrepareCommand, Receive, PinThen, RefusedIf,
       NoFalseDurability, ServerInv, EndedInv, OpenInv, ReplyInv, KindInv
  <2> QED BY <2>1
<1>30. ASSUME NEW id \in Ids, NEW wellFormed \in BOOLEAN, ExecuteCommand(id, wellFormed)
       PROVE  DurabilityInv'
  <2>1. (NoFalseDurability /\ ServerInv /\ EndedInv /\ ReplyInv)'
    BY <1>30, SessionAssumption DEF ExecuteCommand, Receive, PinThen, StatementStage,
       NoFalseDurability, ServerInv, EndedInv, ReplyInv
  <2>2. pc = "idle" /\ UNCHANGED <<tx, pinnedConnection, dead, txWrites, pending, committed>>
    BY <1>30 DEF ExecuteCommand, Receive
  <2>3. OpenInv'
    BY <2>2 DEF OpenInv
  <2>4. KindInv'
    BY <1>30, SessionAssumption DEF ExecuteCommand, Receive, PinThen, StatementStage,
       KindInv, CommandType, Command, CmdInv, SessionType, PreparedStatement
  <2> QED BY <2>1, <2>3, <2>4
<1>31. ASSUME NEW id \in Ids, ClosePrepared(id) PROVE DurabilityInv'
  <2>1. (NoFalseDurability /\ ServerInv /\ EndedInv /\ OpenInv /\ ReplyInv /\ KindInv)'
    BY <1>31, SessionAssumption DEF ClosePrepared, ReleasePinned, PinnedToken, LastUse,
       NoFalseDurability, ServerInv, EndedInv, OpenInv, ReplyInv, KindInv
  <2> QED BY <2>1
<1> QED BY <1>1, <1>2, <1>3, <1>4, <1>5, <1>6, <1>7, <1>8, <1>9, <1>10, <1>11, <1>12,
   <1>13, <1>14, <1>15, <1>16, <1>17, <1>18, <1>19, <1>20, <1>21, <1>22, <1>23, <1>24,
   <1>25, <1>26, <1>27, <1>28, <1>29, <1>30, <1>31, Zenon DEF Next, Commands, Handler, Query

\* The invariant holds throughout.
THEOREM SpecDurability ==
  ASSUME MaxPreparedID < IdSpace PROVE Spec => []DurabilityInv
<1>1. Init => DurabilityInv
  BY DEF Init, NoCommand, DurabilityInv, NoFalseDurability, ServerInv, EndedInv, OpenInv,
     ReplyInv, KindInv
<1>2. ASSUME DurabilityInv, UNCHANGED vars PROVE DurabilityInv'
  BY <1>2 DEF vars, sessionVars, pinVars, serverVars, toldVars, historyVars, DurabilityInv,
     NoFalseDurability, ServerInv, EndedInv, OpenInv, ReplyInv, KindInv
<1>3. ControlInv /\ DurabilityInv /\ [Next]_vars => DurabilityInv'
  BY <1>2, StepDurability
<1> QED BY <1>1, <1>3, SessionControl, PTL DEF Spec

\* Whatever fails upstream, and in whatever order, a client is never told that a
\* write is durable when MySQL does not have it.
THEOREM SessionDurability ==
  ASSUME MaxPreparedID < IdSpace PROVE Spec => []NoFalseDurability
<1>1. DurabilityInv => NoFalseDurability
  BY DEF DurabilityInv
<1> QED BY <1>1, SpecDurability, PTL
-----------------------------------------------------------------------------
\* A client gives every write a number of its own: one that MySQL has not executed
\* yet is in none of the sets, and one that is not answered yet in none of what
\* the client was told.
FreshInv ==
    /\ committed \cup pending \cup txWrites \cup undone \subseteq 1..(nextWrite - 1)
    /\ cmd.write < nextWrite
    /\ pc \in {"pin", "begin", "lease", "prepare", "reprepare", "exec"} =>
          cmd.write \notin committed \cup pending
    /\ cmd.write \notin txWrites \cup undone

\* For clients that neither prepare DDL nor turn autocommit off: MySQL leaves an
\* open s.tx on a live connection only by aborting it, and no DDL runs inside.
OrderlyInv ==
    /\ state.Autocommit
    /\ tx /\ ~srvTx /\ pinnedConnection \notin dead => aborted
    /\ \A id \in DOMAIN prepared : prepared[id].kind # "ddl"
    /\ cmd.kind = "ddl" => cmd.op = "query" /\ pc \in {"lease", "exec", "warn", "reply"}
    /\ cmd.kind = "ddl" /\ pc # "reply" => ~tx

\* What the client was told is rolled back MySQL neither has nor may still
\* commit; an acknowledged write of the open transaction becomes durable only
\* with the COMMIT that ends it.
UndoInv ==
    /\ undone \cap (committed \cup pending) = {}
    /\ txWrites \cap committed # {} =>
          pc = "fail" \/ (pc = "reply" /\ cmd.kind \in {"commit", "autocommit_on"})
    /\ pc = "reply" /\ cmd.kind = "rollback" => ~tx
    /\ tx /\ pc \in {"warn", "reply"} /\ cmd.write # 0 /\ ~aborted => cmd.write \notin committed

RollbackInv == FreshInv /\ OrderlyInv /\ UndoInv

\* The handles that are left keep the statements they were prepared for.
SameKinds == \A id \in DOMAIN prepared' :
                id \in DOMAIN prepared /\ prepared'[id].kind = prepared[id].kind

\* finishTransaction changes the kind of no handle.
LEMMA FinishKinds ==
  ASSUME NEW lost, FinishTransaction(lost), SessionType PROVE SameKinds
  BY DEF FinishTransaction, Invalidated, SameKinds, SessionType, PreparedStatement

\* Receiving a command: its write is a fresh one, and DDL goes to a connection of
\* its own.
LEMMA ReceiveRollback ==
  ASSUME RollbackInv, CommandType, ServerType, HistoryType,
         NEW op, NEW kind, NEW id, NEW stage, NEW answer,
         Receive(op, kind, id, stage, answer),
         UNCHANGED prepared, state'.Autocommit,
         stage = "reply" /\ kind = "rollback" => ~tx,
         kind = "ddl" => op = "query" /\ (stage = "reply" \/ (stage = "lease" /\ ~tx))
  PROVE  RollbackInv'
<1> USE DEF serverVars, toldVars, pinVars, RollbackInv
<1>1. /\ UNCHANGED <<tx, pinnedConnection, dead, srvTx, pending, committed, txWrites, aborted, undone>>
      /\ pc' = stage /\ cmd'.kind = kind /\ cmd'.op = op
  BY DEF Receive
<1>2. \/ cmd'.write = 0 /\ nextWrite' = nextWrite
      \/ cmd'.write = nextWrite /\ nextWrite' = nextWrite + 1
  BY DEF Receive
<1>3. nextWrite \in Nat \ {0} /\ 0 \notin committed \cup pending \cup txWrites \cup undone
  BY SessionAssumption DEF ServerType, HistoryType, Writes
<1>4. cmd'.write \notin committed \cup pending \cup txWrites \cup undone
  BY <1>2, <1>3 DEF FreshInv
<1>5. FreshInv'
  <2>1. (committed \cup pending \cup txWrites \cup undone)' \subseteq 1..(nextWrite' - 1)
    BY <1>1, <1>2, <1>3 DEF FreshInv
  <2>2. cmd'.write < nextWrite'
    BY <1>2, <1>3
  <2> QED BY <1>1, <1>4, <2>1, <2>2 DEF FreshInv
<1>6. OrderlyInv'
  BY <1>1 DEF OrderlyInv
<1>7. UndoInv'
  <2>1. txWrites \cap committed = {}
    BY DEF Receive, UndoInv
  <2> QED BY <1>1, <1>4, <2>1 DEF UndoInv
<1> QED BY <1>5, <1>6, <1>7

\* Every step keeps a rolled-back write out of MySQL.
LEMMA StepRollback ==
  ASSUME "autocommit_off" \notin TextKinds, "ddl" \notin PreparedKinds,
         ControlInv, DurabilityInv, RollbackInv, Next
  PROVE  RollbackInv'
<1> USE DEF ControlInv, TypeOK, DurabilityInv, RollbackInv, sessionVars, pinVars,
   serverVars, toldVars, historyVars
<1>1. ASSUME Pin PROVE RollbackInv'
  <2>1. FreshInv'
    BY <1>1, SessionAssumption DEF Pin, Reply, FreshInv, CommandType, Command,
       ServerType, HistoryType, CmdInv
  <2>2. OrderlyInv'
    BY <1>1, SessionAssumption DEF Pin, Reply, OrderlyInv, SessionType,
       LogicalType, PreparedStatement, CommandType, Command, CmdInv, PinInv
  <2>3. UndoInv'
    BY <1>1, SessionAssumption DEF Pin, Reply, UndoInv, FreshInv, OrderlyInv,
       EndedInv, CommandType, Command, ServerType, CmdInv, PinInv, ServerInv, KindInv
  <2> QED BY <2>1, <2>2, <2>3 DEF RollbackInv
<1>2. ASSUME BeginOK PROVE RollbackInv'
  <2>1. FreshInv'
    BY <1>2, SessionAssumption DEF BeginOK, StatementStage, ApplyFails, Apply,
       FreshInv, CommandType, Command, ServerType, HistoryType, CmdInv
  <2>2. OrderlyInv'
    BY <1>2, SessionAssumption DEF BeginOK, StatementStage, ApplyFails, Apply,
       OrderlyInv, SessionType, LogicalType, PreparedStatement, CommandType, Command,
       CmdInv, PinInv
  <2>3. UndoInv'
    BY <1>2, SessionAssumption DEF BeginOK, StatementStage, ApplyFails, Apply,
       UndoInv, FreshInv, OrderlyInv, EndedInv, CommandType, Command, ServerType,
       CmdInv, PinInv, ServerInv, KindInv
  <2> QED BY <2>1, <2>2, <2>3 DEF RollbackInv
<1>3. ASSUME BeginFail PROVE RollbackInv'
  <2>1. FreshInv'
    BY <1>3, SessionAssumption DEF BeginFail, Reply, ReleasePinned, LosePinned,
       CreatedHere, FreshInv, CommandType, Command, ServerType, HistoryType, CmdInv
  <2>2. OrderlyInv'
    BY <1>3, SessionAssumption DEF BeginFail, Reply, ReleasePinned, LosePinned,
       CreatedHere, OrderlyInv, SessionType, LogicalType, PreparedStatement,
       CommandType, Command, CmdInv, PinInv
  <2>3. UndoInv'
    BY <1>3, SessionAssumption DEF BeginFail, Reply, ReleasePinned, LosePinned,
       CreatedHere, UndoInv, FreshInv, OrderlyInv, EndedInv, CommandType, Command,
       ServerType, CmdInv, PinInv, ServerInv, KindInv
  <2> QED BY <2>1, <2>2, <2>3 DEF RollbackInv
<1>4. ASSUME PrepareOK PROVE RollbackInv'
  <2>1. FreshInv'
    BY <1>4, SessionAssumption DEF PrepareOK, Reply, AddPrepared, FreshInv,
       CommandType, Command, ServerType, HistoryType, CmdInv
  <2>2. OrderlyInv'
    BY <1>4, SessionAssumption DEF PrepareOK, Reply, AddPrepared, OrderlyInv,
       SessionType, LogicalType, PreparedStatement, CommandType, Command, CmdInv, PinInv
  <2>3. UndoInv'
    BY <1>4, SessionAssumption DEF PrepareOK, Reply, AddPrepared, UndoInv,
       FreshInv, OrderlyInv, EndedInv, CommandType, Command, ServerType, CmdInv, PinInv,
       ServerInv, KindInv
  <2> QED BY <2>1, <2>2, <2>3 DEF RollbackInv
<1>5. ASSUME PrepareFail PROVE RollbackInv'
  <2>1. FreshInv'
    BY <1>5, SessionAssumption DEF PrepareFail, Reply, ReleasePinned, LosePinned,
       PinUnused, FreshInv, CommandType, Command, ServerType, HistoryType, CmdInv
  <2>2. OrderlyInv'
    BY <1>5, SessionAssumption DEF PrepareFail, Reply, ReleasePinned, LosePinned,
       PinUnused, OrderlyInv, SessionType, LogicalType, PreparedStatement, CommandType,
       Command, CmdInv, PinInv
  <2>3. UndoInv'
    BY <1>5, SessionAssumption DEF PrepareFail, Reply, ReleasePinned, LosePinned,
       PinUnused, UndoInv, FreshInv, OrderlyInv, EndedInv, CommandType, Command,
       ServerType, CmdInv, PinInv, ServerInv, KindInv
  <2> QED BY <2>1, <2>2, <2>3 DEF RollbackInv
<1>6. ASSUME Reprepare PROVE RollbackInv'
  <2>1. FreshInv'
    BY <1>6, SessionAssumption DEF Reprepare, Reply, LosePinned, FreshInv,
       CommandType, Command, ServerType, HistoryType, CmdInv
  <2>2. OrderlyInv'
    BY <1>6, SessionAssumption DEF Reprepare, Reply, LosePinned, OrderlyInv,
       SessionType, LogicalType, PreparedStatement, CommandType, Command, CmdInv, PinInv
  <2>3. UndoInv'
    BY <1>6, SessionAssumption DEF Reprepare, Reply, LosePinned, UndoInv,
       FreshInv, OrderlyInv, EndedInv, CommandType, Command, ServerType, CmdInv, PinInv,
       ServerInv, KindInv
  <2> QED BY <2>1, <2>2, <2>3 DEF RollbackInv
<1>7. ASSUME Lease PROVE RollbackInv'
  <2>1. FreshInv'
    BY <1>7, SessionAssumption DEF Lease, Reply, FreshInv, CommandType, Command,
       ServerType, HistoryType, CmdInv
  <2>2. OrderlyInv'
    BY <1>7, SessionAssumption DEF Lease, Reply, OrderlyInv, SessionType,
       LogicalType, PreparedStatement, CommandType, Command, CmdInv, PinInv
  <2>3. UndoInv'
    BY <1>7, SessionAssumption DEF Lease, Reply, UndoInv, FreshInv, OrderlyInv,
       EndedInv, CommandType, Command, ServerType, CmdInv, PinInv, ServerInv, KindInv
  <2> QED BY <2>1, <2>2, <2>3 DEF RollbackInv
<1>8. ASSUME ExecOK PROVE RollbackInv'
  <2>1. FreshInv'
    BY <1>8, SessionAssumption DEF ExecOK, Target, InsideTx, Durable,
       PendingAfter, FreshInv, CommandType, Command, ServerType, HistoryType, CmdInv
  <2>2. OrderlyInv'
    BY <1>8, SessionAssumption DEF ExecOK, Target, InsideTx, Durable,
       PendingAfter, OrderlyInv, SessionType, LogicalType, PreparedStatement,
       CommandType, Command, CmdInv, PinInv
  <2>3. UndoInv'
    BY <1>8, SessionAssumption DEF ExecOK, Target, InsideTx, Durable,
       PendingAfter, UndoInv, FreshInv, OrderlyInv, EndedInv, CommandType, Command,
       ServerType, CmdInv, PinInv, ServerInv, KindInv
  <2> QED BY <2>1, <2>2, <2>3 DEF RollbackInv
<1>9. ASSUME ExecError PROVE RollbackInv'
  <2>1. FreshInv'
    BY <1>9, SessionAssumption DEF ExecError, Reply, FreshInv, CommandType,
       Command, ServerType, HistoryType, CmdInv
  <2>2. OrderlyInv'
    BY <1>9, SessionAssumption DEF ExecError, Reply, OrderlyInv, SessionType,
       LogicalType, PreparedStatement, CommandType, Command, CmdInv, PinInv
  <2>3. UndoInv'
    BY <1>9, SessionAssumption DEF ExecError, Reply, UndoInv, FreshInv,
       OrderlyInv, EndedInv, CommandType, Command, ServerType, CmdInv, PinInv,
       ServerInv, KindInv
  <2> QED BY <2>1, <2>2, <2>3 DEF RollbackInv
<1>10. ASSUME ExecAbort PROVE RollbackInv'
  <2>1. FreshInv'
    BY <1>10, SessionAssumption DEF ExecAbort, Reply, InsideTx, FreshInv,
       CommandType, Command, ServerType, HistoryType, CmdInv
  <2>2. OrderlyInv'
    BY <1>10, SessionAssumption DEF ExecAbort, Reply, InsideTx, OrderlyInv,
       SessionType, LogicalType, PreparedStatement, CommandType, Command, CmdInv, PinInv
  <2>3. UndoInv'
    BY <1>10, SessionAssumption DEF ExecAbort, Reply, InsideTx, UndoInv,
       FreshInv, OrderlyInv, EndedInv, CommandType, Command, ServerType, CmdInv, PinInv,
       ServerInv, KindInv
  <2> QED BY <2>1, <2>2, <2>3 DEF RollbackInv
<1>11. ASSUME ExecLost PROVE RollbackInv'
  <2>1. FreshInv'
    BY <1>11, SessionAssumption DEF ExecLost, Reply, LoseTarget, Target,
       InsideTx, Durable, FreshInv, CommandType, Command, ServerType, HistoryType,
       CmdInv
  <2>2. OrderlyInv'
    BY <1>11, SessionAssumption DEF ExecLost, Reply, LoseTarget, Target,
       InsideTx, Durable, OrderlyInv, SessionType, LogicalType, PreparedStatement,
       CommandType, Command, CmdInv, PinInv
  <2>3. UndoInv'
    BY <1>11, SessionAssumption DEF ExecLost, Reply, LoseTarget, Target,
       InsideTx, Durable, UndoInv, FreshInv, OrderlyInv, EndedInv, CommandType, Command,
       ServerType, CmdInv, PinInv, ServerInv, KindInv
  <2> QED BY <2>1, <2>2, <2>3 DEF RollbackInv
<1>12. ASSUME Warn PROVE RollbackInv'
  <2>1. FreshInv'
    BY <1>12, SessionAssumption DEF Warn, Reply, LoseTarget, Target, FreshInv,
       CommandType, Command, ServerType, HistoryType, CmdInv
  <2>2. OrderlyInv'
    BY <1>12, SessionAssumption DEF Warn, Reply, LoseTarget, Target, OrderlyInv,
       SessionType, LogicalType, PreparedStatement, CommandType, Command, CmdInv, PinInv
  <2>3. UndoInv'
    BY <1>12, SessionAssumption DEF Warn, Reply, LoseTarget, Target, UndoInv,
       FreshInv, OrderlyInv, EndedInv, CommandType, Command, ServerType, CmdInv, PinInv,
       ServerInv, KindInv
  <2> QED BY <2>1, <2>2, <2>3 DEF RollbackInv
<1>13. ASSUME CommitOK PROVE RollbackInv'
  <2>1. FreshInv'
    BY <1>13, SessionAssumption DEF CommitOK, Reply, FinishTransaction,
       ReleasePinned, FreshInv, CommandType, Command, ServerType, HistoryType, CmdInv
  <2>2. OrderlyInv'
    <3>1. SameKinds  BY <1>13, FinishKinds DEF CommitOK
    <3>2. Differs(state', state, IF cmd.kind = "commit" THEN state.Autocommit ELSE TRUE, FALSE, state.Prepared,
                 state.poisoned)
      BY <1>13, LogicalUpdates, Zenon DEF CommitOK, SessionType, CmdInv
    <3>3. state'.Autocommit  BY <3>2, Zenon DEF Differs, OrderlyInv
    <3> QED BY <1>13, <3>1, <3>3 DEF CommitOK, Reply, FinishTransaction, ReleasePinned, SameKinds, OrderlyInv, CommandType, Command, CmdInv
  <2>3. UndoInv'
    BY <1>13, SessionAssumption DEF CommitOK, Reply, FinishTransaction,
       ReleasePinned, UndoInv, FreshInv, OrderlyInv, EndedInv, CommandType, Command,
       ServerType, CmdInv, PinInv, ServerInv, KindInv
  <2> QED BY <2>1, <2>2, <2>3 DEF RollbackInv
<1>14. ASSUME CommitFail PROVE RollbackInv'
  <2>1. FreshInv'
    BY <1>14, SessionAssumption DEF CommitFail, FinishTransaction, ReleasePinned,
       Poison, FreshInv, CommandType, Command, ServerType, HistoryType, CmdInv
  <2>2. OrderlyInv'
    <3>1. SameKinds  BY <1>14, FinishKinds DEF CommitFail
    <3>2. Differs(state', state, state.Autocommit, state.InTransaction, state.Prepared, TRUE)
      BY <1>14, LogicalUpdates, Zenon DEF CommitFail, SessionType
    <3>3. state'.Autocommit  BY <3>2, Zenon DEF Differs, OrderlyInv
    <3> QED BY <1>14, <3>1, <3>3 DEF CommitFail, Reply, FinishTransaction, ReleasePinned, SameKinds, OrderlyInv, CommandType, Command, CmdInv
  <2>3. UndoInv'
    BY <1>14, SessionAssumption DEF CommitFail, FinishTransaction, ReleasePinned,
       Poison, UndoInv, FreshInv, OrderlyInv, EndedInv, CommandType, Command,
       ServerType, CmdInv, PinInv, ServerInv, KindInv
  <2> QED BY <2>1, <2>2, <2>3 DEF RollbackInv
<1>15. ASSUME RollbackOK PROVE RollbackInv'
  <2>1. FreshInv'
    BY <1>15, SessionAssumption DEF RollbackOK, Reply, FinishTransaction,
       ReleasePinned, FreshInv, CommandType, Command, ServerType, HistoryType, CmdInv
  <2>2. OrderlyInv'
    <3>1. SameKinds  BY <1>15, FinishKinds DEF RollbackOK
    <3>2. Differs(state', state, state.Autocommit, FALSE, state.Prepared, state.poisoned)
      BY <1>15, LogicalUpdates, Zenon DEF RollbackOK, SessionType
    <3>3. state'.Autocommit  BY <3>2, Zenon DEF Differs, OrderlyInv
    <3> QED BY <1>15, <3>1, <3>3 DEF RollbackOK, Reply, FinishTransaction, ReleasePinned, SameKinds, OrderlyInv, CommandType, Command, CmdInv
  <2>3. UndoInv'
    BY <1>15, SessionAssumption DEF RollbackOK, Reply, FinishTransaction,
       ReleasePinned, UndoInv, FreshInv, OrderlyInv, EndedInv, CommandType, Command,
       ServerType, CmdInv, PinInv, ServerInv, KindInv
  <2> QED BY <2>1, <2>2, <2>3 DEF RollbackInv
<1>16. ASSUME RollbackFail PROVE RollbackInv'
  <2>1. FreshInv'
    BY <1>16, SessionAssumption DEF RollbackFail, Reply, FinishTransaction,
       ReleasePinned, Poison, FreshInv, CommandType, Command, ServerType, HistoryType,
       CmdInv
  <2>2. OrderlyInv'
    <3>1. SameKinds  BY <1>16, FinishKinds DEF RollbackFail
    <3>2. Differs(state', state, state.Autocommit, state.InTransaction, state.Prepared, TRUE)
      BY <1>16, LogicalUpdates, Zenon DEF RollbackFail, SessionType
    <3>3. state'.Autocommit  BY <3>2, Zenon DEF Differs, OrderlyInv
    <3> QED BY <1>16, <3>1, <3>3 DEF RollbackFail, Reply, FinishTransaction, ReleasePinned, SameKinds, OrderlyInv, CommandType, Command, CmdInv
  <2>3. UndoInv'
    BY <1>16, SessionAssumption DEF RollbackFail, Reply, FinishTransaction,
       ReleasePinned, Poison, UndoInv, FreshInv, OrderlyInv, EndedInv, CommandType,
       Command, ServerType, CmdInv, PinInv, ServerInv, KindInv
  <2> QED BY <2>1, <2>2, <2>3 DEF RollbackInv
<1>17. ASSUME Deliver PROVE RollbackInv'
  <2>1. FreshInv'
    BY <1>17, SessionAssumption DEF Deliver, Told, NoCommand, FreshInv,
       CommandType, Command, ServerType, HistoryType, CmdInv
  <2>2. OrderlyInv'
    BY <1>17, SessionAssumption DEF Deliver, Told, NoCommand, OrderlyInv,
       SessionType, LogicalType, PreparedStatement, CommandType, Command, CmdInv, PinInv
  <2>3. UndoInv'
    BY <1>17, SessionAssumption DEF Deliver, Told, NoCommand, UndoInv, FreshInv,
       OrderlyInv, EndedInv, CommandType, Command, ServerType, CmdInv, PinInv,
       ServerInv, KindInv
  <2> QED BY <2>1, <2>2, <2>3 DEF RollbackInv
<1>18. ASSUME Close PROVE RollbackInv'
  <2>1. FreshInv'
    BY <1>18, SessionAssumption DEF Close, NoCommand, NoHandles, Reset,
       NewLogical, FreshInv, CommandType, Command, ServerType, HistoryType, CmdInv
  <2>2. OrderlyInv'
    BY <1>18, SessionAssumption DEF Close, NoCommand, NoHandles, Reset,
       NewLogical, OrderlyInv, SessionType, LogicalType, PreparedStatement, CommandType,
       Command, CmdInv, PinInv
  <2>3. UndoInv'
    BY <1>18, SessionAssumption, Zenon DEF Close, NoCommand, NoHandles, Reset,
       NewLogical, UndoInv, FreshInv, OrderlyInv, EndedInv, CommandType, Command,
       ServerType, CmdInv, PinInv, ServerInv, KindInv
  <2> QED BY <2>1, <2>2, <2>3 DEF RollbackInv
<1>19. ASSUME Connect PROVE RollbackInv'
  <2>1. FreshInv'
    BY <1>19, SessionAssumption DEF Connect, NewLogical, FreshInv, CommandType,
       Command, ServerType, HistoryType, CmdInv
  <2>2. OrderlyInv'
    BY <1>19, SessionAssumption DEF Connect, NewLogical, OrderlyInv, SessionType,
       LogicalType, PreparedStatement, CommandType, Command, CmdInv, PinInv
  <2>3. UndoInv'
    BY <1>19, SessionAssumption, Zenon DEF Connect, NewLogical, UndoInv, FreshInv,
       OrderlyInv, EndedInv, CommandType, Command, ServerType, CmdInv, PinInv,
       ServerInv, KindInv
  <2> QED BY <2>1, <2>2, <2>3 DEF RollbackInv
<1>20. ASSUME ConnDies PROVE RollbackInv'
  <2>1. FreshInv'
    BY <1>20, SessionAssumption DEF ConnDies, LosePinned, FreshInv, CommandType,
       Command, ServerType, HistoryType, CmdInv
  <2>2. OrderlyInv'
    BY <1>20, SessionAssumption DEF ConnDies, LosePinned, OrderlyInv,
       SessionType, LogicalType, PreparedStatement, CommandType, Command, CmdInv, PinInv
  <2>3. UndoInv'
    BY <1>20, SessionAssumption, Zenon DEF ConnDies, LosePinned, UndoInv, FreshInv,
       OrderlyInv, EndedInv, CommandType, Command, ServerType, CmdInv, PinInv,
       ServerInv, KindInv
  <2> QED BY <2>1, <2>2, <2>3 DEF RollbackInv
<1>21. ASSUME QueryBegin PROVE RollbackInv'
  BY <1>21, ReceiveRollback, Zenon DEF QueryBegin, OrderlyInv
<1>22. ASSUME NEW kind \in TextKinds, QueryEnd(kind) PROVE RollbackInv'
  BY <1>22, ReceiveRollback, Zenon DEF QueryEnd, OrderlyInv
<1>23. ASSUME QuerySavepoint PROVE RollbackInv'
  BY <1>23, ReceiveRollback DEF QuerySavepoint, OrderlyInv
<1>24. ASSUME QueryAutocommitOn PROVE RollbackInv'
  <2>1. state'.Autocommit
    <3>1. CASE tx
      BY <1>24, <3>1 DEF QueryAutocommitOn, OrderlyInv
    <3>2. CASE ~tx
      <4>1. Differs(state', state, TRUE, FALSE, state.Prepared, state.poisoned)
        BY <1>24, <3>2, LogicalUpdates, Zenon DEF QueryAutocommitOn, SessionType
      <4> QED BY <4>1, Zenon DEF Differs
    <3> QED BY <3>1, <3>2
  <2> QED BY <1>24, <2>1, ReceiveRollback DEF QueryAutocommitOn
<1>25. ASSUME QueryDDL PROVE RollbackInv'
  BY <1>25, ReceiveRollback DEF QueryDDL, OrderlyInv
<1>26. ASSUME NEW kind \in TextKinds, QueryData(kind) PROVE RollbackInv'
  BY <1>26, ReceiveRollback DEF QueryData, OrderlyInv
<1>27. ASSUME NEW answer \in {"ok", "error"}, Stateless(answer) PROVE RollbackInv'
  BY <1>27, ReceiveRollback DEF Stateless, OrderlyInv
<1>28. ASSUME NEW kind \in PreparedKinds, PrepareCommand(kind) PROVE RollbackInv'
  BY <1>28, ReceiveRollback, SessionAssumption DEF PrepareCommand, OrderlyInv
<1>29. ASSUME NEW id \in Ids, NEW wellFormed \in BOOLEAN, ExecuteCommand(id, wellFormed)
       PROVE  RollbackInv'
  <2>1. CASE id \in DOMAIN prepared /\ wellFormed
    <3>1. prepared[id].kind \notin {"ddl", "rollback"}
      BY <2>1 DEF OrderlyInv, SessionType, PreparedStatement
    <3> QED BY <1>29, <2>1, <3>1, ReceiveRollback DEF ExecuteCommand, OrderlyInv
  <2>2. CASE ~(id \in DOMAIN prepared /\ wellFormed)
    BY <1>29, <2>2, ReceiveRollback DEF ExecuteCommand, OrderlyInv
  <2> QED BY <2>1, <2>2
<1>30. ASSUME NEW id \in Ids, ClosePrepared(id) PROVE RollbackInv'
  <2>1. FreshInv'
    BY <1>30, SessionAssumption DEF ClosePrepared, ReleasePinned, LastUse,
       RemovePrepared, FreshInv, CommandType, Command, ServerType, HistoryType, CmdInv
  <2>2. OrderlyInv'
    BY <1>30, SessionAssumption DEF ClosePrepared, ReleasePinned, LastUse,
       RemovePrepared, OrderlyInv, SessionType, LogicalType, PreparedStatement,
       CommandType, Command, CmdInv, PinInv
  <2>3. UndoInv'
    BY <1>30, SessionAssumption DEF ClosePrepared, ReleasePinned, LastUse,
       RemovePrepared, UndoInv, FreshInv, OrderlyInv, EndedInv, CommandType, Command,
       ServerType, CmdInv, PinInv, ServerInv, KindInv
  <2> QED BY <2>1, <2>2, <2>3 DEF RollbackInv
<1> QED BY <1>1, <1>2, <1>3, <1>4, <1>5, <1>6, <1>7, <1>8, <1>9, <1>10, <1>11, <1>12, <1>13, <1>14, <1>15, <1>16, <1>17, <1>18, <1>19, <1>20, <1>21, <1>22, <1>23, <1>24, <1>25, <1>26, <1>27, <1>28, <1>29, <1>30 DEF Next, Commands, Handler, Query

\* For clients that neither prepare DDL nor turn autocommit off, a write whose
\* transaction the client was told is rolled back never becomes durable, whatever
\* fails upstream.
THEOREM SessionRollback ==
  ASSUME MaxPreparedID < IdSpace, "autocommit_off" \notin TextKinds, "ddl" \notin PreparedKinds
  PROVE  Spec => []RollbackUndoes
<1>1. Init => RollbackInv
  BY SessionAssumption DEF Init, NoCommand, NoHandles, NewLogical, RollbackInv, FreshInv,
     OrderlyInv, UndoInv
<1>2. ASSUME RollbackInv, UNCHANGED vars PROVE RollbackInv'
  BY <1>2 DEF vars, sessionVars, pinVars, serverVars, toldVars, historyVars, RollbackInv,
     FreshInv, OrderlyInv, UndoInv
<1>3. ControlInv /\ DurabilityInv /\ RollbackInv /\ [Next]_vars => RollbackInv'
  BY <1>2, StepRollback
<1>4. RollbackInv => RollbackUndoes
  BY DEF RollbackInv, UndoInv, RollbackUndoes
<1> QED BY <1>1, <1>3, <1>4, SessionControl, SpecDurability, PTL DEF Spec
=============================================================================
