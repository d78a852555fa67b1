------------------------------ MODULE Logical ------------------------------
(***************************************************************************)
(* The logical session record of internal/session/logical.go: the state of *)
(* one client that outlives the upstream connections it borrows.  Fields   *)
(* that no accepted statement changes (isolation, time zone, SQL mode, the *)
(* selected database, which must be the configured one) and the response   *)
(* fields Warnings and LastInsertID are left out.                          *)
(***************************************************************************)

NewLogical == [Autocommit |-> TRUE, InTransaction |-> FALSE,
               Prepared |-> {}, poisoned |-> FALSE]

\* Logical.Reset gives back the fresh record; Disconnect is Reset.
Reset(st) == NewLogical

LogicalType(Ids) == [Autocommit : BOOLEAN, InTransaction : BOOLEAN,
                     Prepared : SUBSET Ids, poisoned : BOOLEAN]

\* The statement kinds for which Apply returns ErrIllegalTransition.
ApplyFails(st, kind) ==
    \/ kind = "begin" /\ st.InTransaction
    \/ kind = "savepoint" /\ ~st.InTransaction

\* A mutated form of Apply: SET AUTOCOMMIT=1 keeps the in-transaction bit.
MutApply(st, kind) ==
    CASE kind = "begin"                  -> [st EXCEPT !.InTransaction = TRUE]
      [] kind \in {"commit", "rollback"} -> [st EXCEPT !.InTransaction = FALSE]
      [] kind = "autocommit_off"         -> [st EXCEPT !.Autocommit = FALSE]
      [] kind = "autocommit_on"          -> [st EXCEPT !.Autocommit = TRUE]
      [] OTHER                           -> st

Apply(st, kind) ==
    CASE kind = "begin"                  -> [st EXCEPT !.InTransaction = TRUE]
      [] kind \in {"commit", "rollback"} -> [st EXCEPT !.InTransaction = FALSE]
      [] kind = "autocommit_off"         -> [st EXCEPT !.Autocommit = FALSE]
      [] kind = "autocommit_on"          -> [st EXCEPT !.Autocommit = TRUE,
                                                       !.InTransaction = FALSE]
      [] OTHER                           -> st

AddPrepared(st, id)    == [st EXCEPT !.Prepared = @ \cup {id}]
RemovePrepared(st, id) == [st EXCEPT !.Prepared = @ \ {id}]
Poison(st)             == [st EXCEPT !.poisoned = TRUE]
=============================================================================
