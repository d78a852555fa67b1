------------------------------ MODULE Protocol ------------------------------
(***************************************************************************)
(* What a client says to the process and is told: how it logs in (Logins), *)
(* and, once it has, the statements it sends and the replies it reads      *)
(* (Prepared).  Each behaviour follows one of the two; the other keeps its *)
(* initial state.                                                          *)
(***************************************************************************)
EXTENDS Logins, Prepared

VARIABLE subject  \* "login" or "statement"

ProtocolInit ==
    /\ subject \in {"login", "statement"}
    /\ IF subject = "login" THEN LoginsInit ELSE door = "admin" /\ LoginsInit
    /\ IF subject = "statement" THEN PreparedInit ELSE stage = "reply" /\ PreparedInit
ProtocolNext ==
    \/ subject = "login" /\ LoginsNext /\ UNCHANGED <<subject, preparedVars>>
    \/ subject = "statement" /\ PreparedNext /\ UNCHANGED <<subject, loginVars>>
ProtocolSpec == ProtocolInit /\ [][ProtocolNext]_<<subject, loginVars, preparedVars>>

-----------------------------------------------------------------------------
(* Types of the handshakes, the tables of failures, arguments and replies. *)
ProtocolTypes == TypeOK /\ AdminTypes /\ ArgumentTypes /\ ResponseTypes
=============================================================================
