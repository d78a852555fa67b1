----------------------------- MODULE MCSession -----------------------------
(***************************************************************************)
(* Instances of Session for TLC.  Two connection handles let a prepared    *)
(* session take a second one; they are interchangeable.                    *)
(***************************************************************************)
EXTENDS Session, TLC

CONSTANTS c1, c2

MCConns == {c1, c2}
Handles == Permutations(MCConns)
=============================================================================
