---------------------------- MODULE MCAdmission ----------------------------
(* Four callers: a pin (no bytes), two statements that cannot wait together *)
(* within MaxBytes, and one that is too large to wait at all.               *)
EXTENDS Admission, TLC

CONSTANTS r1, r2, r3, r4

MCBytes == r1 :> 0 @@ r2 :> 2 @@ r3 :> 2 @@ r4 :> 4
=============================================================================
