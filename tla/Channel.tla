------------------------------ MODULE Channel ------------------------------
(***************************************************************************)
(* What the packet codec promises its callers: whole messages, each once,  *)
(* in the order they were written.                                         *)
(***************************************************************************)
EXTENDS Sequences, Naturals

CONSTANT Message
VARIABLES sent, received

Init == sent = << >> /\ received = << >>
Send == \E m \in Message : sent' = Append(sent, m) /\ UNCHANGED received
Deliver ==
    /\ Len(received) < Len(sent)
    /\ received' = Append(received, sent[Len(received) + 1]) /\ UNCHANGED sent
Next == Send \/ Deliver
Spec == Init /\ [][Next]_<<sent, received>>
=============================================================================
