------------------------------ MODULE Traffic ------------------------------
(***************************************************************************)
(* What client traffic goes through in a pooled gateway: packets between   *)
(* client and session (Codec), the tokens that sessions wait for and hold  *)
(* (Gateway), and the pooled connection a token is exchanged for           *)
(* (Checkout).  They meet only in the sessions' own code, which modules    *)
(* Gateway and Session have; here each behaviour follows one of the three  *)
(* layers, and the other two keep their initial state.                     *)
(***************************************************************************)
EXTENDS Gateway, Checkout, Codec

VARIABLE layer  \* "packets", "tokens" or "connections"

TrafficInit ==
    /\ layer \in {"packets", "tokens", "connections"}
    /\ Init /\ CheckoutInit
    /\ IF layer = "packets" THEN CodecInit ELSE peer = "codec" /\ sequence = 0 /\ CodecInit
TrafficNext ==
    \/ layer = "packets"     /\ CodecNext    /\ UNCHANGED <<layer, vars, checkoutVars>>
    \/ layer = "tokens"      /\ Next         /\ UNCHANGED <<layer, checkoutVars, codecVars>>
    \/ layer = "connections" /\ CheckoutNext /\ UNCHANGED <<layer, vars, codecVars>>
\* In its initial state no layer has a step that its fairness asks for.
TrafficSpec ==
    /\ TrafficInit /\ [][TrafficNext]_<<layer, vars, checkoutVars, codecVars>>
    /\ CodecFairness /\ Fairness /\ CheckoutFairness

-----------------------------------------------------------------------------
(* Types of the variables of the three layers.                             *)
TrafficTypes == TypeOK /\ CheckoutTypes /\ CodecTypes
=============================================================================
