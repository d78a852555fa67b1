----------------------------- MODULE MCTraffic -----------------------------
(* Tokens: two sessions, two connections and one place in the queue, so that   *)
(* sessions that each hold a pin can wait for one another's token, one of them *)
(* queued and the other refused, and a token can come before its connection.   *)
(* Connections: two callers and one physical connection, so that one finds     *)
(* what the other left.  Packets: frames of two bytes and messages of up to    *)
(* four, so that a message is exactly one frame, exactly two, or at the limit, *)
(* with a sequence number that wraps; neighbouring bytes of a message differ,  *)
(* so that a change of their order shows.                                      *)
EXTENDS Traffic, TLC

MCPayloads == {m \in UpTo(MaxMessageBytes) : \A i \in 2..Len(m) : m[i] # m[i - 1]}
MCVolatile == {"autocommit", "isolation"}
=============================================================================
