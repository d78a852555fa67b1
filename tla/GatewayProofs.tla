--------------------------- MODULE GatewayProofs ---------------------------
(***************************************************************************)
(* Theorems about Gateway, for any finite number of sessions and any       *)
(* limits: tokens, connections and places in the queue are all accounted   *)
(* for.  And about Checkout, which exchanges a token for a connection, for *)
(* any number of sessions and connections and any settings a session may   *)
(* leave changed: what it returns is clean, belongs to one session and is  *)
(* not one whose reset failed, and no reset commits what a session         *)
(* abandoned.                                                              *)
(***************************************************************************)
EXTENDS Gateway, Checkout, FiniteSetTheorems, TLAPS

\* The stages from acquire to the last release.
Working == {"acquire", "queued", "granted", "checkout", "run", "close", "release"}

\* A session pins only what it has not pinned, and ends its pin once.
PinsOnce == \A s \in Sessions :
    /\ pc[s] \in Working /\ want[s] \in {"pin", "unpin"} => s \notin pinned
    /\ pc[s] = "end" => s \in pinned
    /\ pc[s] = "gone" => s \notin pinned

CountersInRange == admission \in 0..MaxUpstream /\ queue \in 0..MaxQueued /\ inUse \in 0..MaxUpstream

GatewayInv == TypeOK /\ PinsOnce /\ HoldingsExact

\* Adding an element raises a finite cardinality by one.
LEMMA OneMore ==
    ASSUME NEW S, NEW T, NEW x, IsFiniteSet(S), x \notin S, T = S \cup {x}
    PROVE  Cardinality(T) = Cardinality(S) + 1
BY FS_AddElement

\* Removing an element lowers it by one.
LEMMA OneLess ==
    ASSUME NEW S, NEW T, NEW x, IsFiniteSet(S), x \in S, T = S \ {x}
    PROVE  Cardinality(T) = Cardinality(S) - 1 /\ Cardinality(S) > 0
BY FS_RemoveElement, FS_CardinalityType, FS_EmptySet

\* The sets of sessions that the counters are compared with are finite.
LEMMA Finite ==
    ASSUME NEW S \in SUBSET Sessions
    PROVE  IsFiniteSet(S) /\ Cardinality(S) \in Nat
BY GatewayAssumption, FS_Subset, FS_CardinalityType

\* Nothing is held at the start.
LEMMA InitGatewayInv == Init => GatewayInv
<1> SUFFICES ASSUME Init PROVE GatewayInv
  OBVIOUS
<1>1. Tokens = {} /\ Connections = {} /\ Kept = {} /\ Queued = {} /\ pinned = {}
  BY DEF Init, Tokens, Connections, Kept, Queued, HoldsToken, HoldsConnection, KeepsConnection
<1>2. Cardinality({}) = 0
  BY FS_EmptySet
<1> QED
  BY <1>1, <1>2, GatewayAssumption DEF Init, GatewayInv, TypeOK, Stages, PinsOnce, HoldingsExact, Working

\* Each step keeps the counts exact: one step per action, and under it one per
\* outcome, saying which of the sets the session enters and leaves.
LEMMA NextGatewayInv == GatewayInv /\ [Next]_vars => GatewayInv'
<1> SUFFICES ASSUME GatewayInv, [Next]_vars PROVE GatewayInv'
  OBVIOUS
<1> USE GatewayAssumption DEF Stages, Working, Goes
<1>0. /\ IsFiniteSet(Tokens) /\ Cardinality(Tokens) \in Nat
      /\ IsFiniteSet(Connections) /\ Cardinality(Connections) \in Nat
      /\ IsFiniteSet(Kept) /\ Cardinality(Kept) \in Nat
      /\ IsFiniteSet(Queued) /\ Cardinality(Queued) \in Nat
      /\ IsFiniteSet(pinned) /\ Cardinality(pinned) \in Nat
  BY Finite DEF Tokens, Connections, Kept, Queued, GatewayInv, TypeOK
<1>00. HoldingsExact /\ CountersInRange
  BY DEF GatewayInv, TypeOK, CountersInRange
<1>1. ASSUME NEW s \in Sessions, NEW w \in {"exec", "rows", "pin", "unpin"}, Ask(s, w) PROVE GatewayInv'
  <2>1. CASE w = "unpin"
    <3>1. /\ Tokens' = Tokens \cup {s} /\ s \notin Tokens
          /\ Connections' = Connections \cup {s} /\ s \notin Connections
          /\ Kept' = Kept \ {s} /\ s \in Kept
          /\ Queued' = Queued
          /\ pinned' = pinned \ {s} /\ s \in pinned
      BY <1>1, <2>1 DEF Ask, GatewayInv, TypeOK, PinsOnce, Tokens, Connections, Kept, Queued, HoldsToken, HoldsConnection, KeepsConnection
    <3>2. /\ Cardinality(Tokens') = Cardinality(Tokens) + 1
          /\ Cardinality(Connections') = Cardinality(Connections) + 1
          /\ Cardinality(Kept') = Cardinality(Kept) - 1 /\ Cardinality(Kept) > 0
          /\ Cardinality(Queued') = Cardinality(Queued)
          /\ Cardinality(pinned') = Cardinality(pinned) - 1 /\ Cardinality(pinned) > 0
      BY <1>0, <3>1, OneMore, OneLess
    <3>3. admission' = admission /\ inUse' = inUse /\ queue' = queue
      BY <1>1, <2>1 DEF Ask, GatewayInv
    <3>4. HoldingsExact' /\ CountersInRange'
      BY <1>0, <1>00, <3>2, <3>3 DEF HoldingsExact, CountersInRange
    <3>5. TypeOK'
      BY <1>1, <2>1, <3>4 DEF Ask, GatewayInv, TypeOK, CountersInRange
    <3>6. PinsOnce'
      BY <1>1, <2>1 DEF Ask, GatewayInv, TypeOK, PinsOnce
    <3> QED
      BY <3>4, <3>5, <3>6 DEF GatewayInv
  <2>2. CASE w # "unpin"
    <3>1. /\ Tokens' = Tokens
          /\ Connections' = Connections
          /\ Kept' = Kept
          /\ Queued' = Queued
          /\ pinned' = pinned
      BY <1>1, <2>2 DEF Ask, GatewayInv, TypeOK, PinsOnce, Tokens, Connections, Kept, Queued, HoldsToken, HoldsConnection, KeepsConnection
    <3>2. /\ Cardinality(Tokens') = Cardinality(Tokens)
          /\ Cardinality(Connections') = Cardinality(Connections)
          /\ Cardinality(Kept') = Cardinality(Kept)
          /\ Cardinality(Queued') = Cardinality(Queued)
          /\ Cardinality(pinned') = Cardinality(pinned)
      BY <1>0, <3>1, OneMore, OneLess
    <3>3. admission' = admission /\ inUse' = inUse /\ queue' = queue
      BY <1>1, <2>2 DEF Ask, GatewayInv
    <3>4. HoldingsExact' /\ CountersInRange'
      BY <1>0, <1>00, <3>2, <3>3 DEF HoldingsExact, CountersInRange
    <3>5. TypeOK'
      BY <1>1, <2>2, <3>4 DEF Ask, GatewayInv, TypeOK, CountersInRange
    <3>6. PinsOnce'
      BY <1>1, <2>2 DEF Ask, GatewayInv, TypeOK, PinsOnce
    <3> QED
      BY <3>4, <3>5, <3>6 DEF GatewayInv
  <2> QED
    BY <1>1, <2>1, <2>2 DEF Ask
<1>2. ASSUME NEW s \in Sessions, Acquire(s) PROVE GatewayInv'
  <2>0. pc[s] = "acquire" /\ UNCHANGED <<want, pinned, client, inUse>>
    BY <1>2 DEF Acquire
  <2>1. CASE admission < MaxUpstream /\ admission' = admission + 1 /\ Goes(s, "checkout") /\ UNCHANGED queue
    <3>1. /\ Tokens' = Tokens \cup {s} /\ s \notin Tokens
          /\ Connections' = Connections
          /\ Kept' = Kept
          /\ Queued' = Queued
          /\ pinned' = pinned
      BY <2>0, <2>1 DEF GatewayInv, TypeOK, PinsOnce, Tokens, Connections, Kept, Queued, HoldsToken, HoldsConnection, KeepsConnection
    <3>2. /\ Cardinality(Tokens') = Cardinality(Tokens) + 1
          /\ Cardinality(Connections') = Cardinality(Connections)
          /\ Cardinality(Kept') = Cardinality(Kept)
          /\ Cardinality(Queued') = Cardinality(Queued)
          /\ Cardinality(pinned') = Cardinality(pinned)
      BY <1>0, <3>1, OneMore, OneLess
    <3>3. admission' = admission + 1 /\ admission < MaxUpstream /\ inUse' = inUse /\ queue' = queue
      BY <2>0, <2>1 DEF GatewayInv
    <3>4. HoldingsExact' /\ CountersInRange'
      BY <1>0, <1>00, <3>2, <3>3 DEF HoldingsExact, CountersInRange
    <3>5. TypeOK'
      BY <2>0, <2>1, <3>4 DEF GatewayInv, TypeOK, CountersInRange
    <3>6. PinsOnce'
      BY <2>0, <2>1 DEF GatewayInv, TypeOK, PinsOnce
    <3> QED
      BY <3>4, <3>5, <3>6 DEF GatewayInv
  <2>2. CASE queue < MaxQueued /\ queue' = queue + 1 /\ Goes(s, "queued") /\ UNCHANGED admission
    <3>1. /\ Tokens' = Tokens
          /\ Connections' = Connections
          /\ Kept' = Kept
          /\ Queued' = Queued \cup {s} /\ s \notin Queued
          /\ pinned' = pinned
      BY <2>0, <2>2 DEF GatewayInv, TypeOK, PinsOnce, Tokens, Connections, Kept, Queued, HoldsToken, HoldsConnection, KeepsConnection
    <3>2. /\ Cardinality(Tokens') = Cardinality(Tokens)
          /\ Cardinality(Connections') = Cardinality(Connections)
          /\ Cardinality(Kept') = Cardinality(Kept)
          /\ Cardinality(Queued') = Cardinality(Queued) + 1
          /\ Cardinality(pinned') = Cardinality(pinned)
      BY <1>0, <3>1, OneMore, OneLess
    <3>3. admission' = admission /\ inUse' = inUse /\ queue' = queue + 1 /\ queue < MaxQueued
      BY <2>0, <2>2 DEF GatewayInv
    <3>4. HoldingsExact' /\ CountersInRange'
      BY <1>0, <1>00, <3>2, <3>3 DEF HoldingsExact, CountersInRange
    <3>5. TypeOK'
      BY <2>0, <2>2, <3>4 DEF GatewayInv, TypeOK, CountersInRange
    <3>6. PinsOnce'
      BY <2>0, <2>2 DEF GatewayInv, TypeOK, PinsOnce
    <3> QED
      BY <3>4, <3>5, <3>6 DEF GatewayInv
  <2>3. CASE Goes(s, "reply") /\ UNCHANGED <<admission, queue>>
    <3>1. /\ Tokens' = Tokens
          /\ Connections' = Connections
          /\ Kept' = Kept
          /\ Queued' = Queued
          /\ pinned' = pinned
      BY <2>0, <2>3 DEF GatewayInv, TypeOK, PinsOnce, Tokens, Connections, Kept, Queued, HoldsToken, HoldsConnection, KeepsConnection
    <3>2. /\ Cardinality(Tokens') = Cardinality(Tokens)
          /\ Cardinality(Connections') = Cardinality(Connections)
          /\ Cardinality(Kept') = Cardinality(Kept)
          /\ Cardinality(Queued') = Cardinality(Queued)
          /\ Cardinality(pinned') = Cardinality(pinned)
      BY <1>0, <3>1, OneMore, OneLess
    <3>3. admission' = admission /\ inUse' = inUse /\ queue' = queue
      BY <2>0, <2>3 DEF GatewayInv
    <3>4. HoldingsExact' /\ CountersInRange'
      BY <1>0, <1>00, <3>2, <3>3 DEF HoldingsExact, CountersInRange
    <3>5. TypeOK'
      BY <2>0, <2>3, <3>4 DEF GatewayInv, TypeOK, CountersInRange
    <3>6. PinsOnce'
      BY <2>0, <2>3 DEF GatewayInv, TypeOK, PinsOnce
    <3> QED
      BY <3>4, <3>5, <3>6 DEF GatewayInv
  <2> QED
    BY <1>2, <2>1, <2>2, <2>3 DEF Acquire
<1>3. ASSUME NEW s \in Sessions, Granted(s) PROVE GatewayInv'
  <2>1. /\ Tokens' = Tokens \cup {s} /\ s \notin Tokens
        /\ Connections' = Connections
        /\ Kept' = Kept
        /\ Queued' = Queued
        /\ pinned' = pinned
    BY <1>3 DEF Granted, GatewayInv, TypeOK, PinsOnce, Tokens, Connections, Kept, Queued, HoldsToken, HoldsConnection, KeepsConnection
  <2>2. /\ Cardinality(Tokens') = Cardinality(Tokens) + 1
        /\ Cardinality(Connections') = Cardinality(Connections)
        /\ Cardinality(Kept') = Cardinality(Kept)
        /\ Cardinality(Queued') = Cardinality(Queued)
        /\ Cardinality(pinned') = Cardinality(pinned)
    BY <1>0, <2>1, OneMore, OneLess
  <2>3. admission' = admission + 1 /\ admission < MaxUpstream /\ inUse' = inUse /\ queue' = queue
    BY <1>3 DEF Granted, GatewayInv
  <2>4. HoldingsExact' /\ CountersInRange'
    BY <1>0, <1>00, <2>2, <2>3 DEF HoldingsExact, CountersInRange
  <2>5. TypeOK'
    BY <1>3, <2>4 DEF Granted, GatewayInv, TypeOK, CountersInRange
  <2>6. PinsOnce'
    BY <1>3 DEF Granted, GatewayInv, TypeOK, PinsOnce
  <2> QED
    BY <2>4, <2>5, <2>6 DEF GatewayInv
<1>4. ASSUME NEW s \in Sessions, LeaveQueue(s) PROVE GatewayInv'
  <2>1. /\ Tokens' = Tokens
        /\ Connections' = Connections
        /\ Kept' = Kept
        /\ Queued' = Queued \ {s} /\ s \in Queued
        /\ pinned' = pinned
    BY <1>4 DEF LeaveQueue, GatewayInv, TypeOK, PinsOnce, Tokens, Connections, Kept, Queued, HoldsToken, HoldsConnection, KeepsConnection
  <2>2. /\ Cardinality(Tokens') = Cardinality(Tokens)
        /\ Cardinality(Connections') = Cardinality(Connections)
        /\ Cardinality(Kept') = Cardinality(Kept)
        /\ Cardinality(Queued') = Cardinality(Queued) - 1 /\ Cardinality(Queued) > 0
        /\ Cardinality(pinned') = Cardinality(pinned)
    BY <1>0, <2>1, OneMore, OneLess
  <2>3. admission' = admission /\ inUse' = inUse /\ queue' = queue - 1
    BY <1>4 DEF LeaveQueue, GatewayInv
  <2>4. HoldingsExact' /\ CountersInRange'
    BY <1>0, <1>00, <2>2, <2>3 DEF HoldingsExact, CountersInRange
  <2>5. TypeOK'
    BY <1>4, <2>4 DEF LeaveQueue, GatewayInv, TypeOK, CountersInRange
  <2>6. PinsOnce'
    BY <1>4 DEF LeaveQueue, GatewayInv, TypeOK, PinsOnce
  <2> QED
    BY <2>4, <2>5, <2>6 DEF GatewayInv
<1>5. ASSUME NEW s \in Sessions, QueueDeadline(s) PROVE GatewayInv'
  <2>1. /\ Tokens' = Tokens
        /\ Connections' = Connections
        /\ Kept' = Kept
        /\ Queued' = Queued \ {s} /\ s \in Queued
        /\ pinned' = pinned
    BY <1>5 DEF QueueDeadline, GatewayInv, TypeOK, PinsOnce, Tokens, Connections, Kept, Queued, HoldsToken, HoldsConnection, KeepsConnection
  <2>2. /\ Cardinality(Tokens') = Cardinality(Tokens)
        /\ Cardinality(Connections') = Cardinality(Connections)
        /\ Cardinality(Kept') = Cardinality(Kept)
        /\ Cardinality(Queued') = Cardinality(Queued) - 1 /\ Cardinality(Queued) > 0
        /\ Cardinality(pinned') = Cardinality(pinned)
    BY <1>0, <2>1, OneMore, OneLess
  <2>3. admission' = admission /\ inUse' = inUse /\ queue' = queue - 1
    BY <1>5 DEF QueueDeadline, GatewayInv
  <2>4. HoldingsExact' /\ CountersInRange'
    BY <1>0, <1>00, <2>2, <2>3 DEF HoldingsExact, CountersInRange
  <2>5. TypeOK'
    BY <1>5, <2>4 DEF QueueDeadline, GatewayInv, TypeOK, CountersInRange
  <2>6. PinsOnce'
    BY <1>5 DEF QueueDeadline, GatewayInv, TypeOK, PinsOnce
  <2> QED
    BY <2>4, <2>5, <2>6 DEF GatewayInv
<1>6. ASSUME NEW s \in Sessions, Checkout(s) PROVE GatewayInv'
  <2>1. /\ Tokens' = Tokens
        /\ Connections' = Connections \cup {s} /\ s \notin Connections
        /\ Kept' = Kept
        /\ Queued' = Queued
        /\ pinned' = pinned
    BY <1>6 DEF Checkout, GatewayInv, TypeOK, PinsOnce, Tokens, Connections, Kept, Queued, HoldsToken, HoldsConnection, KeepsConnection
  <2>2. /\ Cardinality(Tokens') = Cardinality(Tokens)
        /\ Cardinality(Connections') = Cardinality(Connections) + 1
        /\ Cardinality(Kept') = Cardinality(Kept)
        /\ Cardinality(Queued') = Cardinality(Queued)
        /\ Cardinality(pinned') = Cardinality(pinned)
    BY <1>0, <2>1, OneMore, OneLess
  <2>3. admission' = admission /\ inUse' = inUse + 1 /\ inUse < MaxUpstream /\ queue' = queue
    BY <1>6 DEF Checkout, GatewayInv
  <2>4. HoldingsExact' /\ CountersInRange'
    BY <1>0, <1>00, <2>2, <2>3 DEF HoldingsExact, CountersInRange
  <2>5. TypeOK'
    BY <1>6, <2>4 DEF Checkout, GatewayInv, TypeOK, CountersInRange
  <2>6. PinsOnce'
    BY <1>6 DEF Checkout, GatewayInv, TypeOK, PinsOnce
  <2> QED
    BY <2>4, <2>5, <2>6 DEF GatewayInv
<1>7. ASSUME NEW s \in Sessions, CheckoutFails(s) PROVE GatewayInv'
  <2>1. /\ Tokens' = Tokens \ {s} /\ s \in Tokens
        /\ Connections' = Connections
        /\ Kept' = Kept
        /\ Queued' = Queued
        /\ pinned' = pinned
    BY <1>7 DEF CheckoutFails, GatewayInv, TypeOK, PinsOnce, Tokens, Connections, Kept, Queued, HoldsToken, HoldsConnection, KeepsConnection
  <2>2. /\ Cardinality(Tokens') = Cardinality(Tokens) - 1 /\ Cardinality(Tokens) > 0
        /\ Cardinality(Connections') = Cardinality(Connections)
        /\ Cardinality(Kept') = Cardinality(Kept)
        /\ Cardinality(Queued') = Cardinality(Queued)
        /\ Cardinality(pinned') = Cardinality(pinned)
    BY <1>0, <2>1, OneMore, OneLess
  <2>3. admission' = admission - 1 /\ inUse' = inUse /\ queue' = queue
    BY <1>7 DEF CheckoutFails, GatewayInv
  <2>4. HoldingsExact' /\ CountersInRange'
    BY <1>0, <1>00, <2>2, <2>3 DEF HoldingsExact, CountersInRange
  <2>5. TypeOK'
    BY <1>7, <2>4 DEF CheckoutFails, GatewayInv, TypeOK, CountersInRange
  <2>6. PinsOnce'
    BY <1>7 DEF CheckoutFails, GatewayInv, TypeOK, PinsOnce
  <2> QED
    BY <2>4, <2>5, <2>6 DEF GatewayInv
<1>8. ASSUME NEW s \in Sessions, Run(s) PROVE GatewayInv'
  <2>0. pc[s] = "run" /\ UNCHANGED <<want, client, admission, queue, inUse>>
    BY <1>8 DEF Run
  <2>1. CASE pinned' = pinned \cup {s} /\ want[s] = "pin" /\ Goes(s, "reply")
    <3>1. /\ Tokens' = Tokens \ {s} /\ s \in Tokens
          /\ Connections' = Connections \ {s} /\ s \in Connections
          /\ Kept' = Kept \cup {s} /\ s \notin Kept
          /\ Queued' = Queued
          /\ pinned' = pinned \cup {s} /\ s \notin pinned
      BY <2>0, <2>1 DEF First, GatewayInv, TypeOK, PinsOnce, Tokens, Connections, Kept, Queued, HoldsToken, HoldsConnection, KeepsConnection
    <3>2. /\ Cardinality(Tokens') = Cardinality(Tokens) - 1 /\ Cardinality(Tokens) > 0
          /\ Cardinality(Connections') = Cardinality(Connections) - 1 /\ Cardinality(Connections) > 0
          /\ Cardinality(Kept') = Cardinality(Kept) + 1
          /\ Cardinality(Queued') = Cardinality(Queued)
          /\ Cardinality(pinned') = Cardinality(pinned) + 1
      BY <1>0, <3>1, OneMore, OneLess
    <3>3. admission' = admission /\ inUse' = inUse /\ queue' = queue
      BY <2>0, <2>1 DEF First, GatewayInv
    <3>4. HoldingsExact' /\ CountersInRange'
      BY <1>0, <1>00, <3>2, <3>3 DEF HoldingsExact, CountersInRange
    <3>5. TypeOK'
      BY <2>0, <2>1, <3>4 DEF First, GatewayInv, TypeOK, CountersInRange
    <3>6. PinsOnce'
      BY <2>0, <2>1 DEF First, GatewayInv, TypeOK, PinsOnce
    <3> QED
      BY <3>4, <3>5, <3>6 DEF GatewayInv
  <2>2. CASE UNCHANGED pinned /\ Goes(s, First(want[s]))
    <3>1. /\ Tokens' = Tokens
          /\ Connections' = Connections
          /\ Kept' = Kept
          /\ Queued' = Queued
          /\ pinned' = pinned
      BY <2>0, <2>2 DEF First, GatewayInv, TypeOK, PinsOnce, Tokens, Connections, Kept, Queued, HoldsToken, HoldsConnection, KeepsConnection
    <3>2. /\ Cardinality(Tokens') = Cardinality(Tokens)
          /\ Cardinality(Connections') = Cardinality(Connections)
          /\ Cardinality(Kept') = Cardinality(Kept)
          /\ Cardinality(Queued') = Cardinality(Queued)
          /\ Cardinality(pinned') = Cardinality(pinned)
      BY <1>0, <3>1, OneMore, OneLess
    <3>3. admission' = admission /\ inUse' = inUse /\ queue' = queue
      BY <2>0, <2>2 DEF First, GatewayInv
    <3>4. HoldingsExact' /\ CountersInRange'
      BY <1>0, <1>00, <3>2, <3>3 DEF HoldingsExact, CountersInRange
    <3>5. TypeOK'
      BY <2>0, <2>2, <3>4 DEF First, GatewayInv, TypeOK, CountersInRange
    <3>6. PinsOnce'
      BY <2>0, <2>2 DEF First, GatewayInv, TypeOK, PinsOnce
    <3> QED
      BY <3>4, <3>5, <3>6 DEF GatewayInv
  <2> QED
    BY <1>8, <2>1, <2>2 DEF Run
<1>9. ASSUME NEW s \in Sessions, CloseConnection(s) PROVE GatewayInv'
  <2>1. /\ Tokens' = Tokens
        /\ Connections' = Connections \ {s} /\ s \in Connections
        /\ Kept' = Kept
        /\ Queued' = Queued
        /\ pinned' = pinned
    BY <1>9 DEF CloseConnection, AfterClose, GatewayInv, TypeOK, PinsOnce, Tokens, Connections, Kept, Queued, HoldsToken, HoldsConnection, KeepsConnection
  <2>2. /\ Cardinality(Tokens') = Cardinality(Tokens)
        /\ Cardinality(Connections') = Cardinality(Connections) - 1 /\ Cardinality(Connections) > 0
        /\ Cardinality(Kept') = Cardinality(Kept)
        /\ Cardinality(Queued') = Cardinality(Queued)
        /\ Cardinality(pinned') = Cardinality(pinned)
    BY <1>0, <2>1, OneMore, OneLess
  <2>3. admission' = admission /\ inUse' = inUse - 1 /\ queue' = queue
    BY <1>9 DEF CloseConnection, AfterClose, GatewayInv
  <2>4. HoldingsExact' /\ CountersInRange'
    BY <1>0, <1>00, <2>2, <2>3 DEF HoldingsExact, CountersInRange
  <2>5. TypeOK'
    BY <1>9, <2>4 DEF CloseConnection, AfterClose, GatewayInv, TypeOK, CountersInRange
  <2>6. PinsOnce'
    BY <1>9 DEF CloseConnection, AfterClose, GatewayInv, TypeOK, PinsOnce
  <2> QED
    BY <2>4, <2>5, <2>6 DEF GatewayInv
<1>10. ASSUME NEW s \in Sessions, ReleaseToken(s) PROVE GatewayInv'
  <2>1. /\ Tokens' = Tokens \ {s} /\ s \in Tokens
        /\ Connections' = Connections
        /\ Kept' = Kept
        /\ Queued' = Queued
        /\ pinned' = pinned
    BY <1>10 DEF ReleaseToken, AfterRelease, GatewayInv, TypeOK, PinsOnce, Tokens, Connections, Kept, Queued, HoldsToken, HoldsConnection, KeepsConnection
  <2>2. /\ Cardinality(Tokens') = Cardinality(Tokens) - 1 /\ Cardinality(Tokens) > 0
        /\ Cardinality(Connections') = Cardinality(Connections)
        /\ Cardinality(Kept') = Cardinality(Kept)
        /\ Cardinality(Queued') = Cardinality(Queued)
        /\ Cardinality(pinned') = Cardinality(pinned)
    BY <1>0, <2>1, OneMore, OneLess
  <2>3. admission' = admission - 1 /\ inUse' = inUse /\ queue' = queue
    BY <1>10 DEF ReleaseToken, AfterRelease, GatewayInv
  <2>4. HoldingsExact' /\ CountersInRange'
    BY <1>0, <1>00, <2>2, <2>3 DEF HoldingsExact, CountersInRange
  <2>5. TypeOK'
    BY <1>10, <2>4 DEF ReleaseToken, AfterRelease, GatewayInv, TypeOK, CountersInRange
  <2>6. PinsOnce'
    BY <1>10 DEF ReleaseToken, AfterRelease, GatewayInv, TypeOK, PinsOnce
  <2> QED
    BY <2>4, <2>5, <2>6 DEF GatewayInv
<1>11. ASSUME NEW s \in Sessions, Reply(s) PROVE GatewayInv'
  <2>1. /\ Tokens' = Tokens
        /\ Connections' = Connections
        /\ Kept' = Kept
        /\ Queued' = Queued
        /\ pinned' = pinned
    BY <1>11 DEF Reply, GatewayInv, TypeOK, PinsOnce, Tokens, Connections, Kept, Queued, HoldsToken, HoldsConnection, KeepsConnection
  <2>2. /\ Cardinality(Tokens') = Cardinality(Tokens)
        /\ Cardinality(Connections') = Cardinality(Connections)
        /\ Cardinality(Kept') = Cardinality(Kept)
        /\ Cardinality(Queued') = Cardinality(Queued)
        /\ Cardinality(pinned') = Cardinality(pinned)
    BY <1>0, <2>1, OneMore, OneLess
  <2>3. admission' = admission /\ inUse' = inUse /\ queue' = queue
    BY <1>11 DEF Reply, GatewayInv
  <2>4. HoldingsExact' /\ CountersInRange'
    BY <1>0, <1>00, <2>2, <2>3 DEF HoldingsExact, CountersInRange
  <2>5. TypeOK'
    BY <1>11, <2>4 DEF Reply, GatewayInv, TypeOK, CountersInRange
  <2>6. PinsOnce'
    BY <1>11 DEF Reply, GatewayInv, TypeOK, PinsOnce
  <2> QED
    BY <2>4, <2>5, <2>6 DEF GatewayInv
<1>12. ASSUME NEW s \in Sessions, Leave(s) PROVE GatewayInv'
  <2>1. /\ Tokens' = Tokens
        /\ Connections' = Connections
        /\ Kept' = Kept
        /\ Queued' = Queued
        /\ pinned' = pinned
    BY <1>12 DEF Leave, GatewayInv, TypeOK, PinsOnce, Tokens, Connections, Kept, Queued, HoldsToken, HoldsConnection, KeepsConnection
  <2>2. /\ Cardinality(Tokens') = Cardinality(Tokens)
        /\ Cardinality(Connections') = Cardinality(Connections)
        /\ Cardinality(Kept') = Cardinality(Kept)
        /\ Cardinality(Queued') = Cardinality(Queued)
        /\ Cardinality(pinned') = Cardinality(pinned)
    BY <1>0, <2>1, OneMore, OneLess
  <2>3. admission' = admission /\ inUse' = inUse /\ queue' = queue
    BY <1>12 DEF Leave, GatewayInv
  <2>4. HoldingsExact' /\ CountersInRange'
    BY <1>0, <1>00, <2>2, <2>3 DEF HoldingsExact, CountersInRange
  <2>5. TypeOK'
    BY <1>12, <2>4 DEF Leave, GatewayInv, TypeOK, CountersInRange
  <2>6. PinsOnce'
    BY <1>12 DEF Leave, GatewayInv, TypeOK, PinsOnce
  <2> QED
    BY <2>4, <2>5, <2>6 DEF GatewayInv
<1>13. ASSUME NEW s \in Sessions, End(s) PROVE GatewayInv'
  <2>1. CASE s \in pinned
    <3>1. /\ Tokens' = Tokens
          /\ Connections' = Connections
          /\ Kept' = Kept \ {s} /\ s \in Kept
          /\ Queued' = Queued
          /\ pinned' = pinned
      BY <1>13, <2>1 DEF End, GatewayInv, TypeOK, PinsOnce, Tokens, Connections, Kept, Queued, HoldsToken, HoldsConnection, KeepsConnection
    <3>2. /\ Cardinality(Tokens') = Cardinality(Tokens)
          /\ Cardinality(Connections') = Cardinality(Connections)
          /\ Cardinality(Kept') = Cardinality(Kept) - 1 /\ Cardinality(Kept) > 0
          /\ Cardinality(Queued') = Cardinality(Queued)
          /\ Cardinality(pinned') = Cardinality(pinned)
      BY <1>0, <3>1, OneMore, OneLess
    <3>3. admission' = admission /\ inUse' = inUse - 1 /\ queue' = queue
      BY <1>13, <2>1 DEF End, GatewayInv
    <3>4. HoldingsExact' /\ CountersInRange'
      BY <1>0, <1>00, <3>2, <3>3 DEF HoldingsExact, CountersInRange
    <3>5. TypeOK'
      BY <1>13, <2>1, <3>4 DEF End, GatewayInv, TypeOK, CountersInRange
    <3>6. PinsOnce'
      BY <1>13, <2>1 DEF End, GatewayInv, TypeOK, PinsOnce
    <3> QED
      BY <3>4, <3>5, <3>6 DEF GatewayInv
  <2>2. CASE s \notin pinned
    <3>1. /\ Tokens' = Tokens
          /\ Connections' = Connections
          /\ Kept' = Kept
          /\ Queued' = Queued
          /\ pinned' = pinned
      BY <1>13, <2>2 DEF End, GatewayInv, TypeOK, PinsOnce, Tokens, Connections, Kept, Queued, HoldsToken, HoldsConnection, KeepsConnection
    <3>2. /\ Cardinality(Tokens') = Cardinality(Tokens)
          /\ Cardinality(Connections') = Cardinality(Connections)
          /\ Cardinality(Kept') = Cardinality(Kept)
          /\ Cardinality(Queued') = Cardinality(Queued)
          /\ Cardinality(pinned') = Cardinality(pinned)
      BY <1>0, <3>1, OneMore, OneLess
    <3>3. admission' = admission /\ inUse' = inUse /\ queue' = queue
      BY <1>13, <2>2 DEF End, GatewayInv
    <3>4. HoldingsExact' /\ CountersInRange'
      BY <1>0, <1>00, <3>2, <3>3 DEF HoldingsExact, CountersInRange
    <3>5. TypeOK'
      BY <1>13, <2>2, <3>4 DEF End, GatewayInv, TypeOK, CountersInRange
    <3>6. PinsOnce'
      BY <1>13, <2>2 DEF End, GatewayInv, TypeOK, PinsOnce
    <3> QED
      BY <3>4, <3>5, <3>6 DEF GatewayInv
  <2> QED
    BY <1>13, <2>1, <2>2 DEF End
<1>14. ASSUME NEW s \in Sessions, Ended(s) PROVE GatewayInv'
  <2>1. /\ Tokens' = Tokens
        /\ Connections' = Connections
        /\ Kept' = Kept
        /\ Queued' = Queued
        /\ pinned' = pinned \ {s} /\ s \in pinned
    BY <1>14 DEF Ended, GatewayInv, TypeOK, PinsOnce, Tokens, Connections, Kept, Queued, HoldsToken, HoldsConnection, KeepsConnection
  <2>2. /\ Cardinality(Tokens') = Cardinality(Tokens)
        /\ Cardinality(Connections') = Cardinality(Connections)
        /\ Cardinality(Kept') = Cardinality(Kept)
        /\ Cardinality(Queued') = Cardinality(Queued)
        /\ Cardinality(pinned') = Cardinality(pinned) - 1 /\ Cardinality(pinned) > 0
    BY <1>0, <2>1, OneMore, OneLess
  <2>3. admission' = admission - 1 /\ inUse' = inUse /\ queue' = queue
    BY <1>14 DEF Ended, GatewayInv
  <2>4. HoldingsExact' /\ CountersInRange'
    BY <1>0, <1>00, <2>2, <2>3 DEF HoldingsExact, CountersInRange
  <2>5. TypeOK'
    BY <1>14, <2>4 DEF Ended, GatewayInv, TypeOK, CountersInRange
  <2>6. PinsOnce'
    BY <1>14 DEF Ended, GatewayInv, TypeOK, PinsOnce
  <2> QED
    BY <2>4, <2>5, <2>6 DEF GatewayInv
<1>15. CASE UNCHANGED vars
  BY <1>15 DEF vars, GatewayInv, TypeOK, PinsOnce, HoldingsExact, Tokens, Connections, Kept, Queued,
     HoldsToken, HoldsConnection, KeepsConnection
<1> QED
  BY <1>1, <1>2, <1>3, <1>4, <1>5, <1>6, <1>7, <1>8, <1>9, <1>10, <1>11, <1>12, <1>13, <1>14, <1>15 DEF Next

\* The counts agree with the sessions' positions in every reachable state.
THEOREM SpecGatewayInv == Spec => []GatewayInv
BY InitGatewayInv, NextGatewayInv, PTL DEF Spec

\* For any number of sessions, every token, connection and place in the queue is
\* held by a session that will give it back (gateway.go:588-643, 716-833).
THEOREM HoldingsExactHolds == Spec => []HoldingsExact
BY SpecGatewayInv, PTL DEF GatewayInv

\* ... and none is handed out beyond the limits or given back twice.
THEOREM TypeCorrect == Spec => []TypeOK
BY SpecGatewayInv, PTL DEF GatewayInv
-----------------------------------------------------------------------------
\* The leases and the waiters of the abstract pool, as the sessions stand.
Leases == {Request(s) : s \in Tokens} \cup {<<s, "pin">> : s \in pinned}
Waiters == {Request(s) : s \in Queued}

\* A set of values made from a finite set is not larger than that set.
LEMMA ImageSize ==
    ASSUME NEW S, IsFiniteSet(S), NEW T, NEW f \in [S -> T], \A y \in T : \E x \in S : y = f[x]
    PROVE  IsFiniteSet(T) /\ Cardinality(T) <= Cardinality(S)
BY FS_Surjection DEF Surjection

\* The abstract pool counts no more leases and waiters than the channels hold.
LEMMA PoolSizes ==
    ASSUME GatewayInv
    PROVE  /\ Cardinality(Leases) \in Nat /\ Cardinality(Leases) <= admission
           /\ Cardinality(Waiters) \in Nat /\ Cardinality(Waiters) <= queue
<1> DEFINE Tokened == {Request(s) : s \in Tokens}
<1> DEFINE Pins == {<<s, "pin">> : s \in pinned}
<1>0. /\ IsFiniteSet(Tokens) /\ IsFiniteSet(Queued) /\ IsFiniteSet(pinned)
      /\ Cardinality(Tokens) \in Nat /\ Cardinality(Queued) \in Nat /\ Cardinality(pinned) \in Nat
  BY Finite DEF Tokens, Queued, GatewayInv, TypeOK
<1>1. IsFiniteSet(Tokened) /\ Cardinality(Tokened) <= Cardinality(Tokens)
  <2> DEFINE f == [s \in Tokens |-> Request(s)]
  <2>1. f \in [Tokens -> Tokened] /\ \A y \in Tokened : \E x \in Tokens : y = f[x]
    OBVIOUS
  <2> HIDE DEF f, Tokened
  <2> QED
    BY <1>0, <2>1, ImageSize
<1>2. IsFiniteSet(Pins) /\ Cardinality(Pins) <= Cardinality(pinned)
  <2> DEFINE f == [s \in pinned |-> <<s, "pin">>]
  <2>1. f \in [pinned -> Pins] /\ \A y \in Pins : \E x \in pinned : y = f[x]
    OBVIOUS
  <2> HIDE DEF f, Pins
  <2> QED
    BY <1>0, <2>1, ImageSize
<1>3. IsFiniteSet(Waiters) /\ Cardinality(Waiters) <= Cardinality(Queued)
  <2> DEFINE f == [s \in Queued |-> Request(s)]
  <2>1. f \in [Queued -> Waiters] /\ \A y \in Waiters : \E x \in Queued : y = f[x]
    BY DEF Waiters
  <2> HIDE DEF f
  <2> QED
    BY <1>0, <2>1, ImageSize
<1>4. Leases = Tokened \cup Pins
  BY DEF Leases
<1> HIDE DEF Tokened, Pins
<1>5. IsFiniteSet(Tokened \cap Pins)
  BY <1>1, FS_Subset
<1>6. /\ Cardinality(Tokened) \in Nat /\ Cardinality(Pins) \in Nat /\ Cardinality(Waiters) \in Nat
      /\ Cardinality(Tokened \cap Pins) \in Nat
  BY <1>1, <1>2, <1>3, <1>5, FS_CardinalityType
<1>7. Cardinality(Leases) = Cardinality(Tokened) + Cardinality(Pins) - Cardinality(Tokened \cap Pins)
  BY <1>1, <1>2, <1>4, FS_Union
<1>8. Cardinality(Leases) \in Nat
  BY <1>1, <1>2, <1>4, FS_Union, FS_CardinalityType, Zenon
<1> QED
  BY <1>0, <1>1, <1>2, <1>3, <1>6, <1>7, <1>8 DEF GatewayInv, HoldingsExact

\* The abstract pool counts with the same cardinality.
LEMMA SameCardinality == ASSUME NEW S PROVE Pool!Cardinality(S) = Cardinality(S)
BY DEF Pool!Cardinality, Cardinality

\* How the pool's sets follow the sets of sessions while no request changes.
LEMMA LeasesFollow ==
    ASSUME TypeOK, NEW s \in Sessions, want' = want, pinned' = pinned
    PROVE  /\ Tokens' = Tokens => Leases' = Leases
           /\ Tokens' = Tokens \cup {s} => Leases' = Leases \cup {Request(s)}
           /\ s \notin Tokens /\ (want[s] \in {"pin", "unpin"} => s \notin pinned) => Request(s) \notin Leases
           /\ s \in Tokens => Request(s) \in Leases
<1>1. \A t \in Sessions : Request(t)' = Request(t)
  BY DEF Request
<1>2. \A t \in Sessions : Request(t) = Request(s) => t = s
  BY DEF Request
<1>3. Tokens \subseteq Sessions /\ pinned \subseteq Sessions
  BY DEF Tokens, TypeOK
<1>4. Tokens' = Tokens => Leases' = Leases
  BY <1>1, <1>3 DEF Leases
<1>5. Tokens' = Tokens \cup {s} => Leases' = Leases \cup {Request(s)}
  BY <1>1, <1>3 DEF Leases
<1>6. ASSUME s \notin Tokens, want[s] \in {"pin", "unpin"} => s \notin pinned
      PROVE  Request(s) \notin Leases
  <2>1. \A t \in pinned : Request(s) # <<t, "pin">>
    BY <1>6, <1>3 DEF Request
  <2> QED
    BY <1>2, <1>3, <1>6, <2>1 DEF Leases
<1>7. s \in Tokens => Request(s) \in Leases
  BY DEF Leases
<1> QED
  BY <1>4, <1>5, <1>6, <1>7

\* ... when a request gives its lease back ...
LEMMA LeaseReturned ==
    ASSUME TypeOK, NEW s \in Sessions, want' = want, pinned' = pinned, Tokens' = Tokens \ {s}, s \in Tokens,
           want[s] \in {"pin", "unpin"} => s \notin pinned
    PROVE  Leases' = Leases \ {Request(s)}
<1>1. \A t \in Sessions : Request(t)' = Request(t) /\ (Request(t) = Request(s) => t = s)
  BY DEF Request
<1>2. Tokens \subseteq Sessions /\ pinned \subseteq Sessions
  BY DEF Tokens, TypeOK
<1>3. \A t \in pinned : Request(s) # <<t, "pin">>
  BY <1>2 DEF Request
<1> QED
  BY <1>1, <1>2, <1>3 DEF Leases

\* ... when a pin gives its lease back ...
LEMMA PinReturned ==
    ASSUME TypeOK, NEW s \in Sessions, want' = want, Tokens' = Tokens, s \notin Tokens,
           pinned' = pinned \ {s}, s \in pinned
    PROVE  Leases' = Leases \ {<<s, "pin">>} /\ <<s, "pin">> \in Leases
<1>1. \A t \in Sessions : Request(t)' = Request(t) /\ (Request(t) = <<s, "pin">> => t = s)
  BY DEF Request
<1>2. Tokens \subseteq Sessions /\ pinned \subseteq Sessions
  BY DEF Tokens, TypeOK
<1>3. \A t \in pinned : <<t, "pin">> = <<s, "pin">> => t = s
  OBVIOUS
<1> QED
  BY <1>1, <1>2, <1>3 DEF Leases

\* ... and when a request joins or leaves the queue.
LEMMA WaitersFollow ==
    ASSUME NEW s \in Sessions, want' = want
    PROVE  /\ Queued' = Queued => Waiters' = Waiters
           /\ Queued' = Queued \cup {s} => Waiters' = Waiters \cup {Request(s)}
           /\ Queued' = Queued \ {s} /\ s \in Queued => Waiters' = Waiters \ {Request(s)}
           /\ s \in Queued <=> Request(s) \in Waiters
           /\ s \notin Queued => <<s, "pin">> \notin Waiters
<1>1. \A t \in Sessions : Request(t)' = Request(t) /\ (Request(t) = Request(s) => t = s)
  BY DEF Request
<1>2. Queued \subseteq Sessions
  BY DEF Queued
<1>3. Queued' = Queued => Waiters' = Waiters
  BY <1>1, <1>2 DEF Waiters
<1>4. Queued' = Queued \cup {s} => Waiters' = Waiters \cup {Request(s)}
  BY <1>1, <1>2 DEF Waiters
<1>5. Queued' = Queued \ {s} /\ s \in Queued => Waiters' = Waiters \ {Request(s)}
  BY <1>1, <1>2 DEF Waiters
<1>6. s \in Queued <=> Request(s) \in Waiters
  BY <1>1, <1>2 DEF Waiters
<1>7. s \notin Queued => <<s, "pin">> \notin Waiters
  BY <1>2 DEF Waiters, Request
<1> QED
  BY <1>3, <1>4, <1>5, <1>6, <1>7

\* A step of the abstract pool for some request is a step of the abstract pool.
LEMMA PoolSteps ==
    ASSUME NEW r \in Requests, Pool!Lease(r) \/ Pool!Join(r) \/ Pool!Serve(r) \/ Pool!Quit(r) \/ Pool!Return(r)
    PROVE  Pool!PoolNext
BY DEF Pool!PoolNext

\* Every step of a session is a step of the abstract pool or leaves it alone; one
\* step per action, with the sets of sessions it changes first.
LEMMA StepRefines == GatewayInv /\ [Next]_vars => [Pool!PoolNext]_(Pool!poolVars)
<1> SUFFICES ASSUME GatewayInv, [Next]_vars
             PROVE  Pool!PoolNext \/ UNCHANGED <<Leases, Waiters>>
  BY DEF Pool!poolVars, Leases, Waiters
<1> USE GatewayAssumption DEF Stages, Working, Goes
<1>0. \A s \in Sessions : Request(s) \in Requests /\ <<s, "pin">> \in Requests
  BY DEF Request, Requests
<1>00. /\ TypeOK
       /\ Cardinality(Leases) \in Nat /\ Cardinality(Leases) <= admission /\ admission \in 0..MaxUpstream
       /\ Cardinality(Waiters) \in Nat /\ Cardinality(Waiters) <= queue /\ queue \in 0..MaxQueued
  BY PoolSizes DEF GatewayInv, TypeOK
<1>1. ASSUME NEW s \in Sessions, NEW w \in {"exec", "rows", "pin", "unpin"}, Ask(s, w)
      PROVE  UNCHANGED <<Leases, Waiters>>
  <2>1. /\ Queued' = Queued /\ s \notin Queued /\ s \notin Tokens
        /\ \A t \in Sessions : t # s => Request(t)' = Request(t)
    BY <1>1 DEF Ask, GatewayInv, TypeOK, PinsOnce, Tokens, Queued, HoldsToken, Request
  <2>2. CASE w = "unpin"
    <3>1. /\ Tokens' = Tokens \cup {s} /\ pinned' = pinned \ {s} /\ s \in pinned
          /\ Request(s)' = <<s, "pin">>
      BY <1>1, <2>2 DEF Ask, GatewayInv, TypeOK, PinsOnce, Tokens, Queued, HoldsToken, Request
    <3> QED
      <4>1. Tokens \subseteq Sessions /\ Queued \subseteq Sessions /\ pinned \subseteq Sessions
        BY DEF Tokens, Queued, GatewayInv, TypeOK
      <4>2. Waiters' = Waiters
        BY <2>1, <4>1 DEF Waiters
      <4>3. {Request(t) : t \in Tokens}' = {Request(t) : t \in Tokens} \cup {<<s, "pin">>}
        BY <2>1, <3>1, <4>1
      <4>4. {<<t, "pin">> : t \in pinned} = {<<t, "pin">> : t \in pinned}' \cup {<<s, "pin">>}
        BY <3>1
      <4> QED
        BY <4>2, <4>3, <4>4 DEF Leases
  <2>3. CASE w # "unpin"
    <3>1. Tokens' = Tokens /\ pinned' = pinned
      BY <1>1, <2>3 DEF Ask, GatewayInv, TypeOK, PinsOnce, Tokens, Queued, HoldsToken
    <3> QED
      BY <2>1, <3>1 DEF Leases, Waiters, Tokens, Queued
  <2> QED
    BY <2>2, <2>3
<1>2. ASSUME NEW s \in Sessions, Reply(s)
      PROVE  UNCHANGED <<Leases, Waiters>>
  <2>1. /\ Queued' = Queued /\ s \notin Queued /\ Tokens' = Tokens /\ s \notin Tokens /\ pinned' = pinned
        /\ \A t \in Sessions : t # s => Request(t)' = Request(t)
    BY <1>2 DEF Reply, GatewayInv, TypeOK, PinsOnce, Tokens, Queued, HoldsToken, Request
  <2> QED
    BY <2>1 DEF Leases, Waiters, Tokens, Queued
<1>3. ASSUME NEW s \in Sessions, Acquire(s)
      PROVE  Pool!PoolNext \/ UNCHANGED <<Leases, Waiters>>
  <2>0. pc[s] = "acquire" /\ UNCHANGED <<want, pinned>>
    BY <1>3 DEF Acquire
  <2>1. CASE admission < MaxUpstream /\ Goes(s, "checkout") /\ UNCHANGED queue
    <3>1. /\ Tokens' = Tokens \cup {s} /\ s \notin Tokens
          /\ pinned' = pinned
          /\ Queued' = Queued
          /\ want' = want
      BY <2>0, <2>1 DEF GatewayInv, TypeOK, PinsOnce, Tokens, Queued, HoldsToken
    <3>2. (want[s] \in {"pin", "unpin"} => s \notin pinned) /\ (s \in Queued <=> pc[s] \in {"queued", "granted"})
      BY <2>0, <2>1 DEF GatewayInv, PinsOnce, Queued
    <3>3. Request(s) \notin Leases \cup Waiters /\ Leases' = Leases \cup {Request(s)} /\ Waiters' = Waiters
      BY <2>0, <2>1, <1>00, <3>1, <3>2, LeasesFollow, WaitersFollow, Zenon
    <3>4. Cardinality(Leases) < MaxUpstream
      BY <2>0, <2>1, <1>00 
    <3>5. PICK r \in Requests : r = Request(s)
      BY <1>0, Zenon
    <3>6. Pool!Lease(r)
      BY <3>3, <3>5, <3>4, SameCardinality DEF Pool!Lease, Leases, Waiters
    <3> QED
      BY <3>6, PoolSteps
  <2>2. CASE queue < MaxQueued /\ Goes(s, "queued") /\ UNCHANGED admission
    <3>1. /\ Tokens' = Tokens /\ s \notin Tokens
          /\ pinned' = pinned
          /\ Queued' = Queued \cup {s} /\ s \notin Queued
          /\ want' = want
      BY <2>0, <2>2 DEF GatewayInv, TypeOK, PinsOnce, Tokens, Queued, HoldsToken
    <3>2. (want[s] \in {"pin", "unpin"} => s \notin pinned) /\ (s \in Queued <=> pc[s] \in {"queued", "granted"})
      BY <2>0, <2>2 DEF GatewayInv, PinsOnce, Queued
    <3>3. Request(s) \notin Leases \cup Waiters /\ Waiters' = Waiters \cup {Request(s)} /\ Leases' = Leases
      BY <2>0, <2>2, <1>00, <3>1, <3>2, LeasesFollow, WaitersFollow, Zenon
    <3>4. Cardinality(Waiters) < MaxQueued
      BY <2>0, <2>2, <1>00 
    <3>5. PICK r \in Requests : r = Request(s)
      BY <1>0, Zenon
    <3>6. Pool!Join(r)
      BY <3>3, <3>5, <3>4, SameCardinality DEF Pool!Join, Leases, Waiters
    <3> QED
      BY <3>6, PoolSteps
  <2>3. CASE Goes(s, "reply") /\ UNCHANGED <<admission, queue>>
    <3>1. /\ Tokens' = Tokens
          /\ pinned' = pinned
          /\ Queued' = Queued
          /\ want' = want
      BY <2>0, <2>3 DEF GatewayInv, TypeOK, PinsOnce, Tokens, Queued, HoldsToken
    <3> QED
      BY <2>0, <2>3, <3>1 DEF Leases, Waiters, Request
  <2> QED
    BY <1>3, <2>1, <2>2, <2>3 DEF Acquire
<1>4. ASSUME NEW s \in Sessions, Granted(s)
      PROVE  Pool!PoolNext \/ UNCHANGED <<Leases, Waiters>>
  <2>1. /\ Tokens' = Tokens \cup {s} /\ s \notin Tokens
        /\ pinned' = pinned
        /\ Queued' = Queued
        /\ want' = want
    BY <1>4 DEF Granted, GatewayInv, TypeOK, PinsOnce, Tokens, Queued, HoldsToken
  <2>2. (want[s] \in {"pin", "unpin"} => s \notin pinned) /\ (s \in Queued <=> pc[s] \in {"queued", "granted"})
    BY <1>4 DEF Granted, GatewayInv, PinsOnce, Queued
  <2>3. Request(s) \in Waiters \ Leases /\ Leases' = Leases \cup {Request(s)} /\ Waiters' = Waiters
    BY <1>4, <1>00, <2>1, <2>2, LeasesFollow, WaitersFollow, Zenon DEF Granted
  <2>4. Cardinality(Leases) < MaxUpstream
    BY <1>4, <1>00 DEF Granted
  <2>5. PICK r \in Requests : r = Request(s)
    BY <1>0, Zenon
  <2>6. Pool!Serve(r)
    BY <2>3, <2>5, <2>4, SameCardinality DEF Pool!Serve, Leases, Waiters
  <2> QED
    BY <2>6, PoolSteps
<1>5. ASSUME NEW s \in Sessions, LeaveQueue(s)
      PROVE  Pool!PoolNext \/ UNCHANGED <<Leases, Waiters>>
  <2>1. /\ Tokens' = Tokens
        /\ pinned' = pinned
        /\ Queued' = Queued \ {s} /\ s \in Queued
        /\ want' = want
    BY <1>5 DEF LeaveQueue, GatewayInv, TypeOK, PinsOnce, Tokens, Queued, HoldsToken
  <2>2. (want[s] \in {"pin", "unpin"} => s \notin pinned) /\ (s \in Queued <=> pc[s] \in {"queued", "granted"})
    BY <1>5 DEF LeaveQueue, GatewayInv, PinsOnce, Queued
  <2>3. Request(s) \in Waiters /\ Waiters' = Waiters \ {Request(s)} /\ Leases' = Leases
    BY <1>00, <2>1, <2>2, LeasesFollow, WaitersFollow, Zenon
  <2>5. PICK r \in Requests : r = Request(s)
    BY <1>0, Zenon
  <2>6. Pool!Quit(r)
    BY <2>3, <2>5 DEF Pool!Quit, Leases, Waiters
  <2> QED
    BY <2>6, PoolSteps
<1>6. ASSUME NEW s \in Sessions, QueueDeadline(s)
      PROVE  Pool!PoolNext \/ UNCHANGED <<Leases, Waiters>>
  <2>1. /\ Tokens' = Tokens
        /\ pinned' = pinned
        /\ Queued' = Queued \ {s} /\ s \in Queued
        /\ want' = want
    BY <1>6 DEF QueueDeadline, GatewayInv, TypeOK, PinsOnce, Tokens, Queued, HoldsToken
  <2>2. (want[s] \in {"pin", "unpin"} => s \notin pinned) /\ (s \in Queued <=> pc[s] \in {"queued", "granted"})
    BY <1>6 DEF QueueDeadline, GatewayInv, PinsOnce, Queued
  <2>3. Request(s) \in Waiters /\ Waiters' = Waiters \ {Request(s)} /\ Leases' = Leases
    BY <1>00, <2>1, <2>2, LeasesFollow, WaitersFollow, Zenon
  <2>5. PICK r \in Requests : r = Request(s)
    BY <1>0, Zenon
  <2>6. Pool!Quit(r)
    BY <2>3, <2>5 DEF Pool!Quit, Leases, Waiters
  <2> QED
    BY <2>6, PoolSteps
<1>7. ASSUME NEW s \in Sessions, Checkout(s)
      PROVE  Pool!PoolNext \/ UNCHANGED <<Leases, Waiters>>
  <2>1. /\ Tokens' = Tokens
        /\ pinned' = pinned
        /\ Queued' = Queued
        /\ want' = want
    BY <1>7 DEF Checkout, GatewayInv, TypeOK, PinsOnce, Tokens, Queued, HoldsToken
  <2> QED
    BY <1>7, <2>1 DEF Leases, Waiters, Request
<1>8. ASSUME NEW s \in Sessions, CheckoutFails(s)
      PROVE  Pool!PoolNext \/ UNCHANGED <<Leases, Waiters>>
  <2>1. /\ Tokens' = Tokens \ {s} /\ s \in Tokens
        /\ pinned' = pinned
        /\ Queued' = Queued
        /\ want' = want
    BY <1>8 DEF CheckoutFails, GatewayInv, TypeOK, PinsOnce, Tokens, Queued, HoldsToken
  <2>2. (want[s] \in {"pin", "unpin"} => s \notin pinned) /\ (s \in Queued <=> pc[s] \in {"queued", "granted"})
    BY <1>8 DEF CheckoutFails, GatewayInv, PinsOnce, Queued
  <2>3. Request(s) \in Leases \ Waiters /\ Leases' = Leases \ {Request(s)} /\ Waiters' = Waiters
    BY <1>8, <1>00, <2>1, <2>2, LeasesFollow, LeaseReturned, WaitersFollow, Zenon DEF CheckoutFails
  <2>5. PICK r \in Requests : r = Request(s)
    BY <1>0, Zenon
  <2>6. Pool!Return(r)
    BY <2>3, <2>5 DEF Pool!Return, Leases, Waiters
  <2> QED
    BY <2>6, PoolSteps
<1>9. ASSUME NEW s \in Sessions, Run(s)
      PROVE  Pool!PoolNext \/ UNCHANGED <<Leases, Waiters>>
  <2>0. pc[s] = "run" /\ UNCHANGED want
    BY <1>9 DEF Run
  <2>1. CASE pinned' = pinned \cup {s} /\ want[s] = "pin" /\ Goes(s, "reply")
    <3>1. /\ Tokens' = Tokens \ {s} /\ s \in Tokens
          /\ pinned' = pinned \cup {s} /\ s \notin pinned
          /\ Queued' = Queued
          /\ want' = want
      BY <2>0, <2>1 DEF First, GatewayInv, TypeOK, PinsOnce, Tokens, Queued, HoldsToken
    <3> QED
      BY <2>0, <2>1, <3>1 DEF Leases, Waiters, Request
  <2>2. CASE UNCHANGED pinned /\ Goes(s, First(want[s]))
    <3>1. /\ Tokens' = Tokens
          /\ pinned' = pinned
          /\ Queued' = Queued
          /\ want' = want
      BY <2>0, <2>2 DEF First, GatewayInv, TypeOK, PinsOnce, Tokens, Queued, HoldsToken
    <3> QED
      BY <2>0, <2>2, <3>1 DEF Leases, Waiters, Request
  <2> QED
    BY <1>9, <2>1, <2>2 DEF Run
<1>10. ASSUME NEW s \in Sessions, CloseConnection(s)
      PROVE  Pool!PoolNext \/ UNCHANGED <<Leases, Waiters>>
  <2>1. /\ Tokens' = Tokens
        /\ pinned' = pinned
        /\ Queued' = Queued
        /\ want' = want
    BY <1>10 DEF CloseConnection, AfterClose, GatewayInv, TypeOK, PinsOnce, Tokens, Queued, HoldsToken
  <2> QED
    BY <1>10, <2>1 DEF Leases, Waiters, Request
<1>11. ASSUME NEW s \in Sessions, ReleaseToken(s)
      PROVE  Pool!PoolNext \/ UNCHANGED <<Leases, Waiters>>
  <2>1. /\ Tokens' = Tokens \ {s} /\ s \in Tokens
        /\ pinned' = pinned
        /\ Queued' = Queued
        /\ want' = want
    BY <1>11 DEF ReleaseToken, AfterRelease, GatewayInv, TypeOK, PinsOnce, Tokens, Queued, HoldsToken
  <2>2. (want[s] \in {"pin", "unpin"} => s \notin pinned) /\ (s \in Queued <=> pc[s] \in {"queued", "granted"})
    BY <1>11 DEF ReleaseToken, GatewayInv, PinsOnce, Queued
  <2>3. Request(s) \in Leases \ Waiters /\ Leases' = Leases \ {Request(s)} /\ Waiters' = Waiters
    BY <1>11, <1>00, <2>1, <2>2, LeasesFollow, LeaseReturned, WaitersFollow, Zenon DEF ReleaseToken
  <2>5. PICK r \in Requests : r = Request(s)
    BY <1>0, Zenon
  <2>6. Pool!Return(r)
    BY <2>3, <2>5 DEF Pool!Return, Leases, Waiters
  <2> QED
    BY <2>6, PoolSteps
<1>12. ASSUME NEW s \in Sessions, Leave(s)
      PROVE  Pool!PoolNext \/ UNCHANGED <<Leases, Waiters>>
  <2>1. /\ Tokens' = Tokens
        /\ pinned' = pinned
        /\ Queued' = Queued
        /\ want' = want
    BY <1>12 DEF Leave, GatewayInv, TypeOK, PinsOnce, Tokens, Queued, HoldsToken
  <2> QED
    BY <1>12, <2>1 DEF Leases, Waiters, Request
<1>13. ASSUME NEW s \in Sessions, End(s)
      PROVE  Pool!PoolNext \/ UNCHANGED <<Leases, Waiters>>
  <2>1. /\ Tokens' = Tokens
        /\ pinned' = pinned
        /\ Queued' = Queued
        /\ want' = want
    BY <1>13 DEF End, GatewayInv, TypeOK, PinsOnce, Tokens, Queued, HoldsToken
  <2> QED
    BY <1>13, <2>1 DEF Leases, Waiters, Request
<1>14. ASSUME NEW s \in Sessions, Ended(s)
      PROVE  Pool!PoolNext \/ UNCHANGED <<Leases, Waiters>>
  <2>1. /\ Tokens' = Tokens
        /\ pinned' = pinned \ {s} /\ s \in pinned
        /\ Queued' = Queued
        /\ want' = want
    BY <1>14 DEF Ended, GatewayInv, TypeOK, PinsOnce, Tokens, Queued, HoldsToken
  <2>2. s \notin Tokens /\ s \notin Queued
    BY <1>14 DEF Ended, GatewayInv, TypeOK, PinsOnce, Tokens, Queued, HoldsToken
  <2>3. <<s, "pin">> \in Leases \ Waiters /\ Leases' = Leases \ {<<s, "pin">>} /\ Waiters' = Waiters
    BY <1>14, <1>00, <2>1, <2>2, PinReturned, WaitersFollow DEF Ended
  <2>5. Pool!Return(<<s, "pin">>)
    BY <2>3 DEF Pool!Return, Leases, Waiters
  <2> QED
    BY <2>5, <1>0, PoolSteps
<1>15. CASE UNCHANGED vars
  BY <1>15 DEF vars, Leases, Waiters, Tokens, Queued, HoldsToken, Request
<1> QED
  BY <1>1, <1>2, <1>3, <1>4, <1>5, <1>6, <1>7, <1>8, <1>9, <1>10, <1>11, <1>12, <1>13, <1>14, <1>15 DEF Next

\* The sessions of the gateway together implement the pool of leases, for any number
\* of sessions and any limits: no interleaving of statements, pins and disconnects
\* holds more connections or queues more requests than configured.
THEOREM GatewayImplementsLeasePool == Spec => ImplementsLeasePool
<1>1. Init => Pool!PoolInit
  BY DEF Init, Pool!PoolInit, Tokens, Queued, HoldsToken
<1> QED
  BY <1>1, SpecGatewayInv, StepRefines, PTL DEF Spec, ImplementsLeasePool, Pool!PoolSpec

-----------------------------------------------------------------------------
(* Checkout.                                                               *)

\* The labels at which checkout, or the session, holds a connection.
Holding == {"reset", "discard", "held", "using"}

\* Who holds a connection, which attempt it is, and that the transaction of the
\* last user is gone once the first command has been sent.
HoldsOne == \A k \in Callers : conn[k] # "nil" <=> phase[k] \in Holding
AttemptsLeft == \A k \in Callers : phase[k] \in {"get", "reset", "discard"} => attempt[k] \in 1..2
RolledBack == \A k \in Callers : phase[k] = "reset" =>
    step[k] > 0 /\ (step[k] > 1 => open[conn[k]] = "no")

CheckoutInv ==
    /\ CheckoutTypes /\ HoldsOne /\ AttemptsLeft /\ RolledBack
    /\ HeldClean /\ Exclusive /\ FailedDestroyed /\ NothingLeaked

\* resetConnection rolls back first, and no later command but the second sets
\* autocommit.
LEMMA CommandOrder ==
    /\ Len(Commands) \in Nat /\ Len(Commands) > 2
    /\ Commands[1] = "rollback" /\ Commands[2] = "autocommit"
<1>1. CASE HasDatabase
  BY <1>1 DEF Commands
<1>2. CASE ~HasDatabase
  BY <1>2 DEF Commands
<1> QED
  BY <1>1, <1>2, CheckoutAssumption

\* No session holds a connection at the start.
LEMMA InitCheckoutInv == CheckoutInit => CheckoutInv
BY CheckoutAssumption, CommandOrder
   DEF CheckoutInit, CheckoutInv, CheckoutTypes, HoldsOne, AttemptsLeft, RolledBack, HeldClean, Exclusive, FailedDestroyed,
       NothingLeaked, Holding

\* Each step keeps it: a session changes only the connection it holds, which no
\* other session holds.
LEMMA NextCheckoutInv == CheckoutInv /\ [CheckoutNext]_checkoutVars => CheckoutInv'
<1> SUFFICES ASSUME CheckoutInv, [CheckoutNext]_checkoutVars PROVE CheckoutInv'
  OBVIOUS
<1> USE CheckoutAssumption, CommandOrder DEF Holding, Settings, Verified, link
<1>1. ASSUME NEW k \in Callers, Begin(k) PROVE CheckoutInv'
  <2>1. CheckoutTypes'
    BY <1>1 DEF Begin, Goto, CheckoutInv, CheckoutTypes, HoldsOne, AttemptsLeft
  <2>2. (HoldsOne /\ AttemptsLeft /\ RolledBack)'
    BY <1>1 DEF Begin, Goto, CheckoutInv, CheckoutTypes, HoldsOne, AttemptsLeft, RolledBack, Exclusive
  <2>3. (HeldClean /\ Exclusive /\ FailedDestroyed /\ NothingLeaked)'
    BY <1>1 DEF Begin, Goto, CheckoutInv, CheckoutTypes, HoldsOne, RolledBack, HeldClean, Exclusive, FailedDestroyed, NothingLeaked
  <2> QED
    BY <2>1, <2>2, <2>3 DEF CheckoutInv
<1>2. ASSUME NEW k \in Callers, NEW c \in Slots, GetIdle(k, c) PROVE CheckoutInv'
  <2>1. CheckoutTypes'
    BY <1>2 DEF GetIdle, Goto, CheckoutInv, CheckoutTypes, HoldsOne, AttemptsLeft
  <2>2. (HoldsOne /\ AttemptsLeft /\ RolledBack)'
    BY <1>2 DEF GetIdle, Goto, CheckoutInv, CheckoutTypes, HoldsOne, AttemptsLeft, RolledBack, Exclusive
  <2>3. (HeldClean /\ Exclusive /\ FailedDestroyed /\ NothingLeaked)'
    BY <1>2 DEF GetIdle, Goto, CheckoutInv, CheckoutTypes, HoldsOne, RolledBack, HeldClean, Exclusive, FailedDestroyed, NothingLeaked
  <2> QED
    BY <2>1, <2>2, <2>3 DEF CheckoutInv
<1>3. ASSUME NEW k \in Callers, NEW c \in Slots, GetNew(k, c) PROVE CheckoutInv'
  <2>1. CheckoutTypes'
    BY <1>3 DEF GetNew, Goto, CheckoutInv, CheckoutTypes, HoldsOne, AttemptsLeft
  <2>2. (HoldsOne /\ AttemptsLeft /\ RolledBack)'
    BY <1>3 DEF GetNew, Goto, CheckoutInv, CheckoutTypes, HoldsOne, AttemptsLeft, RolledBack, Exclusive
  <2>3. (HeldClean /\ Exclusive /\ FailedDestroyed /\ NothingLeaked)'
    BY <1>3 DEF GetNew, Goto, CheckoutInv, CheckoutTypes, HoldsOne, RolledBack, HeldClean, Exclusive, FailedDestroyed, NothingLeaked
  <2> QED
    BY <2>1, <2>2, <2>3 DEF CheckoutInv
<1>4. ASSUME NEW k \in Callers, GetFails(k) PROVE CheckoutInv'
  <2>1. CheckoutTypes'
    BY <1>4 DEF GetFails, Retry, CheckoutInv, CheckoutTypes, HoldsOne, AttemptsLeft
  <2>2. (HoldsOne /\ AttemptsLeft /\ RolledBack)'
    BY <1>4 DEF GetFails, Retry, CheckoutInv, CheckoutTypes, HoldsOne, AttemptsLeft, RolledBack, Exclusive
  <2>3. (HeldClean /\ Exclusive /\ FailedDestroyed /\ NothingLeaked)'
    BY <1>4 DEF GetFails, Retry, CheckoutInv, CheckoutTypes, HoldsOne, RolledBack, HeldClean, Exclusive, FailedDestroyed, NothingLeaked
  <2> QED
    BY <2>1, <2>2, <2>3 DEF CheckoutInv
<1>5. ASSUME NEW k \in Callers, ResetCommand(k) PROVE CheckoutInv'
  <2>0. PICK c \in Slots : conn[k] = c
    BY <1>5 DEF ResetCommand, CheckoutInv, CheckoutTypes, HoldsOne
  <2>1. phase' \in [Callers -> {"idle", "get", "reset", "discard", "held", "using", "failed"}]
    BY <1>5 DEF ResetCommand, Effect, Passes, CheckoutInv, CheckoutTypes
  <2>2. attempt' \in [Callers -> 0..3] /\ step' \in [Callers -> 0..(Len(Commands) + 1)]
    BY <1>5 DEF ResetCommand, Effect, Passes, CheckoutInv, CheckoutTypes, AttemptsLeft
  <2>3. conn' \in [Callers -> Slots \cup {"nil"}] /\ pool' \in [Slots -> {"none", "idle", "used"}] /\ suspect' \subseteq Slots
    BY <1>5, <2>0 DEF ResetCommand, Effect, Passes, CheckoutInv, CheckoutTypes
  <2>4. changed' \in [Slots -> SUBSET Settings]
    <3>1. \/ changed' = changed
          \/ changed' = [changed EXCEPT ![c] = changed[c] \ {Commands[step[k]]}]
      BY <1>5, <2>0, Zenon DEF ResetCommand, Effect
    <3>2. changed \in [Slots -> SUBSET Settings] /\ changed[c] \ {Commands[step[k]]} \in SUBSET Settings
      BY DEF CheckoutInv, CheckoutTypes
    <3> QED
      BY <3>1, <3>2
  <2>5. open' \in [Slots -> {"no", "yes"}]
    BY <1>5, <2>0 DEF ResetCommand, Effect, Passes, CheckoutInv, CheckoutTypes
  <2>6. warned' \in [Slots -> {"no", "yes"}] /\ leaked' \in {"no", "yes"}
    <3>1. PICK w \in {"no", "yes"} : warned' = [warned EXCEPT ![c] = w]
      BY <1>5, <2>0 DEF ResetCommand, Effect
    <3> QED
      BY <1>5, <3>1 DEF ResetCommand, Effect, CheckoutInv, CheckoutTypes
  <2>7. (HoldsOne /\ AttemptsLeft /\ RolledBack)'
    BY <1>5 DEF ResetCommand, Effect, Passes, CheckoutInv, CheckoutTypes, HoldsOne, AttemptsLeft, RolledBack, Exclusive
  <2>8. (HeldClean /\ Exclusive /\ FailedDestroyed /\ NothingLeaked)'
    BY <1>5 DEF ResetCommand, Effect, Passes, CheckoutInv, CheckoutTypes, HoldsOne, RolledBack, HeldClean, Exclusive, FailedDestroyed, NothingLeaked
  <2> QED
    BY <2>1, <2>2, <2>3, <2>4, <2>5, <2>6, <2>7, <2>8 DEF CheckoutInv, CheckoutTypes
<1>6. ASSUME NEW k \in Callers, ResetError(k) PROVE CheckoutInv'
  <2>1. CheckoutTypes'
    BY <1>6 DEF ResetError, Goto, CheckoutInv, CheckoutTypes, HoldsOne, AttemptsLeft
  <2>2. (HoldsOne /\ AttemptsLeft /\ RolledBack)'
    BY <1>6 DEF ResetError, Goto, CheckoutInv, CheckoutTypes, HoldsOne, AttemptsLeft, RolledBack, Exclusive
  <2>3. (HeldClean /\ Exclusive /\ FailedDestroyed /\ NothingLeaked)'
    BY <1>6 DEF ResetError, Goto, CheckoutInv, CheckoutTypes, HoldsOne, RolledBack, HeldClean, Exclusive, FailedDestroyed, NothingLeaked
  <2> QED
    BY <2>1, <2>2, <2>3 DEF CheckoutInv
<1>7. ASSUME NEW k \in Callers, VerifyReset(k) PROVE CheckoutInv'
  <2>1. CheckoutTypes'
    BY <1>7 DEF VerifyReset, Goto, CheckoutInv, CheckoutTypes, HoldsOne, AttemptsLeft
  <2>2. (HoldsOne /\ AttemptsLeft /\ RolledBack)'
    BY <1>7 DEF VerifyReset, Goto, CheckoutInv, CheckoutTypes, HoldsOne, AttemptsLeft, RolledBack, Exclusive
  <2>3. (HeldClean /\ Exclusive /\ FailedDestroyed /\ NothingLeaked)'
    BY <1>7 DEF VerifyReset, Goto, CheckoutInv, CheckoutTypes, HoldsOne, RolledBack, HeldClean, Exclusive, FailedDestroyed, NothingLeaked
  <2> QED
    BY <2>1, <2>2, <2>3 DEF CheckoutInv
<1>8. ASSUME NEW k \in Callers, Discard(k) PROVE CheckoutInv'
  <2>0. PICK c \in Slots : conn[k] = c
    BY <1>8 DEF Discard, CheckoutInv, CheckoutTypes, HoldsOne
  <2>1. phase' \in [Callers -> {"idle", "get", "reset", "discard", "held", "using", "failed"}]
    BY <1>8 DEF Discard, Retry, CheckoutInv, CheckoutTypes
  <2>2. attempt' \in [Callers -> 0..3] /\ step' \in [Callers -> 0..(Len(Commands) + 1)]
    <3>0. attempt \in [Callers -> 0..3] /\ attempt[k] \in 1..2 /\ attempt' = [attempt EXCEPT ![k] = @ + 1]
      BY <1>8 DEF Discard, Retry, CheckoutInv, CheckoutTypes, AttemptsLeft
    <3>1. attempt' \in [Callers -> 0..3]
      BY <3>0
    <3>2. step' \in [Callers -> 0..(Len(Commands) + 1)]
      BY <1>8 DEF Discard, Retry, CheckoutInv, CheckoutTypes
    <3> QED
      BY <3>1, <3>2
  <2>3. conn' \in [Callers -> Slots \cup {"nil"}] /\ pool' \in [Slots -> {"none", "idle", "used"}] /\ suspect' \subseteq Slots
    BY <1>8, <2>0 DEF Discard, Retry, CheckoutInv, CheckoutTypes
  <2>4. changed' \in [Slots -> SUBSET Settings]
    BY <1>8, <2>0 DEF Discard, Retry, CheckoutInv, CheckoutTypes
  <2>5. open' \in [Slots -> {"no", "yes"}]
    BY <1>8, <2>0 DEF Discard, Retry, CheckoutInv, CheckoutTypes
  <2>6. warned' \in [Slots -> {"no", "yes"}] /\ leaked' \in {"no", "yes"}
    BY <1>8, <2>0 DEF Discard, Retry, CheckoutInv, CheckoutTypes
  <2>7. (HoldsOne /\ AttemptsLeft /\ RolledBack)'
    BY <1>8 DEF Discard, Retry, CheckoutInv, CheckoutTypes, HoldsOne, AttemptsLeft, RolledBack, Exclusive
  <2>8. (HeldClean /\ Exclusive /\ FailedDestroyed /\ NothingLeaked)'
    BY <1>8 DEF Discard, Retry, CheckoutInv, CheckoutTypes, HoldsOne, RolledBack, HeldClean, Exclusive, FailedDestroyed, NothingLeaked
  <2> QED
    BY <2>1, <2>2, <2>3, <2>4, <2>5, <2>6, <2>7, <2>8 DEF CheckoutInv, CheckoutTypes
<1>9. ASSUME NEW k \in Callers, Use(k) PROVE CheckoutInv'
  <2>1. CheckoutTypes'
    BY <1>9 DEF Use, Goto, CheckoutInv, CheckoutTypes, HoldsOne, AttemptsLeft
  <2>2. (HoldsOne /\ AttemptsLeft /\ RolledBack)'
    BY <1>9 DEF Use, Goto, CheckoutInv, CheckoutTypes, HoldsOne, AttemptsLeft, RolledBack, Exclusive
  <2>3. (HeldClean /\ Exclusive /\ FailedDestroyed /\ NothingLeaked)'
    BY <1>9 DEF Use, Goto, CheckoutInv, CheckoutTypes, HoldsOne, RolledBack, HeldClean, Exclusive, FailedDestroyed, NothingLeaked
  <2> QED
    BY <2>1, <2>2, <2>3 DEF CheckoutInv
<1>10. ASSUME NEW k \in Callers, GiveBack(k) PROVE CheckoutInv'
  <2>1. CheckoutTypes'
    <3>1. PICK st \in {"idle", "none"} : pool' = [pool EXCEPT ![conn[k]] = st]
      BY <1>10 DEF GiveBack
    <3> QED
      BY <1>10, <3>1 DEF GiveBack, Goto, CheckoutInv, CheckoutTypes, HoldsOne, AttemptsLeft
  <2>2. (HoldsOne /\ AttemptsLeft /\ RolledBack)'
    BY <1>10 DEF GiveBack, Goto, CheckoutInv, CheckoutTypes, HoldsOne, AttemptsLeft, RolledBack, Exclusive
  <2>3. (HeldClean /\ Exclusive /\ FailedDestroyed /\ NothingLeaked)'
    BY <1>10 DEF GiveBack, Goto, CheckoutInv, CheckoutTypes, HoldsOne, RolledBack, HeldClean, Exclusive, FailedDestroyed, NothingLeaked
  <2> QED
    BY <2>1, <2>2, <2>3 DEF CheckoutInv
<1>11. ASSUME NEW k \in Callers, Report(k) PROVE CheckoutInv'
  <2>1. CheckoutTypes'
    BY <1>11 DEF Report, Goto, CheckoutInv, CheckoutTypes, HoldsOne, AttemptsLeft
  <2>2. (HoldsOne /\ AttemptsLeft /\ RolledBack)'
    BY <1>11 DEF Report, Goto, CheckoutInv, CheckoutTypes, HoldsOne, AttemptsLeft, RolledBack, Exclusive
  <2>3. (HeldClean /\ Exclusive /\ FailedDestroyed /\ NothingLeaked)'
    BY <1>11 DEF Report, Goto, CheckoutInv, CheckoutTypes, HoldsOne, RolledBack, HeldClean, Exclusive, FailedDestroyed, NothingLeaked
  <2> QED
    BY <2>1, <2>2, <2>3 DEF CheckoutInv
<1>12. CASE UNCHANGED checkoutVars
  BY <1>12 DEF checkoutVars, caller, CheckoutInv, CheckoutTypes, HoldsOne, AttemptsLeft, RolledBack, HeldClean, Exclusive,
     FailedDestroyed, NothingLeaked
<1> QED
  BY <1>1, <1>2, <1>3, <1>4, <1>5, <1>6, <1>7, <1>8, <1>9, <1>10, <1>11, <1>12 DEF CheckoutNext, CheckoutStep

\* Between any two steps of any sessions the invariant holds.
THEOREM SpecCheckoutInv == CheckoutSpec => []CheckoutInv
BY InitCheckoutInv, NextCheckoutInv, PTL DEF CheckoutSpec

\* A connection that checkout returns is on the baseline, with no open transaction
\* and no warnings (reset.go:37-106), for any number of sessions and connections.
THEOREM HeldCleanHolds == CheckoutSpec => []HeldClean
BY SpecCheckoutInv, PTL DEF CheckoutInv

\* No physical connection serves two sessions.
THEOREM ExclusiveHolds == CheckoutSpec => []Exclusive
BY SpecCheckoutInv, PTL DEF CheckoutInv

\* A connection whose reset failed is never used again (discardConnection).
THEOREM FailedDestroyedHolds == CheckoutSpec => []FailedDestroyed
BY SpecCheckoutInv, PTL DEF CheckoutInv

\* The reset never commits an abandoned transaction: ROLLBACK comes before
\* SET autocommit=1 in its list of commands.
THEOREM NothingLeakedHolds == CheckoutSpec => []NothingLeaked
BY SpecCheckoutInv, PTL DEF CheckoutInv

\* Together: what checkout hands out is clean, and what it does not is destroyed.
THEOREM CheckoutSafeHolds == CheckoutSpec => []CheckoutSafe
BY HeldCleanHolds, ExclusiveHolds, FailedDestroyedHolds, NothingLeakedHolds, PTL DEF CheckoutSafe
=============================================================================
