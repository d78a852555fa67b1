-------------------------- MODULE AdmissionProofs --------------------------
(***************************************************************************)
(* Theorems about Admission for every set of requests and every limit: the *)
(* channel and gauge counts are exact, the limits hold under every         *)
(* interleaving, and acquire implements the abstract pool of leases.       *)
(***************************************************************************)
EXTENDS Admission, FiniteSetTheorems, TLAPS

IInv == TypeOK /\ LeasesBacked /\ QueueExact

\* Adding an element raises a finite cardinality by one.
LEMMA OneMore ==
    ASSUME NEW S, NEW T, NEW x, IsFiniteSet(S), x \notin S, T = S \cup {x}
    PROVE  IsFiniteSet(T) /\ Cardinality(T) = Cardinality(S) + 1
BY FS_AddElement

\* Removing an element lowers it by one.
LEMMA OneLess ==
    ASSUME NEW S, NEW T, NEW x, IsFiniteSet(S), x \in S, T = S \ {x}
    PROVE  /\ IsFiniteSet(T) /\ Cardinality(T) = Cardinality(S) - 1
           /\ Cardinality(S) \in Nat \ {0}
BY FS_RemoveElement, FS_CardinalityType, FS_EmptySet

\* All the sets the counters are compared with are finite.
LEMMA FiniteAt ==
    ASSUME NEW S \in SUBSET Requests
    PROVE  IsFiniteSet(S) /\ Cardinality(S) \in Nat
BY AdmissionAssumption, FS_Subset, FS_CardinalityType

\* No goroutine is inside acquire at the start and the counters are zero.
LEMMA InitIInv == Init => IInv
<1> SUFFICES ASSUME Init PROVE IInv
  OBVIOUS
<1>1. Queued = {} /\ Waiters = {} /\ granted = {}
  BY DEF Init, Queued, Waiters, At
<1>2. Cardinality({}) = 0
  BY FS_EmptySet
<1> QED
  BY <1>1, <1>2, AdmissionAssumption
     DEF Init, IInv, TypeOK, LeasesBacked, QueueExact, Labels, At

\* A goroutine's move from one label to another, seen by the sets of labels.
LEMMA Move ==
    ASSUME TypeOK, NEW r \in Requests, NEW a \in Labels, NEW b \in Labels,
           Goto(r, a, b), NEW S
    PROVE  /\ pc' \in [Requests -> Labels]
           /\ a \in S /\ b \in S => At(S)' = At(S)
           /\ a \notin S /\ b \notin S => At(S)' = At(S)
           /\ a \notin S /\ b \in S => At(S)' = At(S) \cup {r} /\ r \notin At(S)
           /\ a \in S /\ b \notin S => At(S)' = At(S) \ {r} /\ r \in At(S)
BY DEF TypeOK, Goto, At

\* Each step keeps the counts exact; one step per action, and under it the sets
\* whose counters the action touches.
LEMMA NextIInv == IInv /\ [Next]_vars => IInv'
<1> SUFFICES ASSUME IInv, [Next]_vars PROVE IInv'
  OBVIOUS
<1> USE AdmissionAssumption DEF Labels
<1>0. /\ IsFiniteSet(granted) /\ IsFiniteSet(Queued) /\ IsFiniteSet(Waiters)
      /\ Cardinality(granted) \in Nat /\ Cardinality(Queued) \in Nat
      /\ Cardinality(Waiters) \in Nat
  BY FiniteAt DEF IInv, TypeOK, Queued, Waiters, At
<1>1. ASSUME NEW r \in Requests, TryAdmission(r) PROVE IInv'
  <2>1. CASE Goto(r, "idle", "held") /\ SendAdmission(r)
    <3>1. r \notin granted
      BY <2>1 DEF IInv, LeasesBacked, At, Goto
    <3>2. Cardinality(granted') = Cardinality(granted) + 1
      BY <1>0, <2>1, <3>1, OneMore, Zenon DEF SendAdmission
    <3>3. Queued' = Queued /\ Waiters' = Waiters
      BY <2>1, Move DEF IInv, Queued, Waiters
    <3> QED
      BY <1>1, <2>1, <3>2, <3>3, <1>0
         DEF TryAdmission, SendAdmission, Goto, IInv, TypeOK, LeasesBacked, QueueExact, At
  <2>2. ASSUME NEW to \in {"failed", "enqueue"}, Goto(r, "idle", to),
               UNCHANGED <<granted, admission>>
        PROVE  IInv'
    <3>1. Queued' = Queued /\ Waiters' = Waiters
      BY <2>2, Move DEF IInv, Queued, Waiters
    <3> QED
      BY <1>1, <2>2, <3>1
         DEF TryAdmission, Goto, IInv, TypeOK, LeasesBacked, QueueExact, At
  <2> QED
    BY <1>1, <2>1, <2>2 DEF TryAdmission
<1>2. ASSUME NEW r \in Requests, Enqueue(r) PROVE IInv'
  <2>1. ASSUME NEW to \in {"charge", "count"}, Goto(r, "enqueue", to),
               queue < MaxQueued, queue' = queue + 1
        PROVE  IInv'
    <3>1. Queued' = Queued \cup {r} /\ r \notin Queued /\ Waiters' = Waiters
      BY <2>1, Move DEF IInv, Queued, Waiters
    <3>2. Cardinality(Queued') = Cardinality(Queued) + 1
      BY <1>0, <3>1, OneMore, Zenon
    <3> QED
      BY <1>2, <2>1, <3>1, <3>2
         DEF Enqueue, Goto, IInv, TypeOK, LeasesBacked, QueueExact, At
  <2>2. CASE Goto(r, "enqueue", "failed") /\ UNCHANGED queue
    <3>1. Queued' = Queued /\ Waiters' = Waiters
      BY <2>2, Move DEF IInv, Queued, Waiters
    <3> QED
      BY <1>2, <2>2, <3>1
         DEF Enqueue, Goto, IInv, TypeOK, LeasesBacked, QueueExact, At
  <2> QED
    BY <1>2, <2>1, <2>2 DEF Enqueue
<1>3. ASSUME NEW r \in Requests, Charge(r) PROVE IInv'
  <2>1. PICK to \in {"refund", "count"} : Goto(r, "charge", to)
    BY <1>3 DEF Charge
  <2>2. Queued' = Queued /\ Waiters' = Waiters
    BY <2>1, Move DEF IInv, Queued, Waiters
  <2> QED
    BY <1>3, <2>1, <2>2
       DEF Charge, Goto, IInv, TypeOK, LeasesBacked, QueueExact, At
<1>4. ASSUME NEW r \in Requests, Refund(r) \/ Discharge(r) PROVE IInv'
  <2>1. PICK from \in {"refund", "discharge"} : Goto(r, from, "leave")
    BY <1>4 DEF Refund, Discharge
  <2>2. Queued' = Queued /\ Waiters' = Waiters
    BY <2>1, Move DEF IInv, Queued, Waiters
  <2> QED
    BY <1>4, <2>1, <2>2
       DEF Refund, Discharge, Goto, IInv, TypeOK, LeasesBacked, QueueExact, At
<1>5. ASSUME NEW r \in Requests, Count(r) PROVE IInv'
  <2>1. Queued' = Queued /\ Waiters' = Waiters \cup {r} /\ r \notin Waiters
    BY <1>5, Move DEF Count, IInv, Queued, Waiters
  <2>2. Cardinality(Waiters') = Cardinality(Waiters) + 1
    BY <1>0, <2>1, OneMore, Zenon
  <2> QED
    BY <1>5, <2>1, <2>2
       DEF Count, Goto, IInv, TypeOK, LeasesBacked, QueueExact, At
<1>6. ASSUME NEW r \in Requests, Grant(r) PROVE IInv'
  <2>1. r \notin granted
    BY <1>6 DEF Grant, IInv, LeasesBacked, At, Goto
  <2>2. Cardinality(granted') = Cardinality(granted) + 1
    BY <1>0, <1>6, <2>1, OneMore, Zenon DEF Grant, SendAdmission
  <2>3. Queued' = Queued /\ Waiters' = Waiters
    BY <1>6, Move DEF Grant, IInv, Queued, Waiters
  <2> QED
    BY <1>6, <2>2, <2>3, <1>0
       DEF Grant, SendAdmission, Goto, IInv, TypeOK, LeasesBacked, QueueExact, At
<1>7. ASSUME NEW r \in Requests, Expire(r) PROVE IInv'
  <2>1. Queued' = Queued /\ Waiters' = Waiters
    BY <1>7, Move DEF Expire, IInv, Queued, Waiters
  <2> QED
    BY <1>7, <2>1
       DEF Expire, Goto, IInv, TypeOK, LeasesBacked, QueueExact, At
<1>8. ASSUME NEW r \in Requests, Uncount(r) PROVE IInv'
  <2>1. Queued' = Queued /\ Waiters' = Waiters \ {r} /\ r \in Waiters
    BY <1>8, Move DEF Uncount, IInv, Queued, Waiters
  <2>2. Cardinality(Waiters') = Cardinality(Waiters) - 1
    BY <1>0, <2>1, OneLess, Zenon
  <2> QED
    BY <1>8, <2>1, <2>2
       DEF Uncount, Goto, IInv, TypeOK, LeasesBacked, QueueExact, At
<1>9. ASSUME NEW r \in Requests, LeaveQueue(r) PROVE IInv'
  <2>1. PICK to \in {"held", "failed"} :
           Goto(r, "leave", to) /\ (to = "held" <=> r \in granted)
    BY <1>9 DEF LeaveQueue
  <2>2. Queued' = Queued \ {r} /\ r \in Queued /\ Waiters' = Waiters
    BY <2>1, Move DEF IInv, Queued, Waiters
  <2>3. Cardinality(Queued') = Cardinality(Queued) - 1 /\ Cardinality(Queued) # 0
    BY <1>0, <2>2, OneLess, Zenon
  <2> QED
    BY <1>9, <2>1, <2>2, <2>3, <1>0
       DEF LeaveQueue, Goto, IInv, TypeOK, LeasesBacked, QueueExact, At
<1>10. ASSUME NEW r \in Requests, Release(r) PROVE IInv'
  <2>1. r \in granted
    BY <1>10 DEF Release, IInv, LeasesBacked, At, Goto
  <2>2. Cardinality(granted') = Cardinality(granted) - 1 /\ Cardinality(granted) # 0
    BY <1>0, <1>10, <2>1, OneLess, Zenon DEF Release
  <2>3. Queued' = Queued /\ Waiters' = Waiters
    BY <1>10, Move DEF Release, IInv, Queued, Waiters
  <2> QED
    BY <1>10, <2>2, <2>3, <1>0
       DEF Release, Goto, IInv, TypeOK, LeasesBacked, QueueExact, At
<1>11. ASSUME NEW r \in Requests, Answer(r) PROVE IInv'
  <2>1. Queued' = Queued /\ Waiters' = Waiters
    BY <1>11, Move DEF Answer, IInv, Queued, Waiters
  <2> QED
    BY <1>11, <2>1
       DEF Answer, Goto, IInv, TypeOK, LeasesBacked, QueueExact, At
<1>12. CASE UNCHANGED vars
  BY <1>12 DEF vars, IInv, TypeOK, LeasesBacked, QueueExact, Queued, Waiters, At
<1> QED
  BY <1>1, <1>2, <1>3, <1>4, <1>5, <1>6, <1>7, <1>8, <1>9, <1>10, <1>11, <1>12
     DEF Next, Step

\* The counters of acquire agree with the goroutines' positions in every reachable
\* state: the inductive invariant behind the theorems below.
THEOREM SpecIInv == Spec => []IInv
BY InitIInv, NextIInv, PTL DEF Spec

\* For any number of client goroutines and any limits, the tokens of the
\* admission channel are exactly the leases in use (gateway.go:350-387).
THEOREM LeasesBackedHolds == Spec => []LeasesBacked
BY SpecIInv, PTL DEF IInv

\* ... and the queue channel and the waiting gauge are exact.
THEOREM QueueExactHolds == Spec => []QueueExact
BY SpecIInv, PTL DEF IInv

\* ... and the counters stay within the configured limits.
THEOREM TypeCorrect == Spec => []TypeOK
BY SpecIInv, PTL DEF IInv
-----------------------------------------------------------------------------
(* The bytes.  BInv needs the sum of a set of requests to change by the     *)
(* bytes of the request that enters or leaves it.                           *)
BInv == BytesAccounted /\ AcceptedBytesBounded

\* A set of requests has finitely many bytes.
LEMMA FiniteUnits ==
    ASSUME NEW S \in SUBSET Requests
    PROVE  IsFiniteSet(UnitsOf(S)) /\ BytesOf(S) \in Nat
<1> DEFINE U == [r \in S |-> {r} \X (1..Bytes[r])]
           T == {{r} \X (1..Bytes[r]) : r \in S}
<1>1. IsFiniteSet(S)
  BY FiniteAt
<1>2. U \in Surjection(S, T)
  BY Zenon DEF Surjection
<1>3. IsFiniteSet(T)
  BY <1>1, <1>2, FS_Surjection
<1>4. ASSUME NEW r \in S PROVE IsFiniteSet({r} \X (1..Bytes[r]))
  <2>1. Bytes[r] \in Int
    BY AdmissionAssumption
  <2>2. IsFiniteSet(1..Bytes[r])
    BY <2>1, FS_Interval
  <2>3. IsFiniteSet({r})
    BY FS_Singleton, Zenon
  <2> QED
    BY <2>2, <2>3, FS_Product, Zenon
<1>5. IsFiniteSet(UNION T)
  BY <1>3, <1>4, FS_UNION, Zenon
<1> QED
  BY <1>5, FS_CardinalityType DEF UnitsOf, BytesOf

\* One request more adds its bytes.
LEMMA OneMoreBytes ==
    ASSUME NEW S \in SUBSET Requests, NEW r \in Requests, r \notin S
    PROVE  BytesOf(S \cup {r}) = BytesOf(S) + Bytes[r]
<1> DEFINE R == {r} \X (1..Bytes[r])
<1>1. UnitsOf(S \cup {r}) = UnitsOf(S) \cup R /\ UnitsOf(S) \cap R = {}
  BY DEF UnitsOf
<1>2. IsFiniteSet(R) /\ Cardinality(R) = Bytes[r]
  <2>1. Bytes[r] \in Nat
    BY AdmissionAssumption
  <2>2. IsFiniteSet(1..Bytes[r]) /\ Cardinality(1..Bytes[r]) = Bytes[r]
    <3>1. PICK n \in Nat : n = Bytes[r]
      BY <2>1
    <3>2. n \in Int /\ 1 \in Int
      BY <3>1
    <3>3. IsFiniteSet(1..n) /\ Cardinality(1..n) = IF 1 > n THEN 0 ELSE n - 1 + 1
      BY <3>2, FS_Interval, Zenon
    <3>4. (IF 1 > n THEN 0 ELSE n - 1 + 1) = n
      BY <3>1
    <3> QED
      BY <3>1, <3>3, <3>4, Zenon
  <2>3. IsFiniteSet({r}) /\ Cardinality({r}) = 1
    BY FS_Singleton, Zenon
  <2>4. IsFiniteSet(R) /\ Cardinality(R) = Cardinality({r}) * Cardinality(1..Bytes[r])
    BY <2>2, <2>3, FS_Product, Zenon
  <2>5. Cardinality(R) = 1 * Bytes[r]
    BY <2>2, <2>3, <2>4
  <2> QED
    BY <2>1, <2>4, <2>5
<1>3. IsFiniteSet(UnitsOf(S)) /\ Cardinality(UnitsOf(S)) \in Nat
  BY FiniteUnits DEF BytesOf
<1>4. Cardinality(UnitsOf(S) \cup R) = Cardinality(UnitsOf(S)) + Cardinality(R) - 0
  BY <1>1, <1>2, <1>3, FS_Union, FS_EmptySet
<1> HIDE DEF R
<1>5. Cardinality(UnitsOf(S \cup {r})) = Cardinality(UnitsOf(S)) + Bytes[r] - 0
  BY <1>1, <1>2, <1>4, Zenon
<1> QED
  BY <1>3, <1>5, AdmissionAssumption DEF BytesOf

\* One request less takes its bytes away.
LEMMA OneLessBytes ==
    ASSUME NEW S \in SUBSET Requests, NEW r \in S
    PROVE  BytesOf(S \ {r}) = BytesOf(S) - Bytes[r]
<1>1. PICK T \in SUBSET Requests : T = S \ {r}
  BY Zenon
<1>2. T \cup {r} = S /\ BytesOf(T \cup {r}) = BytesOf(T) + Bytes[r]
  BY <1>1, OneMoreBytes
<1>3. BytesOf(S) \in Nat /\ BytesOf(S \ {r}) \in Nat /\ Bytes[r] \in Nat
  BY FiniteUnits, AdmissionAssumption
<1> QED
  BY <1>1, <1>2, <1>3

\* The requests of S have no more bytes than those of T, when every request of S
\* that has any is in T.
LEMMA FewerBytes ==
    ASSUME NEW S \in SUBSET Requests, NEW T \in SUBSET Requests,
           \A r \in S : Bytes[r] > 0 => r \in T
    PROVE  BytesOf(S) <= BytesOf(T)
<1>1. UnitsOf(S) \subseteq UnitsOf(T)
  BY AdmissionAssumption DEF UnitsOf
<1> QED
  BY <1>1, FiniteUnits, FS_Subset DEF BytesOf

\* A goroutine that stays on one side of both sets changes no sum.
LEMMA BytesUntouched ==
    ASSUME BInv, Charged' = Charged, Accepted' = Accepted, queuedBytes' = queuedBytes
    PROVE  BInv'
BY DEF BInv, BytesAccounted, AcceptedBytesBounded, BytesOf, UnitsOf

\* queuedBytes follows the requests that have charged, and a request is accepted
\* only when the total it saw, its own bytes included, is within MaxBytes.
LEMMA NextBInv == IInv /\ BInv /\ [Next]_vars => BInv'
<1> SUFFICES ASSUME IInv, BInv, [Next]_vars PROVE BInv'
  OBVIOUS
<1> USE AdmissionAssumption DEF Labels
<1> DEFINE Charging == {"refund", "count", "wait", "uncount", "discharge"}
           Accepting == {"count", "wait", "uncount", "discharge"}
<1>a. /\ Charged = {q \in At(Charging) : Bytes[q] > 0} /\ Accepted = At(Accepting)
      /\ Charged' = {q \in At(Charging)' : Bytes[q] > 0} /\ Accepted' = At(Accepting)'
      /\ At(Charging) \subseteq Requests /\ At(Accepting) \subseteq Requests
      /\ At(Charging)' \subseteq Requests /\ At(Accepting)' \subseteq Requests
  BY DEF Charged, Accepted, At
<1>b. /\ BytesOf(Charged) \in Nat /\ BytesOf(Accepted) \in Nat
      /\ BytesOf(Charged') \in Nat /\ BytesOf(Accepted') \in Nat
  BY <1>a, FiniteUnits
<1>c. BytesOf(Charged)' = BytesOf(Charged') /\ BytesOf(Accepted)' = BytesOf(Accepted')
  BY DEF BytesOf, UnitsOf
<1>1. ASSUME NEW r \in Requests, NEW from \in Labels, NEW to \in Labels, Goto(r, from, to),
             from \in Charging <=> to \in Charging, from \in Accepting <=> to \in Accepting,
             queuedBytes' = queuedBytes
      PROVE  BInv'
  <2>1. At(Charging)' = At(Charging) /\ At(Accepting)' = At(Accepting)
    BY <1>1, Move DEF IInv
  <2> QED
    BY <1>1, <1>a, <2>1, BytesUntouched
<1>2. ASSUME NEW r \in Requests, TryAdmission(r) PROVE BInv'
  BY <1>2, <1>1 DEF TryAdmission
<1>3. ASSUME NEW r \in Requests, Enqueue(r) PROVE BInv'
  <2>1. CASE Goto(r, "enqueue", "charge") \/ Goto(r, "enqueue", "failed")
    BY <1>3, <2>1, <1>1 DEF Enqueue
  <2>2. CASE Goto(r, "enqueue", "count") /\ Bytes[r] = 0
    <3>1. At(Charging)' = At(Charging) \cup {r} /\ At(Accepting)' = At(Accepting) \cup {r}
          /\ r \notin At(Accepting)
      BY <2>2, Move DEF IInv
    <3>2. Charged' = Charged /\ Accepted' = Accepted \cup {r} /\ r \notin Accepted
      BY <3>1, <2>2, <1>a
    <3>3. BytesOf(Accepted') = BytesOf(Accepted) + 0
      BY <3>2, <2>2, <1>a, OneMoreBytes
    <3> QED
      BY <1>3, <1>b, <1>c, <3>2, <3>3 DEF Enqueue, BInv, BytesAccounted, AcceptedBytesBounded
  <2>3. Bytes[r] > 0 \/ Bytes[r] = 0
    OBVIOUS
  <2> QED
    BY <1>3, <2>1, <2>2, <2>3 DEF Enqueue
<1>4. ASSUME NEW r \in Requests, Charge(r) PROVE BInv'
  <2>1. PICK to \in {"refund", "count"} :
           Goto(r, "charge", to) /\ (to = "count" => queuedBytes' <= MaxBytes)
    <3>1. queuedBytes' \in Int
      BY <1>4 DEF Charge, IInv, TypeOK
    <3> QED
      BY <1>4, <3>1 DEF Charge
  <2>2. At(Charging)' = At(Charging) \cup {r} /\ r \notin At(Charging)
    BY <2>1, Move DEF IInv
  <2>3. queuedBytes' = BytesOf(Charged')
    <3>1. CASE Bytes[r] = 0
      BY <1>4, <1>a, <1>b, <2>2, <3>1 DEF Charge, BInv, BytesAccounted
    <3>2. CASE Bytes[r] > 0
      <4>1. Charged' = Charged \cup {r} /\ r \notin Charged
        BY <1>a, <2>2, <3>2
      <4> QED
        BY <1>4, <1>a, <4>1, OneMoreBytes DEF Charge, BInv, BytesAccounted
    <3> QED
      BY <3>1, <3>2
  <2>4. BytesOf(Accepted') <= MaxBytes
    <3>1. CASE to = "refund"
      <4>1. At(Accepting)' = At(Accepting)
        BY <2>1, <3>1, Move DEF IInv
      <4> QED
        BY <4>1, <1>a DEF BInv, AcceptedBytesBounded
    <3>2. CASE to = "count"
      <4>1. At(Accepting) \subseteq At(Charging) /\ At(Accepting)' \subseteq At(Charging)'
        BY DEF At
      <4>2. BytesOf(Accepted') <= BytesOf(Charged')
        BY <4>1, <1>a, FewerBytes
      <4> QED
        BY <4>2, <1>b, <2>1, <2>3, <3>2
    <3> QED
      BY <3>1, <3>2
  <2> QED
    BY <2>3, <2>4, <1>c DEF BInv, BytesAccounted, AcceptedBytesBounded
<1>5. ASSUME NEW r \in Requests, Refund(r) \/ Discharge(r) PROVE BInv'
  <2>1. PICK from \in {"refund", "discharge"} : Goto(r, from, "leave")
    BY <1>5 DEF Refund, Discharge
  <2>2. At(Charging)' = At(Charging) \ {r} /\ r \in At(Charging)
    BY <2>1, Move DEF IInv
  <2>3. queuedBytes' = queuedBytes - Bytes[r]
    BY <1>5 DEF Refund, Discharge
  <2>4. queuedBytes' = BytesOf(Charged')
    <3>1. CASE Bytes[r] = 0
      <4>1. Charged' = Charged
        BY <1>a, <2>2, <3>1
      <4> QED
        BY <1>b, <2>3, <3>1, <4>1 DEF BInv, BytesAccounted
    <3>2. CASE Bytes[r] > 0
      <4>1. Charged' = Charged \ {r} /\ r \in Charged
        BY <1>a, <2>2, <3>2
      <4> QED
        BY <1>a, <2>3, <4>1, OneLessBytes DEF BInv, BytesAccounted
    <3> QED
      BY <3>1, <3>2
  <2>5. At(Accepting)' \subseteq At(Accepting)
    BY <2>1, Move DEF IInv
  <2>6. BytesOf(Accepted') <= BytesOf(Accepted)
    BY <2>5, <1>a, FewerBytes
  <2> QED
    BY <2>4, <2>6, <1>b, <1>c DEF BInv, BytesAccounted, AcceptedBytesBounded
<1>6. ASSUME NEW r \in Requests, Count(r) \/ Expire(r) \/ Uncount(r) PROVE BInv'
  BY <1>6, <1>1 DEF Count, Expire, Uncount
<1>7. ASSUME NEW r \in Requests, Grant(r) \/ LeaveQueue(r) PROVE BInv'
  BY <1>7, <1>1 DEF Grant, LeaveQueue
<1>8. ASSUME NEW r \in Requests, Release(r) \/ Answer(r) PROVE BInv'
  BY <1>8, <1>1 DEF Release, Answer
<1>9. CASE UNCHANGED vars
  BY <1>9, BytesUntouched DEF vars, Charged, Accepted, At
<1> QED
  BY <1>2, <1>3, <1>4, <1>5, <1>6, <1>7, <1>8, <1>9 DEF Next, Step

\* The byte counter and the byte limit hold in every reachable state.
THEOREM SpecBInv == Spec => []BInv
<1>1. Init => BInv
  <2>1. Init => Charged = {} /\ Accepted = {}
    BY DEF Init, Charged, Accepted, At
  <2>2. BytesOf({}) = 0
    BY FS_EmptySet DEF BytesOf, UnitsOf
  <2> QED
    BY <2>1, <2>2, AdmissionAssumption DEF Init, BInv, BytesAccounted, AcceptedBytesBounded
<1> QED
  BY <1>1, SpecIInv, NextBInv, PTL DEF Spec

\* For any requests and sizes, queuedBytes is exactly what the queued requests have
\* charged: each path out of acquire takes back what it added (gateway.go:366-385).
THEOREM BytesAccountedHolds == Spec => []BytesAccounted
BY SpecBInv, PTL DEF BInv

\* For any requests and sizes, the requests accepted as waiters never have more than
\* max_queued_bytes together, whatever transient overshoots the counter shows.
THEOREM AcceptedBytesBoundedHolds == Spec => []AcceptedBytesBounded
BY SpecBInv, PTL DEF BInv
-----------------------------------------------------------------------------
\* The abstract pool counts with the same cardinality.
LEMMA SameCardinality == ASSUME NEW S PROVE Pool!Cardinality(S) = Cardinality(S)
BY DEF Pool!Cardinality, Cardinality

\* Every step of acquire is a step of the abstract pool or leaves it alone.
LEMMA StepRefines == IInv /\ [Next]_vars => [Pool!PoolNext]_(Pool!poolVars)
<1> SUFFICES ASSUME IInv, [Next]_vars
             PROVE  Pool!PoolNext \/ UNCHANGED <<granted, Queued>>
  BY DEF Pool!poolVars
<1> USE AdmissionAssumption DEF Labels
<1>1. ASSUME NEW r \in Requests, TryAdmission(r)
      PROVE  Pool!PoolNext \/ UNCHANGED <<granted, Queued>>
  <2>1. CASE Goto(r, "idle", "held") /\ SendAdmission(r)
    <3>1. r \notin granted \cup Queued
      BY <2>1 DEF IInv, LeasesBacked, At, Goto, Queued
    <3>2. Queued' = Queued
      BY <2>1, Move DEF IInv, Queued
    <3>3. Cardinality(granted) < MaxUpstream /\ granted' = granted \cup {r}
      BY <2>1 DEF SendAdmission, IInv, LeasesBacked
    <3>4. Pool!Lease(r)
      BY <3>1, <3>2, <3>3, SameCardinality DEF Pool!Lease
    <3> QED
      BY <3>4 DEF Pool!PoolNext
  <2>2. ASSUME NEW to \in {"failed", "enqueue"}, Goto(r, "idle", to),
               UNCHANGED <<granted, admission>>
        PROVE  UNCHANGED <<granted, Queued>>
    BY <2>2, Move DEF IInv, Queued
  <2> QED
    BY <1>1, <2>1, <2>2 DEF TryAdmission
<1>2. ASSUME NEW r \in Requests, Enqueue(r)
      PROVE  Pool!PoolNext \/ UNCHANGED <<granted, Queued>>
  <2>1. ASSUME NEW to \in {"charge", "count"}, Goto(r, "enqueue", to), queue < MaxQueued
        PROVE  Pool!PoolNext
    <3>1. Queued' = Queued \cup {r} /\ r \notin Queued
      BY <2>1, Move DEF IInv, Queued
    <3>2. r \notin granted
      BY <2>1 DEF IInv, LeasesBacked, At, Goto
    <3>3. Cardinality(Queued) < MaxQueued /\ granted' = granted
      BY <1>2, <2>1 DEF Enqueue, IInv, QueueExact
    <3>4. Pool!Join(r)
      BY <3>1, <3>2, <3>3, SameCardinality DEF Pool!Join
    <3> QED
      BY <3>4 DEF Pool!PoolNext
  <2>2. CASE Goto(r, "enqueue", "failed")
    BY <1>2, <2>2, Move DEF Enqueue, IInv, Queued
  <2> QED
    BY <1>2, <2>1, <2>2 DEF Enqueue
<1>3. ASSUME NEW r \in Requests,
             NEW from \in {"charge", "refund", "count", "wait", "uncount", "discharge"},
             NEW to \in {"refund", "count", "wait", "uncount", "discharge", "leave"},
             Goto(r, from, to), UNCHANGED granted
      PROVE  UNCHANGED <<granted, Queued>>
  BY <1>3, Move DEF IInv, Queued
<1>4. ASSUME NEW r \in Requests, Charge(r) \/ Refund(r) \/ Count(r) \/ Expire(r)
                                    \/ Uncount(r) \/ Discharge(r)
      PROVE  UNCHANGED <<granted, Queued>>
  BY <1>3, <1>4 DEF Charge, Refund, Count, Expire, Uncount, Discharge
<1>5. ASSUME NEW r \in Requests, Grant(r) PROVE Pool!PoolNext
  <2>1. r \in Queued \ granted
    BY <1>5 DEF Grant, Goto, IInv, LeasesBacked, Queued, At
  <2>2. Queued' = Queued
    BY <1>5, Move DEF Grant, IInv, Queued
  <2>3. Cardinality(granted) < MaxUpstream /\ granted' = granted \cup {r}
    BY <1>5 DEF Grant, SendAdmission, IInv, LeasesBacked
  <2>4. Pool!Serve(r)
    BY <2>1, <2>2, <2>3, SameCardinality DEF Pool!Serve
  <2> QED
    BY <2>4 DEF Pool!PoolNext
<1>6. ASSUME NEW r \in Requests, LeaveQueue(r) PROVE Pool!PoolNext
  <2>1. PICK to \in {"held", "failed"} : Goto(r, "leave", to)
    BY <1>6 DEF LeaveQueue
  <2>2. r \in Queued /\ Queued' = Queued \ {r}
    BY <2>1, Move DEF IInv, Queued
  <2>3. Pool!Quit(r)
    BY <1>6, <2>2 DEF Pool!Quit, LeaveQueue
  <2> QED
    BY <2>3 DEF Pool!PoolNext
<1>7. ASSUME NEW r \in Requests, Release(r) PROVE Pool!PoolNext
  <2>1. r \in granted \ Queued
    BY <1>7 DEF Release, Goto, IInv, LeasesBacked, Queued, At
  <2>2. Queued' = Queued
    BY <1>7, Move DEF Release, IInv, Queued
  <2>3. Pool!Return(r)
    BY <1>7, <2>1, <2>2 DEF Pool!Return, Release
  <2> QED
    BY <2>3 DEF Pool!PoolNext
<1>8. ASSUME NEW r \in Requests, Answer(r) PROVE UNCHANGED <<granted, Queued>>
  BY <1>8, Move DEF Answer, IInv, Queued
<1>9. CASE UNCHANGED vars
  BY <1>9 DEF vars, Queued, At
<1> QED
  BY <1>1, <1>2, <1>4, <1>5, <1>6, <1>7, <1>8, <1>9 DEF Next, Step

\* acquire and release (gateway.go:350-387) implement the abstract pool: no
\* interleaving hands out more leases or admits more waiters than configured.
THEOREM AcquireImplementsLeasePool == Spec => ImplementsLeasePool
<1>1. Init => Pool!PoolInit
  BY DEF Init, Pool!PoolInit, Queued, At
<1> QED
  BY <1>1, SpecIInv, StepRefines, PTL
     DEF Spec, ImplementsLeasePool, Pool!PoolSpec
=============================================================================
