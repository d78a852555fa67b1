--------------------------- MODULE ServicesProofs ---------------------------
(***************************************************************************)
(* Theorems about the two MySQL services for any finite number of          *)
(* connections and any capacity.  Listener: the counters of Serve are      *)
(* exact, no open connection escapes closeActive, and Serve returns only   *)
(* when nothing is left behind.  Relay: its counters are exact, it opens   *)
(* no more upstream connections than it has slots, and a Shutdown that     *)
(* returns before its deadline leaves nothing open.                        *)
(***************************************************************************)
EXTENDS Services, FiniteSetTheorems, TLAPS

\* The accept loop disposes of one connection at a time.
InLoop == {"select", "register", "spawn"}
OneInLoop ==
    /\ \A c \in Conns : pc[c] \in InLoop => loop = pc[c]
    /\ \A c, d \in Conns : pc[c] \in InLoop /\ pc[d] \in InLoop => c = d

\* A connection is registered from AddConnection to RemoveConnection, and a
\* connection that no goroutine will close any more is closed.
Registered == connections = At({"spawn", "handle", "close", "remove"})
Sockets ==
    /\ \A c \in Conns : pc[c] = "new" => sock[c] = "new"
    /\ \A c \in Conns : pc[c] \in {"refused", "remove", "count", "token", "waitDone", "done"} => sock[c] = "closed"

\* Serve has closed the listener before it waits, and waited before it returns.
Unwound ==
    /\ loop \in {"sweep", "wait", "returned"} => listener = "closed"
    /\ loop = "returned" => Waited = {}

ListenerInv == ListenerTypes /\ CountersExact /\ OneInLoop /\ Registered /\ Sockets /\ Unwound

\* Adding an element raises a finite cardinality by one.
LEMMA OneMore ==
    ASSUME NEW S, NEW T, NEW x, IsFiniteSet(S), x \notin S, T = S \cup {x}
    PROVE  Cardinality(T) = Cardinality(S) + 1
BY FS_AddElement

\* Removing an element lowers it by one.
LEMMA OneLess ==
    ASSUME NEW S, NEW T, NEW x, IsFiniteSet(S), x \in S, T = S \ {x}
    PROVE  Cardinality(T) = Cardinality(S) - 1 /\ Cardinality(S) > 0
BY FS_RemoveElement, FS_CardinalityType, FS_EmptySet

\* The sets of connections that the counters are compared with are finite.
LEMMA Finite ==
    ASSUME NEW S \in SUBSET Conns
    PROVE  IsFiniteSet(S) /\ Cardinality(S) \in Nat /\ (Cardinality(S) = 0 => S = {})
BY ListenerAssumption, FS_Subset, FS_CardinalityType, FS_EmptySet

\* Serve starts with no connection.
LEMMA InitListenerInv == ListenerInit => ListenerInv
<1> SUFFICES ASSUME ListenerInit PROVE ListenerInv
  OBVIOUS
<1>1. Tokened = {} /\ Active = {} /\ Waited = {} /\ At({"spawn", "handle", "close", "remove"}) = {}
  BY DEF ListenerInit, Tokened, Active, Waited, At
<1>2. Cardinality({}) = 0
  BY FS_EmptySet
<1> QED
  BY <1>1, <1>2, ListenerAssumption
     DEF ListenerInit, ListenerInv, ListenerTypes, CountersExact, OneInLoop, InLoop, Registered, Sockets, Unwound

\* Each step keeps it: one step per action, and under it the counts that follow
\* their sets, and the rest.
LEMMA NextListenerInv == ListenerInv /\ [ListenerNext]_listenerVars => ListenerInv'
<1> SUFFICES ASSUME ListenerInv, [ListenerNext]_listenerVars PROVE ListenerInv'
  OBVIOUS
<1> USE ListenerAssumption DEF serve, counts
<1>0. /\ IsFiniteSet(Tokened) /\ Cardinality(Tokened) \in Nat
      /\ IsFiniteSet(Active) /\ Cardinality(Active) \in Nat
      /\ IsFiniteSet(Waited) /\ Cardinality(Waited) \in Nat /\ (Cardinality(Waited) = 0 => Waited = {})
  BY Finite DEF Tokened, Active, Waited, At
<1>1. CASE CancelParent
  <2>1. ListenerTypes'
    BY <1>1 DEF CancelParent, ListenerInv, ListenerTypes
  <2>2. Tokened' = Tokened /\ Active' = Active /\ Waited' = Waited /\ pc' = pc
    BY <1>1 DEF CancelParent, Tokened, Active, Waited, At
  <2>3. CountersExact'
    BY <1>1, <2>2 DEF CancelParent, ListenerInv, CountersExact
  <2>4. OneInLoop' /\ Registered'
    BY <1>1, <2>2 DEF CancelParent, ListenerInv, OneInLoop, InLoop, Registered, At
  <2>5. Sockets'
    BY <1>1, <2>2 DEF CancelParent, ListenerInv, ListenerTypes, Sockets, Registered, At
  <2>6. Unwound'
    BY <1>1, <2>2, <1>0 DEF CancelParent, ListenerInv, Unwound, CountersExact
  <2> QED
    BY <2>1, <2>3, <2>4, <2>5, <2>6 DEF ListenerInv
<1>2. CASE StopperWakes
  <2>1. ListenerTypes'
    BY <1>2 DEF StopperWakes, ListenerInv, ListenerTypes
  <2>2. Tokened' = Tokened /\ Active' = Active /\ Waited' = Waited /\ pc' = pc
    BY <1>2 DEF StopperWakes, Tokened, Active, Waited, At
  <2>3. CountersExact'
    BY <1>2, <2>2 DEF StopperWakes, ListenerInv, CountersExact
  <2>4. OneInLoop' /\ Registered'
    BY <1>2, <2>2 DEF StopperWakes, ListenerInv, OneInLoop, InLoop, Registered, At
  <2>5. Sockets'
    BY <1>2, <2>2 DEF StopperWakes, ListenerInv, ListenerTypes, Sockets, Registered, At
  <2>6. Unwound'
    BY <1>2, <2>2, <1>0 DEF StopperWakes, ListenerInv, Unwound, CountersExact
  <2> QED
    BY <2>1, <2>3, <2>4, <2>5, <2>6 DEF ListenerInv
<1>3. CASE StopperSweeps
  <2>1. ListenerTypes'
    BY <1>3 DEF StopperSweeps, CloseActive, ListenerInv, ListenerTypes
  <2>2. Tokened' = Tokened /\ Active' = Active /\ Waited' = Waited /\ pc' = pc
    BY <1>3 DEF StopperSweeps, CloseActive, Tokened, Active, Waited, At
  <2>3. CountersExact'
    BY <1>3, <2>2 DEF StopperSweeps, CloseActive, ListenerInv, CountersExact
  <2>4. OneInLoop' /\ Registered'
    BY <1>3, <2>2 DEF StopperSweeps, CloseActive, ListenerInv, OneInLoop, InLoop, Registered, At
  <2>5. Sockets'
    BY <1>3, <2>2 DEF StopperSweeps, CloseActive, ListenerInv, ListenerTypes, Sockets, Registered, At
  <2>6. Unwound'
    BY <1>3, <2>2, <1>0 DEF StopperSweeps, CloseActive, ListenerInv, Unwound, CountersExact
  <2> QED
    BY <2>1, <2>3, <2>4, <2>5, <2>6 DEF ListenerInv
<1>4. CASE StopperExits
  <2>1. ListenerTypes'
    BY <1>4 DEF StopperExits, ListenerInv, ListenerTypes
  <2>2. Tokened' = Tokened /\ Active' = Active /\ Waited' = Waited /\ pc' = pc
    BY <1>4 DEF StopperExits, Tokened, Active, Waited, At
  <2>3. CountersExact'
    BY <1>4, <2>2 DEF StopperExits, ListenerInv, CountersExact
  <2>4. OneInLoop' /\ Registered'
    BY <1>4, <2>2 DEF StopperExits, ListenerInv, OneInLoop, InLoop, Registered, At
  <2>5. Sockets'
    BY <1>4, <2>2 DEF StopperExits, ListenerInv, ListenerTypes, Sockets, Registered, At
  <2>6. Unwound'
    BY <1>4, <2>2, <1>0 DEF StopperExits, ListenerInv, Unwound, CountersExact
  <2> QED
    BY <2>1, <2>3, <2>4, <2>5, <2>6 DEF ListenerInv
<1>5. CASE AcceptFails
  <2>1. ListenerTypes'
    BY <1>5 DEF AcceptFails, LoopGoto, ListenerInv, ListenerTypes
  <2>2. Tokened' = Tokened /\ Active' = Active /\ Waited' = Waited /\ pc' = pc
    BY <1>5 DEF AcceptFails, LoopGoto, Tokened, Active, Waited, At
  <2>3. CountersExact'
    BY <1>5, <2>2 DEF AcceptFails, LoopGoto, ListenerInv, CountersExact
  <2>4. OneInLoop' /\ Registered'
    BY <1>5, <2>2 DEF AcceptFails, LoopGoto, ListenerInv, OneInLoop, InLoop, Registered, At
  <2>5. Sockets'
    BY <1>5, <2>2 DEF AcceptFails, LoopGoto, ListenerInv, ListenerTypes, Sockets, Registered, At
  <2>6. Unwound'
    BY <1>5, <2>2, <1>0 DEF AcceptFails, LoopGoto, ListenerInv, Unwound, CountersExact
  <2> QED
    BY <2>1, <2>3, <2>4, <2>5, <2>6 DEF ListenerInv
<1>6. CASE Backoff
  <2>1. ListenerTypes'
    BY <1>6 DEF Backoff, LoopGoto, ListenerInv, ListenerTypes
  <2>2. Tokened' = Tokened /\ Active' = Active /\ Waited' = Waited /\ pc' = pc
    BY <1>6 DEF Backoff, LoopGoto, Tokened, Active, Waited, At
  <2>3. CountersExact'
    BY <1>6, <2>2 DEF Backoff, LoopGoto, ListenerInv, CountersExact
  <2>4. OneInLoop' /\ Registered'
    BY <1>6, <2>2 DEF Backoff, LoopGoto, ListenerInv, OneInLoop, InLoop, Registered, At
  <2>5. Sockets'
    BY <1>6, <2>2 DEF Backoff, LoopGoto, ListenerInv, ListenerTypes, Sockets, Registered, At
  <2>6. Unwound'
    BY <1>6, <2>2, <1>0 DEF Backoff, LoopGoto, ListenerInv, Unwound, CountersExact
  <2> QED
    BY <2>1, <2>3, <2>4, <2>5, <2>6 DEF ListenerInv
<1>7. CASE Unwind
  <2>1. ListenerTypes'
    BY <1>7 DEF Unwind, LoopGoto, ListenerInv, ListenerTypes
  <2>2. Tokened' = Tokened /\ Active' = Active /\ Waited' = Waited /\ pc' = pc
    BY <1>7 DEF Unwind, LoopGoto, Tokened, Active, Waited, At
  <2>3. CountersExact'
    BY <1>7, <2>2 DEF Unwind, LoopGoto, ListenerInv, CountersExact
  <2>4. OneInLoop' /\ Registered'
    BY <1>7, <2>2 DEF Unwind, LoopGoto, ListenerInv, OneInLoop, InLoop, Registered, At
  <2>5. Sockets'
    BY <1>7, <2>2 DEF Unwind, LoopGoto, ListenerInv, ListenerTypes, Sockets, Registered, At
  <2>6. Unwound'
    BY <1>7, <2>2, <1>0 DEF Unwind, LoopGoto, ListenerInv, Unwound, CountersExact
  <2> QED
    BY <2>1, <2>3, <2>4, <2>5, <2>6 DEF ListenerInv
<1>8. CASE ServeSweeps
  <2>1. ListenerTypes'
    BY <1>8 DEF ServeSweeps, CloseActive, LoopGoto, ListenerInv, ListenerTypes
  <2>2. Tokened' = Tokened /\ Active' = Active /\ Waited' = Waited /\ pc' = pc
    BY <1>8 DEF ServeSweeps, CloseActive, LoopGoto, Tokened, Active, Waited, At
  <2>3. CountersExact'
    BY <1>8, <2>2 DEF ServeSweeps, CloseActive, LoopGoto, ListenerInv, CountersExact
  <2>4. OneInLoop' /\ Registered'
    BY <1>8, <2>2 DEF ServeSweeps, CloseActive, LoopGoto, ListenerInv, OneInLoop, InLoop, Registered, At
  <2>5. Sockets'
    BY <1>8, <2>2 DEF ServeSweeps, CloseActive, LoopGoto, ListenerInv, ListenerTypes, Sockets, Registered, At
  <2>6. Unwound'
    BY <1>8, <2>2, <1>0 DEF ServeSweeps, CloseActive, LoopGoto, ListenerInv, Unwound, CountersExact
  <2> QED
    BY <2>1, <2>3, <2>4, <2>5, <2>6 DEF ListenerInv
<1>9. CASE ServeReturns
  <2>1. ListenerTypes'
    BY <1>9 DEF ServeReturns, LoopGoto, ListenerInv, ListenerTypes
  <2>2. Tokened' = Tokened /\ Active' = Active /\ Waited' = Waited /\ pc' = pc
    BY <1>9 DEF ServeReturns, LoopGoto, Tokened, Active, Waited, At
  <2>3. CountersExact'
    BY <1>9, <2>2, Zenon DEF ServeReturns, LoopGoto, ListenerInv, CountersExact
  <2>4. OneInLoop' /\ Registered'
    BY <1>9, <2>2 DEF ServeReturns, LoopGoto, ListenerInv, OneInLoop, InLoop, Registered, At
  <2>5. Sockets'
    BY <1>9, <2>2 DEF ServeReturns, LoopGoto, ListenerInv, ListenerTypes, Sockets, Registered, At
  <2>6. Unwound'
    BY <1>9, <2>2, <1>0 DEF ServeReturns, LoopGoto, ListenerInv, Unwound, CountersExact
  <2> QED
    BY <2>1, <2>3, <2>4, <2>5, <2>6 DEF ListenerInv
<1>10. ASSUME NEW c \in Conns, Accept(c) PROVE ListenerInv'
  <2>1. /\ Tokened' = Tokened
        /\ Active' = Active
        /\ Waited' = Waited
    BY <1>10 DEF Accept, ConnGoto, LoopGoto, ListenerInv, ListenerTypes, Tokened, Active, Waited, At
  <2>2. /\ Cardinality(Tokened') = Cardinality(Tokened)
        /\ Cardinality(Active') = Cardinality(Active)
        /\ Cardinality(Waited') = Cardinality(Waited)
    BY <1>0, <2>1, OneMore, OneLess
  <2>3. CountersExact' /\ tokens' \in Nat /\ active' \in Nat /\ wait' \in Nat
    BY <1>10, <1>0, <2>2 DEF Accept, ListenerInv, ListenerTypes, CountersExact
  <2>4. ListenerTypes'
    BY <1>10, <2>3 DEF Accept, ConnGoto, LoopGoto, ListenerInv, ListenerTypes
  <2>5. OneInLoop'
    BY <1>10 DEF Accept, ConnGoto, LoopGoto, ListenerInv, ListenerTypes, OneInLoop, InLoop
  <2>6. Registered'
    BY <1>10 DEF Accept, ConnGoto, LoopGoto, ListenerInv, ListenerTypes, Registered, At
  <2>7. Sockets'
    BY <1>10 DEF Accept, ConnGoto, LoopGoto, ListenerInv, ListenerTypes, Sockets
  <2>8. Unwound'
    BY <1>10, <2>1 DEF Accept, ConnGoto, LoopGoto, ListenerInv, Unwound
  <2> QED
    BY <2>3, <2>4, <2>5, <2>6, <2>7, <2>8 DEF ListenerInv
<1>11. ASSUME NEW c \in Conns, TakeToken(c) PROVE ListenerInv'
  <2>1. /\ Tokened' = Tokened \cup {c} /\ c \notin Tokened
        /\ Active' = Active
        /\ Waited' = Waited
    BY <1>11 DEF TakeToken, ConnGoto, LoopGoto, ListenerInv, ListenerTypes, Tokened, Active, Waited, At
  <2>2. /\ Cardinality(Tokened') = Cardinality(Tokened) + 1
        /\ Cardinality(Active') = Cardinality(Active)
        /\ Cardinality(Waited') = Cardinality(Waited)
    BY <1>0, <2>1, OneMore, OneLess
  <2>3. CountersExact' /\ tokens' \in Nat /\ active' \in Nat /\ wait' \in Nat
    BY <1>11, <1>0, <2>2 DEF TakeToken, ListenerInv, ListenerTypes, CountersExact
  <2>4. ListenerTypes'
    BY <1>11, <2>3 DEF TakeToken, ConnGoto, LoopGoto, ListenerInv, ListenerTypes
  <2>5. OneInLoop'
    BY <1>11 DEF TakeToken, ConnGoto, LoopGoto, ListenerInv, ListenerTypes, OneInLoop, InLoop
  <2>6. Registered'
    BY <1>11 DEF TakeToken, ConnGoto, LoopGoto, ListenerInv, ListenerTypes, Registered, At
  <2>7. Sockets'
    BY <1>11 DEF TakeToken, ConnGoto, LoopGoto, ListenerInv, ListenerTypes, Sockets
  <2>8. Unwound'
    BY <1>11, <2>1 DEF TakeToken, ConnGoto, LoopGoto, ListenerInv, Unwound
  <2> QED
    BY <2>3, <2>4, <2>5, <2>6, <2>7, <2>8 DEF ListenerInv
<1>12. ASSUME NEW c \in Conns, RefuseConnection(c) PROVE ListenerInv'
  <2>1. /\ Tokened' = Tokened
        /\ Active' = Active
        /\ Waited' = Waited
    BY <1>12 DEF RefuseConnection, ConnGoto, LoopGoto, ListenerInv, ListenerTypes, Tokened, Active, Waited, At
  <2>2. /\ Cardinality(Tokened') = Cardinality(Tokened)
        /\ Cardinality(Active') = Cardinality(Active)
        /\ Cardinality(Waited') = Cardinality(Waited)
    BY <1>0, <2>1, OneMore, OneLess
  <2>3. CountersExact' /\ tokens' \in Nat /\ active' \in Nat /\ wait' \in Nat
    BY <1>12, <1>0, <2>2 DEF RefuseConnection, ListenerInv, ListenerTypes, CountersExact
  <2>4. ListenerTypes'
    BY <1>12, <2>3 DEF RefuseConnection, ConnGoto, LoopGoto, ListenerInv, ListenerTypes
  <2>5. OneInLoop'
    BY <1>12 DEF RefuseConnection, ConnGoto, LoopGoto, ListenerInv, ListenerTypes, OneInLoop, InLoop
  <2>6. Registered'
    BY <1>12 DEF RefuseConnection, ConnGoto, LoopGoto, ListenerInv, ListenerTypes, Registered, At
  <2>7. Sockets'
    BY <1>12 DEF RefuseConnection, ConnGoto, LoopGoto, ListenerInv, ListenerTypes, Sockets
  <2>8. Unwound'
    BY <1>12, <2>1 DEF RefuseConnection, ConnGoto, LoopGoto, ListenerInv, Unwound
  <2> QED
    BY <2>3, <2>4, <2>5, <2>6, <2>7, <2>8 DEF ListenerInv
<1>13. ASSUME NEW c \in Conns, AddConnection(c) PROVE ListenerInv'
  <2>1. /\ Tokened' = Tokened
        /\ Active' = Active
        /\ Waited' = Waited
    BY <1>13 DEF AddConnection, ConnGoto, LoopGoto, ListenerInv, ListenerTypes, Tokened, Active, Waited, At
  <2>2. /\ Cardinality(Tokened') = Cardinality(Tokened)
        /\ Cardinality(Active') = Cardinality(Active)
        /\ Cardinality(Waited') = Cardinality(Waited)
    BY <1>0, <2>1, OneMore, OneLess
  <2>3. CountersExact' /\ tokens' \in Nat /\ active' \in Nat /\ wait' \in Nat
    BY <1>13, <1>0, <2>2 DEF AddConnection, ListenerInv, ListenerTypes, CountersExact
  <2>4. ListenerTypes'
    BY <1>13, <2>3 DEF AddConnection, ConnGoto, LoopGoto, ListenerInv, ListenerTypes
  <2>5. OneInLoop'
    BY <1>13 DEF AddConnection, ConnGoto, LoopGoto, ListenerInv, ListenerTypes, OneInLoop, InLoop
  <2>6. Registered'
    BY <1>13 DEF AddConnection, ConnGoto, LoopGoto, ListenerInv, ListenerTypes, Registered, At
  <2>7. Sockets'
    BY <1>13 DEF AddConnection, ConnGoto, LoopGoto, ListenerInv, ListenerTypes, Sockets
  <2>8. Unwound'
    BY <1>13, <2>1 DEF AddConnection, ConnGoto, LoopGoto, ListenerInv, Unwound
  <2> QED
    BY <2>3, <2>4, <2>5, <2>6, <2>7, <2>8 DEF ListenerInv
<1>14. ASSUME NEW c \in Conns, Spawn(c) PROVE ListenerInv'
  <2>1. /\ Tokened' = Tokened
        /\ Active' = Active \cup {c} /\ c \notin Active
        /\ Waited' = Waited \cup {c} /\ c \notin Waited
    BY <1>14 DEF Spawn, ConnGoto, LoopGoto, ListenerInv, ListenerTypes, Tokened, Active, Waited, At
  <2>2. /\ Cardinality(Tokened') = Cardinality(Tokened)
        /\ Cardinality(Active') = Cardinality(Active) + 1
        /\ Cardinality(Waited') = Cardinality(Waited) + 1
    BY <1>0, <2>1, OneMore, OneLess
  <2>3. CountersExact' /\ tokens' \in Nat /\ active' \in Nat /\ wait' \in Nat
    BY <1>14, <1>0, <2>2 DEF Spawn, ListenerInv, ListenerTypes, CountersExact
  <2>4. ListenerTypes'
    BY <1>14, <2>3 DEF Spawn, ConnGoto, LoopGoto, ListenerInv, ListenerTypes
  <2>5. OneInLoop'
    BY <1>14 DEF Spawn, ConnGoto, LoopGoto, ListenerInv, ListenerTypes, OneInLoop, InLoop
  <2>6. Registered'
    BY <1>14 DEF Spawn, ConnGoto, LoopGoto, ListenerInv, ListenerTypes, Registered, At
  <2>7. Sockets'
    BY <1>14 DEF Spawn, ConnGoto, LoopGoto, ListenerInv, ListenerTypes, Sockets
  <2>8. Unwound'
    BY <1>14, <2>1 DEF Spawn, ConnGoto, LoopGoto, ListenerInv, Unwound
  <2> QED
    BY <2>3, <2>4, <2>5, <2>6, <2>7, <2>8 DEF ListenerInv
<1>15. ASSUME NEW c \in Conns, HandleReturns(c) PROVE ListenerInv'
  <2>1. /\ Tokened' = Tokened
        /\ Active' = Active
        /\ Waited' = Waited
    BY <1>15 DEF HandleReturns, ConnGoto, ListenerInv, ListenerTypes, Tokened, Active, Waited, At
  <2>2. /\ Cardinality(Tokened') = Cardinality(Tokened)
        /\ Cardinality(Active') = Cardinality(Active)
        /\ Cardinality(Waited') = Cardinality(Waited)
    BY <1>0, <2>1, OneMore, OneLess
  <2>3. CountersExact' /\ tokens' \in Nat /\ active' \in Nat /\ wait' \in Nat
    BY <1>15, <1>0, <2>2 DEF HandleReturns, ListenerInv, ListenerTypes, CountersExact
  <2>4. ListenerTypes'
    BY <1>15, <2>3 DEF HandleReturns, ConnGoto, ListenerInv, ListenerTypes
  <2>5. OneInLoop'
    BY <1>15 DEF HandleReturns, ConnGoto, ListenerInv, ListenerTypes, OneInLoop, InLoop
  <2>6. Registered'
    BY <1>15 DEF HandleReturns, ConnGoto, ListenerInv, ListenerTypes, Registered, At
  <2>7. Sockets'
    BY <1>15 DEF HandleReturns, ConnGoto, ListenerInv, ListenerTypes, Sockets
  <2>8. Unwound'
    BY <1>15, <2>1 DEF HandleReturns, ConnGoto, ListenerInv, Unwound
  <2> QED
    BY <2>3, <2>4, <2>5, <2>6, <2>7, <2>8 DEF ListenerInv
<1>16. ASSUME NEW c \in Conns, CloseConnection(c) PROVE ListenerInv'
  <2>1. /\ Tokened' = Tokened
        /\ Active' = Active
        /\ Waited' = Waited
    BY <1>16 DEF CloseConnection, ConnGoto, ListenerInv, ListenerTypes, Tokened, Active, Waited, At
  <2>2. /\ Cardinality(Tokened') = Cardinality(Tokened)
        /\ Cardinality(Active') = Cardinality(Active)
        /\ Cardinality(Waited') = Cardinality(Waited)
    BY <1>0, <2>1, OneMore, OneLess
  <2>3. CountersExact' /\ tokens' \in Nat /\ active' \in Nat /\ wait' \in Nat
    BY <1>16, <1>0, <2>2 DEF CloseConnection, ListenerInv, ListenerTypes, CountersExact
  <2>4. ListenerTypes'
    BY <1>16, <2>3 DEF CloseConnection, ConnGoto, ListenerInv, ListenerTypes
  <2>5. OneInLoop'
    BY <1>16 DEF CloseConnection, ConnGoto, ListenerInv, ListenerTypes, OneInLoop, InLoop
  <2>6. Registered'
    BY <1>16 DEF CloseConnection, ConnGoto, ListenerInv, ListenerTypes, Registered, At
  <2>7. Sockets'
    BY <1>16 DEF CloseConnection, ConnGoto, ListenerInv, ListenerTypes, Sockets
  <2>8. Unwound'
    BY <1>16, <2>1 DEF CloseConnection, ConnGoto, ListenerInv, Unwound
  <2> QED
    BY <2>3, <2>4, <2>5, <2>6, <2>7, <2>8 DEF ListenerInv
<1>17. ASSUME NEW c \in Conns, RemoveConnection(c) PROVE ListenerInv'
  <2>1. /\ Tokened' = Tokened
        /\ Active' = Active
        /\ Waited' = Waited
    BY <1>17 DEF RemoveConnection, ConnGoto, ListenerInv, ListenerTypes, Tokened, Active, Waited, At
  <2>2. /\ Cardinality(Tokened') = Cardinality(Tokened)
        /\ Cardinality(Active') = Cardinality(Active)
        /\ Cardinality(Waited') = Cardinality(Waited)
    BY <1>0, <2>1, OneMore, OneLess
  <2>3. CountersExact' /\ tokens' \in Nat /\ active' \in Nat /\ wait' \in Nat
    BY <1>17, <1>0, <2>2 DEF RemoveConnection, ListenerInv, ListenerTypes, CountersExact
  <2>4. ListenerTypes'
    BY <1>17, <2>3 DEF RemoveConnection, ConnGoto, ListenerInv, ListenerTypes
  <2>5. OneInLoop'
    BY <1>17 DEF RemoveConnection, ConnGoto, ListenerInv, ListenerTypes, OneInLoop, InLoop
  <2>6. Registered'
    BY <1>17 DEF RemoveConnection, ConnGoto, ListenerInv, ListenerTypes, Registered, At
  <2>7. Sockets'
    BY <1>17 DEF RemoveConnection, ConnGoto, ListenerInv, ListenerTypes, Sockets
  <2>8. Unwound'
    BY <1>17, <2>1 DEF RemoveConnection, ConnGoto, ListenerInv, Unwound
  <2> QED
    BY <2>3, <2>4, <2>5, <2>6, <2>7, <2>8 DEF ListenerInv
<1>18. ASSUME NEW c \in Conns, Uncount(c) PROVE ListenerInv'
  <2>1. /\ Tokened' = Tokened
        /\ Active' = Active \ {c} /\ c \in Active
        /\ Waited' = Waited
    BY <1>18 DEF Uncount, ConnGoto, ListenerInv, ListenerTypes, Tokened, Active, Waited, At
  <2>2. /\ Cardinality(Tokened') = Cardinality(Tokened)
        /\ Cardinality(Active') = Cardinality(Active) - 1 /\ Cardinality(Active) > 0
        /\ Cardinality(Waited') = Cardinality(Waited)
    BY <1>0, <2>1, OneMore, OneLess
  <2>3. CountersExact' /\ tokens' \in Nat /\ active' \in Nat /\ wait' \in Nat
    BY <1>18, <1>0, <2>2 DEF Uncount, ListenerInv, ListenerTypes, CountersExact
  <2>4. ListenerTypes'
    BY <1>18, <2>3 DEF Uncount, ConnGoto, ListenerInv, ListenerTypes
  <2>5. OneInLoop'
    BY <1>18 DEF Uncount, ConnGoto, ListenerInv, ListenerTypes, OneInLoop, InLoop
  <2>6. Registered'
    BY <1>18 DEF Uncount, ConnGoto, ListenerInv, ListenerTypes, Registered, At
  <2>7. Sockets'
    BY <1>18 DEF Uncount, ConnGoto, ListenerInv, ListenerTypes, Sockets
  <2>8. Unwound'
    BY <1>18, <2>1 DEF Uncount, ConnGoto, ListenerInv, Unwound
  <2> QED
    BY <2>3, <2>4, <2>5, <2>6, <2>7, <2>8 DEF ListenerInv
<1>19. ASSUME NEW c \in Conns, ReturnToken(c) PROVE ListenerInv'
  <2>1. /\ Tokened' = Tokened \ {c} /\ c \in Tokened
        /\ Active' = Active
        /\ Waited' = Waited
    BY <1>19 DEF ReturnToken, ConnGoto, ListenerInv, ListenerTypes, Tokened, Active, Waited, At
  <2>2. /\ Cardinality(Tokened') = Cardinality(Tokened) - 1 /\ Cardinality(Tokened) > 0
        /\ Cardinality(Active') = Cardinality(Active)
        /\ Cardinality(Waited') = Cardinality(Waited)
    BY <1>0, <2>1, OneMore, OneLess
  <2>3. CountersExact' /\ tokens' \in Nat /\ active' \in Nat /\ wait' \in Nat
    BY <1>19, <1>0, <2>2 DEF ReturnToken, ListenerInv, ListenerTypes, CountersExact
  <2>4. ListenerTypes'
    BY <1>19, <2>3 DEF ReturnToken, ConnGoto, ListenerInv, ListenerTypes
  <2>5. OneInLoop'
    BY <1>19 DEF ReturnToken, ConnGoto, ListenerInv, ListenerTypes, OneInLoop, InLoop
  <2>6. Registered'
    BY <1>19 DEF ReturnToken, ConnGoto, ListenerInv, ListenerTypes, Registered, At
  <2>7. Sockets'
    BY <1>19 DEF ReturnToken, ConnGoto, ListenerInv, ListenerTypes, Sockets
  <2>8. Unwound'
    BY <1>19, <2>1 DEF ReturnToken, ConnGoto, ListenerInv, Unwound
  <2> QED
    BY <2>3, <2>4, <2>5, <2>6, <2>7, <2>8 DEF ListenerInv
<1>20. ASSUME NEW c \in Conns, WaitDone(c) PROVE ListenerInv'
  <2>1. /\ Tokened' = Tokened
        /\ Active' = Active
        /\ Waited' = Waited \ {c} /\ c \in Waited
    BY <1>20 DEF WaitDone, ConnGoto, ListenerInv, ListenerTypes, Tokened, Active, Waited, At
  <2>2. /\ Cardinality(Tokened') = Cardinality(Tokened)
        /\ Cardinality(Active') = Cardinality(Active)
        /\ Cardinality(Waited') = Cardinality(Waited) - 1 /\ Cardinality(Waited) > 0
    BY <1>0, <2>1, OneMore, OneLess
  <2>3. CountersExact' /\ tokens' \in Nat /\ active' \in Nat /\ wait' \in Nat
    BY <1>20, <1>0, <2>2 DEF WaitDone, ListenerInv, ListenerTypes, CountersExact
  <2>4. ListenerTypes'
    BY <1>20, <2>3 DEF WaitDone, ConnGoto, ListenerInv, ListenerTypes
  <2>5. OneInLoop'
    BY <1>20 DEF WaitDone, ConnGoto, ListenerInv, ListenerTypes, OneInLoop, InLoop
  <2>6. Registered'
    BY <1>20 DEF WaitDone, ConnGoto, ListenerInv, ListenerTypes, Registered, At
  <2>7. Sockets'
    BY <1>20 DEF WaitDone, ConnGoto, ListenerInv, ListenerTypes, Sockets
  <2>8. Unwound'
    BY <1>20, <2>1 DEF WaitDone, ConnGoto, ListenerInv, Unwound
  <2> QED
    BY <2>3, <2>4, <2>5, <2>6, <2>7, <2>8 DEF ListenerInv
<1>21. CASE UNCHANGED listenerVars
  BY <1>21 DEF listenerVars, ListenerInv, ListenerTypes, CountersExact, OneInLoop, Registered, Sockets, Unwound, Tokened, Active, Waited, At
<1> QED
  BY <1>1, <1>2, <1>3, <1>4, <1>5, <1>6, <1>7, <1>8, <1>9, <1>10, <1>11, <1>12, <1>13, <1>14, <1>15, <1>16, <1>17, <1>18, <1>19, <1>20, <1>21 DEF ListenerNext, Dispose, HandlerUnwinds, Finished

\* The goroutines of Serve are accounted for in every reachable state.
THEOREM SpecListenerInv == ListenerSpec => []ListenerInv
BY InitListenerInv, NextListenerInv, PTL DEF ListenerSpec

\* For any number of clients the tokens channel, the active gauge and the wait
\* group of Serve count exactly the handlers between their two ends.
THEOREM CountersExactHolds == ListenerSpec => []CountersExact
BY SpecListenerInv, PTL DEF ListenerInv

\* An open connection is registered or in the hands of the accept loop, so that
\* closeActive or the loop closes it (listener.go:133-158, 172-189).
THEOREM OpenIsReachableHolds == ListenerSpec => []OpenIsReachable
<1>1. ListenerInv => OpenIsReachable
  BY DEF ListenerInv, ListenerTypes, OpenIsReachable, OneInLoop, InLoop, Registered, Sockets, At
<1> QED
  BY <1>1, SpecListenerInv, PTL

\* When Serve has returned nothing of it is left: no handler, no registered or open
\* connection, no open listener.
THEOREM ReturnsCleanHolds == ListenerSpec => []ReturnsClean
<1>1. ListenerInv => ReturnsClean
  <2> SUFFICES ASSUME ListenerInv, loop = "returned" PROVE ReturnsClean
    BY DEF ReturnsClean
  <2>1. \A c \in Conns : pc[c] \in {"new", "refused", "done"}
    BY DEF ListenerInv, ListenerTypes, OneInLoop, InLoop, Unwound, Waited, At
  <2>2. Tokened = {} /\ Active = {} /\ connections = {}
    BY <2>1 DEF Tokened, Active, ListenerInv, Registered, At
  <2>3. tokens = 0 /\ active = 0
    BY <2>2, FS_EmptySet DEF ListenerInv, CountersExact
  <2>4. listener = "closed" /\ \A c \in Conns : sock[c] \in {"new", "closed"}
    BY <2>1 DEF ListenerInv, Sockets, Unwound
  <2> QED
    BY <2>1, <2>2, <2>3, <2>4 DEF ReturnsClean
<1> QED
  BY <1>1, SpecListenerInv, PTL

\* Together: Serve loses neither a connection nor a unit of its capacity.
THEOREM NothingEscapesHolds == ListenerSpec => []NothingEscapes
BY CountersExactHolds, OpenIsReachableHolds, ReturnsCleanHolds, PTL DEF NothingEscapes
-----------------------------------------------------------------------------
(* The relay.                                                              *)

\* The accept loop of the relay disposes of one connection at a time.
RelayInLoop == {"select", "accepted", "track", "spawn"}
OneInRelayLoop ==
    /\ \A c \in Clients : rpc[c] \in RelayInLoop => rloop = "busy"
    /\ \A c, d \in Clients : rpc[c] \in RelayInLoop /\ rpc[d] \in RelayInLoop => c = d

\* Server.conns holds the sockets between their track and untrack calls.
TrackedPlaces(side) == IF side = "client"
                       THEN {"spawn", "dial", "trackUpstream", "copy", "dropUpstream", "untrack"}
                       ELSE {"copy", "dropUpstream"}
RelayTracked == \A c \in Clients, side \in {"client", "upstream"} :
                   <<c, side>> \in rconns <=> rpc[c] \in TrackedPlaces(side)

\* An upstream socket is open only while handle relays on it; a client's socket
\* that no goroutine will close any more is not open.
RelaySockets ==
    /\ \A c \in Clients : R!Open(<<c, "upstream">>) => rpc[c] \in {"trackUpstream", "copy"}
    /\ \A c \in Clients : rpc[c] \in {"new", "rejected", "count", "sem", "wgDone", "done"} =>
          ~R!Open(<<c, "client">>)

\* stop has closed the listener by the time the loop is done or Shutdown waits, and
\* Shutdown returns before its deadline only after every handler.
RelayUnwound ==
    /\ rshutdown # "idle" \/ rloop = "done" => rlistener = "closed"
    /\ rshutdown \in {"nil", "error"} => rloop = "done" /\ R!Waited = {}

RelayCounts ==
    /\ rsem = Cardinality(R!Slotted) /\ rsem <= MaxRelayed
    /\ ractive = Cardinality(R!Active)
    /\ rwg = Cardinality(R!Waited)

RelayInv == RelayTypes /\ RelayCounts /\ OneInRelayLoop /\ RelayTracked /\ RelaySockets /\ RelayUnwound

\* The sets of clients that the relay's counters are compared with are finite.
LEMMA FiniteClients ==
    ASSUME NEW S \in SUBSET Clients
    PROVE  IsFiniteSet(S) /\ Cardinality(S) \in Nat /\ (Cardinality(S) = 0 => S = {})
BY ServicesAssumption, FS_Subset, FS_CardinalityType, FS_EmptySet

\* The relay starts with no client.
LEMMA InitRelayInv == R!Init => RelayInv
<1> SUFFICES ASSUME R!Init PROVE RelayInv
  OBVIOUS
<1>1. R!Slotted = {} /\ R!Active = {} /\ R!Waited = {}
  BY DEF R!Init, R!Slotted, R!Active, R!Waited, R!At, R!Relaying
<1>2. RelayTypes /\ RelayCounts
  BY <1>1, FS_EmptySet, ServicesAssumption DEF R!Init, RelayTypes, R!TypeOK, RelayCounts
<1>3. OneInRelayLoop /\ RelayTracked /\ RelaySockets /\ RelayUnwound
  BY DEF R!Init, OneInRelayLoop, RelayInLoop, RelayTracked, TrackedPlaces, RelaySockets, R!Open, R!Sockets, RelayUnwound
<1> QED BY <1>2, <1>3 DEF RelayInv

\* Each step of the relay keeps it.
LEMMA NextRelayInv == RelayInv /\ [R!Next]_relay => RelayInv'
<1> SUFFICES ASSUME RelayInv, [R!Next]_relay PROVE RelayInv'
  OBVIOUS
<1> USE ServicesAssumption DEF R!server, R!counts
<1>0. /\ IsFiniteSet(R!Slotted) /\ Cardinality(R!Slotted) \in Nat
      /\ IsFiniteSet(R!Active) /\ Cardinality(R!Active) \in Nat
      /\ IsFiniteSet(R!Waited) /\ Cardinality(R!Waited) \in Nat /\ (Cardinality(R!Waited) = 0 => R!Waited = {})
  BY FiniteClients DEF R!Slotted, R!Active, R!Waited, R!At
<1>1. CASE R!CancelContext
  <2>1. rpc' = rpc /\ R!Slotted' = R!Slotted /\ R!Active' = R!Active /\ R!Waited' = R!Waited
    BY <1>1 DEF R!CancelContext, R!Slotted, R!Active, R!Waited, R!At
  <2>2. RelayTypes' /\ RelayCounts'
    BY <1>1, <2>1 DEF R!CancelContext, RelayInv, RelayTypes, R!TypeOK, RelayCounts
  <2>3. OneInRelayLoop' /\ RelayTracked'
    BY <1>1, <2>1 DEF R!CancelContext, RelayInv, OneInRelayLoop, RelayInLoop, RelayTracked
  <2>4. RelaySockets'
    BY <1>1, <2>1 DEF R!CancelContext, RelayInv, RelayTypes, R!TypeOK, RelaySockets, R!Open, R!Sockets
  <2>5. RelayUnwound'
    BY <1>1, <1>0, <2>1 DEF R!CancelContext, RelayInv, RelayUnwound, RelayCounts, RelayTypes, R!TypeOK
  <2> QED BY <2>2, <2>3, <2>4, <2>5 DEF RelayInv
<1>2. CASE R!WatcherStops
  <2>1. rpc' = rpc /\ R!Slotted' = R!Slotted /\ R!Active' = R!Active /\ R!Waited' = R!Waited
    BY <1>2 DEF R!WatcherStops, R!Stop, R!Slotted, R!Active, R!Waited, R!At
  <2>2. RelayTypes' /\ RelayCounts'
    BY <1>2, <2>1 DEF R!WatcherStops, R!Stop, RelayInv, RelayTypes, R!TypeOK, RelayCounts
  <2>3. OneInRelayLoop' /\ RelayTracked'
    BY <1>2, <2>1 DEF R!WatcherStops, R!Stop, RelayInv, OneInRelayLoop, RelayInLoop, RelayTracked
  <2>4. RelaySockets'
    BY <1>2, <2>1 DEF R!WatcherStops, R!Stop, RelayInv, RelayTypes, R!TypeOK, RelaySockets, R!Open, R!Sockets
  <2>5. RelayUnwound'
    BY <1>2, <1>0, <2>1 DEF R!WatcherStops, R!Stop, RelayInv, RelayUnwound, RelayCounts, RelayTypes, R!TypeOK
  <2> QED BY <2>2, <2>3, <2>4, <2>5 DEF RelayInv
<1>3. CASE R!WatcherExits
  <2>1. rpc' = rpc /\ R!Slotted' = R!Slotted /\ R!Active' = R!Active /\ R!Waited' = R!Waited
    BY <1>3 DEF R!WatcherExits, R!Slotted, R!Active, R!Waited, R!At
  <2>2. RelayTypes' /\ RelayCounts'
    BY <1>3, <2>1 DEF R!WatcherExits, RelayInv, RelayTypes, R!TypeOK, RelayCounts
  <2>3. OneInRelayLoop' /\ RelayTracked'
    BY <1>3, <2>1 DEF R!WatcherExits, RelayInv, OneInRelayLoop, RelayInLoop, RelayTracked
  <2>4. RelaySockets'
    BY <1>3, <2>1 DEF R!WatcherExits, RelayInv, RelayTypes, R!TypeOK, RelaySockets, R!Open, R!Sockets
  <2>5. RelayUnwound'
    BY <1>3, <1>0, <2>1 DEF R!WatcherExits, RelayInv, RelayUnwound, RelayCounts, RelayTypes, R!TypeOK
  <2> QED BY <2>2, <2>3, <2>4, <2>5 DEF RelayInv
<1>4. CASE R!ShutdownStops
  <2>1. rpc' = rpc /\ R!Slotted' = R!Slotted /\ R!Active' = R!Active /\ R!Waited' = R!Waited
    BY <1>4 DEF R!ShutdownStops, R!Stop, R!Slotted, R!Active, R!Waited, R!At
  <2>2. RelayTypes' /\ RelayCounts'
    BY <1>4, <2>1 DEF R!ShutdownStops, R!Stop, RelayInv, RelayTypes, R!TypeOK, RelayCounts
  <2>3. OneInRelayLoop' /\ RelayTracked'
    BY <1>4, <2>1, Zenon DEF R!ShutdownStops, R!Stop, RelayInv, OneInRelayLoop, RelayInLoop, RelayTracked
  <2>4. RelaySockets'
    BY <1>4, <2>1 DEF R!ShutdownStops, R!Stop, RelayInv, RelayTypes, R!TypeOK, RelaySockets, R!Open, R!Sockets
  <2>5. RelayUnwound'
    BY <1>4, <1>0, <2>1 DEF R!ShutdownStops, R!Stop, RelayInv, RelayUnwound, RelayCounts, RelayTypes, R!TypeOK
  <2> QED BY <2>2, <2>3, <2>4, <2>5 DEF RelayInv
<1>5. CASE R!ShutdownReturns
  <2>1. rpc' = rpc /\ R!Slotted' = R!Slotted /\ R!Active' = R!Active /\ R!Waited' = R!Waited
    BY <1>5 DEF R!ShutdownReturns, R!Slotted, R!Active, R!Waited, R!At
  <2>2. RelayTypes' /\ RelayCounts'
    BY <1>5, <2>1, Zenon DEF R!ShutdownReturns, RelayInv, RelayTypes, R!TypeOK, RelayCounts
  <2>3. OneInRelayLoop' /\ RelayTracked'
    BY <1>5, <2>1 DEF R!ShutdownReturns, RelayInv, OneInRelayLoop, RelayInLoop, RelayTracked
  <2>4. RelaySockets'
    BY <1>5, <2>1 DEF R!ShutdownReturns, RelayInv, RelayTypes, R!TypeOK, RelaySockets, R!Open, R!Sockets
  <2>5. RelayUnwound'
    BY <1>5, <1>0, <2>1 DEF R!ShutdownReturns, RelayInv, RelayUnwound, RelayCounts, RelayTypes, R!TypeOK
  <2> QED BY <2>2, <2>3, <2>4, <2>5 DEF RelayInv
<1>6. CASE R!ShutdownExpires
  <2>1. rpc' = rpc /\ R!Slotted' = R!Slotted /\ R!Active' = R!Active /\ R!Waited' = R!Waited
    BY <1>6 DEF R!ShutdownExpires, R!Slotted, R!Active, R!Waited, R!At
  <2>2. RelayTypes' /\ RelayCounts'
    BY <1>6, <2>1 DEF R!ShutdownExpires, RelayInv, RelayTypes, R!TypeOK, RelayCounts
  <2>3. OneInRelayLoop' /\ RelayTracked'
    BY <1>6, <2>1 DEF R!ShutdownExpires, RelayInv, OneInRelayLoop, RelayInLoop, RelayTracked
  <2>4. RelaySockets'
    BY <1>6, <2>1 DEF R!ShutdownExpires, RelayInv, RelayTypes, R!TypeOK, RelaySockets, R!Open, R!Sockets
  <2>5. RelayUnwound'
    BY <1>6, <1>0, <2>1 DEF R!ShutdownExpires, RelayInv, RelayUnwound, RelayCounts, RelayTypes, R!TypeOK
  <2> QED BY <2>2, <2>3, <2>4, <2>5 DEF RelayInv
<1>7. CASE R!AcceptClosed
  <2>1. rpc' = rpc /\ R!Slotted' = R!Slotted /\ R!Active' = R!Active /\ R!Waited' = R!Waited
    BY <1>7 DEF R!AcceptClosed, R!LoopGoto, R!Slotted, R!Active, R!Waited, R!At
  <2>2. RelayTypes' /\ RelayCounts'
    BY <1>7, <2>1 DEF R!AcceptClosed, R!LoopGoto, RelayInv, RelayTypes, R!TypeOK, RelayCounts
  <2>3. OneInRelayLoop' /\ RelayTracked'
    BY <1>7, <2>1 DEF R!AcceptClosed, R!LoopGoto, RelayInv, OneInRelayLoop, RelayInLoop, RelayTracked
  <2>4. RelaySockets'
    BY <1>7, <2>1 DEF R!AcceptClosed, R!LoopGoto, RelayInv, RelayTypes, R!TypeOK, RelaySockets, R!Open, R!Sockets
  <2>5. RelayUnwound'
    BY <1>7, <1>0, <2>1 DEF R!AcceptClosed, R!LoopGoto, RelayInv, RelayUnwound, RelayCounts, RelayTypes, R!TypeOK
  <2> QED BY <2>2, <2>3, <2>4, <2>5 DEF RelayInv
<1>8. CASE R!AcceptError
  <2>1. rpc' = rpc /\ R!Slotted' = R!Slotted /\ R!Active' = R!Active /\ R!Waited' = R!Waited
    BY <1>8 DEF R!AcceptError, R!LoopGoto, R!Stop, R!Slotted, R!Active, R!Waited, R!At
  <2>2. RelayTypes' /\ RelayCounts'
    BY <1>8, <2>1 DEF R!AcceptError, R!LoopGoto, R!Stop, RelayInv, RelayTypes, R!TypeOK, RelayCounts
  <2>3. OneInRelayLoop' /\ RelayTracked'
    BY <1>8, <2>1 DEF R!AcceptError, R!LoopGoto, R!Stop, RelayInv, OneInRelayLoop, RelayInLoop, RelayTracked
  <2>4. RelaySockets'
    BY <1>8, <2>1 DEF R!AcceptError, R!LoopGoto, R!Stop, RelayInv, RelayTypes, R!TypeOK, RelaySockets, R!Open, R!Sockets
  <2>5. RelayUnwound'
    BY <1>8, <1>0, <2>1 DEF R!AcceptError, R!LoopGoto, R!Stop, RelayInv, RelayUnwound, RelayCounts, RelayTypes, R!TypeOK
  <2> QED BY <2>2, <2>3, <2>4, <2>5 DEF RelayInv
<1>9. CASE R!Finished
  <2>1. rpc' = rpc /\ R!Slotted' = R!Slotted /\ R!Active' = R!Active /\ R!Waited' = R!Waited
    BY <1>9 DEF R!Finished, R!vars, R!Slotted, R!Active, R!Waited, R!At
  <2>2. RelayTypes' /\ RelayCounts'
    BY <1>9, <2>1 DEF R!Finished, R!vars, RelayInv, RelayTypes, R!TypeOK, RelayCounts
  <2>3. OneInRelayLoop' /\ RelayTracked'
    BY <1>9, <2>1 DEF R!Finished, R!vars, RelayInv, OneInRelayLoop, RelayInLoop, RelayTracked
  <2>4. RelaySockets'
    BY <1>9, <2>1 DEF R!Finished, R!vars, RelayInv, RelayTypes, R!TypeOK, RelaySockets, R!Open, R!Sockets
  <2>5. RelayUnwound'
    BY <1>9, <1>0, <2>1 DEF R!Finished, R!vars, RelayInv, RelayUnwound, RelayCounts, RelayTypes, R!TypeOK
  <2> QED BY <2>2, <2>3, <2>4, <2>5 DEF RelayInv
<1>10. ASSUME NEW c \in Clients, R!Accept(c) PROVE RelayInv'
  <2>1. /\ R!Slotted' = R!Slotted
        /\ R!Active' = R!Active
        /\ R!Waited' = R!Waited
    BY <1>10 DEF R!Accept, R!Goto, R!LoopGoto, RelayInv, RelayTypes, R!TypeOK, R!Slotted, R!Active, R!Waited, R!At, R!Relaying
  <2>3. RelayTypes' /\ RelayCounts'
    BY <1>10, <1>0, <2>1 DEF R!Accept, R!Goto, R!LoopGoto, RelayInv, RelayTypes, R!TypeOK, R!Relaying, R!Sockets, RelayCounts
  <2>4. OneInRelayLoop'
    BY <1>10 DEF R!Accept, R!Goto, R!LoopGoto, RelayInv, RelayTypes, R!TypeOK, OneInRelayLoop, RelayInLoop
  <2>5. RelayTracked'
    BY <1>10, Zenon DEF R!Accept, R!Goto, R!LoopGoto, RelayInv, RelayTypes, R!TypeOK, RelayTracked, TrackedPlaces
  <2>6. RelaySockets'
    BY <1>10 DEF R!Accept, R!Goto, R!LoopGoto, RelayInv, RelayTypes, R!TypeOK, RelaySockets, R!Open, R!Sockets
  <2>7. RelayUnwound'
    BY <1>10, <2>1 DEF R!Accept, R!Goto, R!LoopGoto, RelayInv, RelayTypes, R!TypeOK, RelayUnwound, OneInRelayLoop, RelayInLoop
  <2> QED BY <2>3, <2>4, <2>5, <2>6, <2>7 DEF RelayInv
<1>11. ASSUME NEW c \in Clients, R!TakeSlot(c) PROVE RelayInv'
  <2>1. /\ c \notin R!Slotted /\ R!Slotted' = R!Slotted \cup {c}
        /\ R!Active' = R!Active
        /\ R!Waited' = R!Waited
    BY <1>11 DEF R!TakeSlot, R!Goto, RelayInv, RelayTypes, R!TypeOK, R!Slotted, R!Active, R!Waited, R!At, R!Relaying
  <2>2. Cardinality(R!Slotted') = Cardinality(R!Slotted) + 1
    BY <1>0, <2>1, OneMore
  <2>3. RelayTypes' /\ RelayCounts'
    BY <1>11, <1>0, <2>1, <2>2 DEF R!TakeSlot, R!Goto, RelayInv, RelayTypes, R!TypeOK, R!Relaying, R!Sockets, RelayCounts
  <2>4. OneInRelayLoop'
    BY <1>11 DEF R!TakeSlot, R!Goto, RelayInv, RelayTypes, R!TypeOK, OneInRelayLoop, RelayInLoop
  <2>5. RelayTracked'
    BY <1>11, Zenon DEF R!TakeSlot, R!Goto, RelayInv, RelayTypes, R!TypeOK, RelayTracked, TrackedPlaces
  <2>6. RelaySockets'
    BY <1>11 DEF R!TakeSlot, R!Goto, RelayInv, RelayTypes, R!TypeOK, RelaySockets, R!Open, R!Sockets
  <2>7. RelayUnwound'
    BY <1>11, <2>1 DEF R!TakeSlot, R!Goto, RelayInv, RelayTypes, R!TypeOK, RelayUnwound, OneInRelayLoop, RelayInLoop
  <2> QED BY <2>3, <2>4, <2>5, <2>6, <2>7 DEF RelayInv
<1>12. ASSUME NEW c \in Clients, R!RejectClient(c) PROVE RelayInv'
  <2>1. /\ R!Slotted' = R!Slotted
        /\ R!Active' = R!Active
        /\ R!Waited' = R!Waited
    BY <1>12 DEF R!RejectClient, R!Goto, R!LoopGoto, RelayInv, RelayTypes, R!TypeOK, R!Slotted, R!Active, R!Waited, R!At, R!Relaying
  <2>3. RelayTypes' /\ RelayCounts'
    BY <1>12, <1>0, <2>1 DEF R!RejectClient, R!Goto, R!LoopGoto, RelayInv, RelayTypes, R!TypeOK, R!Relaying, R!Sockets, RelayCounts
  <2>4. OneInRelayLoop'
    BY <1>12 DEF R!RejectClient, R!Goto, R!LoopGoto, RelayInv, RelayTypes, R!TypeOK, OneInRelayLoop, RelayInLoop
  <2>5. RelayTracked'
    BY <1>12, Zenon DEF R!RejectClient, R!Goto, R!LoopGoto, RelayInv, RelayTypes, R!TypeOK, RelayTracked, TrackedPlaces
  <2>6. RelaySockets'
    BY <1>12 DEF R!RejectClient, R!Goto, R!LoopGoto, RelayInv, RelayTypes, R!TypeOK, RelaySockets, R!Open, R!Sockets
  <2>7. RelayUnwound'
    BY <1>12, <2>1 DEF R!RejectClient, R!Goto, R!LoopGoto, RelayInv, RelayTypes, R!TypeOK, RelayUnwound, OneInRelayLoop, RelayInLoop
  <2> QED BY <2>3, <2>4, <2>5, <2>6, <2>7 DEF RelayInv
<1>13. ASSUME NEW c \in Clients, R!Count(c) PROVE RelayInv'
  <2>1. /\ R!Slotted' = R!Slotted
        /\ c \notin R!Active /\ R!Active' = R!Active \cup {c}
        /\ R!Waited' = R!Waited
    BY <1>13 DEF R!Count, R!Goto, RelayInv, RelayTypes, R!TypeOK, R!Slotted, R!Active, R!Waited, R!At, R!Relaying
  <2>2. Cardinality(R!Active') = Cardinality(R!Active) + 1
    BY <1>0, <2>1, OneMore
  <2>3. RelayTypes' /\ RelayCounts'
    BY <1>13, <1>0, <2>1, <2>2 DEF R!Count, R!Goto, RelayInv, RelayTypes, R!TypeOK, R!Relaying, R!Sockets, RelayCounts
  <2>4. OneInRelayLoop'
    BY <1>13 DEF R!Count, R!Goto, RelayInv, RelayTypes, R!TypeOK, OneInRelayLoop, RelayInLoop
  <2>5. RelayTracked'
    BY <1>13, Zenon DEF R!Count, R!Goto, RelayInv, RelayTypes, R!TypeOK, RelayTracked, TrackedPlaces
  <2>6. RelaySockets'
    BY <1>13 DEF R!Count, R!Goto, RelayInv, RelayTypes, R!TypeOK, RelaySockets, R!Open, R!Sockets
  <2>7. RelayUnwound'
    BY <1>13, <2>1 DEF R!Count, R!Goto, RelayInv, RelayTypes, R!TypeOK, RelayUnwound, OneInRelayLoop, RelayInLoop
  <2> QED BY <2>3, <2>4, <2>5, <2>6, <2>7 DEF RelayInv
<1>14. ASSUME NEW c \in Clients, R!Track(c) PROVE RelayInv'
  <2>1. /\ R!Slotted' = R!Slotted
        /\ R!Active' = R!Active
        /\ R!Waited' = R!Waited
    BY <1>14 DEF R!Track, R!Goto, RelayInv, RelayTypes, R!TypeOK, R!Slotted, R!Active, R!Waited, R!At, R!Relaying
  <2>3. RelayTypes' /\ RelayCounts'
    BY <1>14, <1>0, <2>1 DEF R!Track, R!Goto, RelayInv, RelayTypes, R!TypeOK, R!Relaying, R!Sockets, RelayCounts
  <2>4. OneInRelayLoop'
    BY <1>14 DEF R!Track, R!Goto, RelayInv, RelayTypes, R!TypeOK, OneInRelayLoop, RelayInLoop
  <2>5. RelayTracked'
    BY <1>14, Zenon DEF R!Track, R!Goto, RelayInv, RelayTypes, R!TypeOK, RelayTracked, TrackedPlaces
  <2>6. RelaySockets'
    BY <1>14 DEF R!Track, R!Goto, RelayInv, RelayTypes, R!TypeOK, RelaySockets, R!Open, R!Sockets
  <2>7. RelayUnwound'
    BY <1>14, <2>1 DEF R!Track, R!Goto, RelayInv, RelayTypes, R!TypeOK, RelayUnwound, OneInRelayLoop, RelayInLoop
  <2> QED BY <2>3, <2>4, <2>5, <2>6, <2>7 DEF RelayInv
<1>15. ASSUME NEW c \in Clients, R!Spawn(c) PROVE RelayInv'
  <2>1. /\ R!Slotted' = R!Slotted
        /\ R!Active' = R!Active
        /\ c \notin R!Waited /\ R!Waited' = R!Waited \cup {c}
    BY <1>15 DEF R!Spawn, R!Goto, R!LoopGoto, RelayInv, RelayTypes, R!TypeOK, R!Slotted, R!Active, R!Waited, R!At, R!Relaying
  <2>2. Cardinality(R!Waited') = Cardinality(R!Waited) + 1
    BY <1>0, <2>1, OneMore
  <2>3. RelayTypes' /\ RelayCounts'
    BY <1>15, <1>0, <2>1, <2>2 DEF R!Spawn, R!Goto, R!LoopGoto, RelayInv, RelayTypes, R!TypeOK, R!Relaying, R!Sockets, RelayCounts
  <2>4. OneInRelayLoop'
    BY <1>15 DEF R!Spawn, R!Goto, R!LoopGoto, RelayInv, RelayTypes, R!TypeOK, OneInRelayLoop, RelayInLoop
  <2>5. RelayTracked'
    BY <1>15, Zenon DEF R!Spawn, R!Goto, R!LoopGoto, RelayInv, RelayTypes, R!TypeOK, RelayTracked, TrackedPlaces
  <2>6. RelaySockets'
    BY <1>15 DEF R!Spawn, R!Goto, R!LoopGoto, RelayInv, RelayTypes, R!TypeOK, RelaySockets, R!Open, R!Sockets
  <2>7. RelayUnwound'
    BY <1>15, <2>1 DEF R!Spawn, R!Goto, R!LoopGoto, RelayInv, RelayTypes, R!TypeOK, RelayUnwound, OneInRelayLoop, RelayInLoop
  <2> QED BY <2>3, <2>4, <2>5, <2>6, <2>7 DEF RelayInv
<1>16. ASSUME NEW c \in Clients, R!DialOK(c) PROVE RelayInv'
  <2>1. /\ R!Slotted' = R!Slotted
        /\ R!Active' = R!Active
        /\ R!Waited' = R!Waited
    BY <1>16 DEF R!DialOK, R!Goto, RelayInv, RelayTypes, R!TypeOK, R!Slotted, R!Active, R!Waited, R!At, R!Relaying
  <2>3. RelayTypes' /\ RelayCounts'
    BY <1>16, <1>0, <2>1 DEF R!DialOK, R!Goto, RelayInv, RelayTypes, R!TypeOK, R!Relaying, R!Sockets, RelayCounts
  <2>4. OneInRelayLoop'
    BY <1>16 DEF R!DialOK, R!Goto, RelayInv, RelayTypes, R!TypeOK, OneInRelayLoop, RelayInLoop
  <2>5. RelayTracked'
    BY <1>16, Zenon DEF R!DialOK, R!Goto, RelayInv, RelayTypes, R!TypeOK, RelayTracked, TrackedPlaces
  <2>6. RelaySockets'
    BY <1>16 DEF R!DialOK, R!Goto, RelayInv, RelayTypes, R!TypeOK, RelaySockets, R!Open, R!Sockets
  <2>7. RelayUnwound'
    BY <1>16, <2>1 DEF R!DialOK, R!Goto, RelayInv, RelayTypes, R!TypeOK, RelayUnwound, OneInRelayLoop, RelayInLoop
  <2> QED BY <2>3, <2>4, <2>5, <2>6, <2>7 DEF RelayInv
<1>17. ASSUME NEW c \in Clients, R!DialFails(c) PROVE RelayInv'
  <2>1. /\ R!Slotted' = R!Slotted
        /\ R!Active' = R!Active
        /\ R!Waited' = R!Waited
    BY <1>17 DEF R!DialFails, R!Goto, RelayInv, RelayTypes, R!TypeOK, R!Slotted, R!Active, R!Waited, R!At, R!Relaying
  <2>3. RelayTypes' /\ RelayCounts'
    BY <1>17, <1>0, <2>1 DEF R!DialFails, R!Goto, RelayInv, RelayTypes, R!TypeOK, R!Relaying, R!Sockets, RelayCounts
  <2>4. OneInRelayLoop'
    BY <1>17 DEF R!DialFails, R!Goto, RelayInv, RelayTypes, R!TypeOK, OneInRelayLoop, RelayInLoop
  <2>5. RelayTracked'
    BY <1>17, Zenon DEF R!DialFails, R!Goto, RelayInv, RelayTypes, R!TypeOK, RelayTracked, TrackedPlaces
  <2>6. RelaySockets'
    BY <1>17 DEF R!DialFails, R!Goto, RelayInv, RelayTypes, R!TypeOK, RelaySockets, R!Open, R!Sockets
  <2>7. RelayUnwound'
    BY <1>17, <2>1 DEF R!DialFails, R!Goto, RelayInv, RelayTypes, R!TypeOK, RelayUnwound, OneInRelayLoop, RelayInLoop
  <2> QED BY <2>3, <2>4, <2>5, <2>6, <2>7 DEF RelayInv
<1>18. ASSUME NEW c \in Clients, R!TrackUpstream(c) PROVE RelayInv'
  <2>1. /\ R!Slotted' = R!Slotted
        /\ R!Active' = R!Active
        /\ R!Waited' = R!Waited
    BY <1>18 DEF R!TrackUpstream, R!Goto, RelayInv, RelayTypes, R!TypeOK, R!Slotted, R!Active, R!Waited, R!At, R!Relaying
  <2>3. RelayTypes' /\ RelayCounts'
    BY <1>18, <1>0, <2>1 DEF R!TrackUpstream, R!Goto, RelayInv, RelayTypes, R!TypeOK, R!Relaying, R!Sockets, RelayCounts
  <2>4. OneInRelayLoop'
    BY <1>18 DEF R!TrackUpstream, R!Goto, RelayInv, RelayTypes, R!TypeOK, OneInRelayLoop, RelayInLoop
  <2>5. RelayTracked'
    BY <1>18, Zenon DEF R!TrackUpstream, R!Goto, RelayInv, RelayTypes, R!TypeOK, RelayTracked, TrackedPlaces
  <2>6. RelaySockets'
    BY <1>18 DEF R!TrackUpstream, R!Goto, RelayInv, RelayTypes, R!TypeOK, RelaySockets, R!Open, R!Sockets
  <2>7. RelayUnwound'
    BY <1>18, <2>1 DEF R!TrackUpstream, R!Goto, RelayInv, RelayTypes, R!TypeOK, RelayUnwound, OneInRelayLoop, RelayInLoop
  <2> QED BY <2>3, <2>4, <2>5, <2>6, <2>7 DEF RelayInv
<1>19. ASSUME NEW c \in Clients, R!CopyEnds(c) PROVE RelayInv'
  <2>1. /\ R!Slotted' = R!Slotted
        /\ R!Active' = R!Active
        /\ R!Waited' = R!Waited
    BY <1>19 DEF R!CopyEnds, R!Goto, RelayInv, RelayTypes, R!TypeOK, R!Slotted, R!Active, R!Waited, R!At, R!Relaying
  <2>3. RelayTypes' /\ RelayCounts'
    BY <1>19, <1>0, <2>1 DEF R!CopyEnds, R!Goto, RelayInv, RelayTypes, R!TypeOK, R!Relaying, R!Sockets, RelayCounts
  <2>4. OneInRelayLoop'
    BY <1>19 DEF R!CopyEnds, R!Goto, RelayInv, RelayTypes, R!TypeOK, OneInRelayLoop, RelayInLoop
  <2>5. RelayTracked'
    BY <1>19, Zenon DEF R!CopyEnds, R!Goto, RelayInv, RelayTypes, R!TypeOK, RelayTracked, TrackedPlaces
  <2>6. RelaySockets'
    BY <1>19 DEF R!CopyEnds, R!Goto, RelayInv, RelayTypes, R!TypeOK, RelaySockets, R!Open, R!Sockets
  <2>7. RelayUnwound'
    BY <1>19, <2>1 DEF R!CopyEnds, R!Goto, RelayInv, RelayTypes, R!TypeOK, RelayUnwound, OneInRelayLoop, RelayInLoop
  <2> QED BY <2>3, <2>4, <2>5, <2>6, <2>7 DEF RelayInv
<1>20. ASSUME NEW c \in Clients, R!DropUpstream(c) PROVE RelayInv'
  <2>1. /\ R!Slotted' = R!Slotted
        /\ R!Active' = R!Active
        /\ R!Waited' = R!Waited
    BY <1>20 DEF R!DropUpstream, R!Goto, RelayInv, RelayTypes, R!TypeOK, R!Slotted, R!Active, R!Waited, R!At, R!Relaying
  <2>3. RelayTypes' /\ RelayCounts'
    BY <1>20, <1>0, <2>1 DEF R!DropUpstream, R!Goto, RelayInv, RelayTypes, R!TypeOK, R!Relaying, R!Sockets, RelayCounts
  <2>4. OneInRelayLoop'
    BY <1>20 DEF R!DropUpstream, R!Goto, RelayInv, RelayTypes, R!TypeOK, OneInRelayLoop, RelayInLoop
  <2>5. RelayTracked'
    BY <1>20, Zenon DEF R!DropUpstream, R!Goto, RelayInv, RelayTypes, R!TypeOK, RelayTracked, TrackedPlaces
  <2>6. RelaySockets'
    BY <1>20 DEF R!DropUpstream, R!Goto, RelayInv, RelayTypes, R!TypeOK, RelaySockets, R!Open, R!Sockets
  <2>7. RelayUnwound'
    BY <1>20, <2>1 DEF R!DropUpstream, R!Goto, RelayInv, RelayTypes, R!TypeOK, RelayUnwound, OneInRelayLoop, RelayInLoop
  <2> QED BY <2>3, <2>4, <2>5, <2>6, <2>7 DEF RelayInv
<1>21. ASSUME NEW c \in Clients, R!Untrack(c) PROVE RelayInv'
  <2>1. /\ R!Slotted' = R!Slotted
        /\ R!Active' = R!Active
        /\ R!Waited' = R!Waited
    BY <1>21 DEF R!Untrack, R!Goto, RelayInv, RelayTypes, R!TypeOK, R!Slotted, R!Active, R!Waited, R!At, R!Relaying
  <2>3. RelayTypes' /\ RelayCounts'
    BY <1>21, <1>0, <2>1 DEF R!Untrack, R!Goto, RelayInv, RelayTypes, R!TypeOK, R!Relaying, R!Sockets, RelayCounts
  <2>4. OneInRelayLoop'
    BY <1>21 DEF R!Untrack, R!Goto, RelayInv, RelayTypes, R!TypeOK, OneInRelayLoop, RelayInLoop
  <2>5. RelayTracked'
    BY <1>21, Zenon DEF R!Untrack, R!Goto, RelayInv, RelayTypes, R!TypeOK, RelayTracked, TrackedPlaces
  <2>6. RelaySockets'
    BY <1>21 DEF R!Untrack, R!Goto, RelayInv, RelayTypes, R!TypeOK, RelaySockets, R!Open, R!Sockets
  <2>7. RelayUnwound'
    BY <1>21, <2>1 DEF R!Untrack, R!Goto, RelayInv, RelayTypes, R!TypeOK, RelayUnwound, OneInRelayLoop, RelayInLoop
  <2> QED BY <2>3, <2>4, <2>5, <2>6, <2>7 DEF RelayInv
<1>22. ASSUME NEW c \in Clients, R!CloseClient(c) PROVE RelayInv'
  <2>1. /\ R!Slotted' = R!Slotted
        /\ R!Active' = R!Active
        /\ R!Waited' = R!Waited
    BY <1>22 DEF R!CloseClient, R!Goto, RelayInv, RelayTypes, R!TypeOK, R!Slotted, R!Active, R!Waited, R!At, R!Relaying
  <2>3. RelayTypes' /\ RelayCounts'
    BY <1>22, <1>0, <2>1 DEF R!CloseClient, R!Goto, RelayInv, RelayTypes, R!TypeOK, R!Relaying, R!Sockets, RelayCounts
  <2>4. OneInRelayLoop'
    BY <1>22 DEF R!CloseClient, R!Goto, RelayInv, RelayTypes, R!TypeOK, OneInRelayLoop, RelayInLoop
  <2>5. RelayTracked'
    BY <1>22, Zenon DEF R!CloseClient, R!Goto, RelayInv, RelayTypes, R!TypeOK, RelayTracked, TrackedPlaces
  <2>6. RelaySockets'
    BY <1>22 DEF R!CloseClient, R!Goto, RelayInv, RelayTypes, R!TypeOK, RelaySockets, R!Open, R!Sockets
  <2>7. RelayUnwound'
    BY <1>22, <2>1 DEF R!CloseClient, R!Goto, RelayInv, RelayTypes, R!TypeOK, RelayUnwound, OneInRelayLoop, RelayInLoop
  <2> QED BY <2>3, <2>4, <2>5, <2>6, <2>7 DEF RelayInv
<1>23. ASSUME NEW c \in Clients, R!Uncount(c) PROVE RelayInv'
  <2>1. /\ R!Slotted' = R!Slotted
        /\ c \in R!Active /\ R!Active' = R!Active \ {c}
        /\ R!Waited' = R!Waited
    BY <1>23 DEF R!Uncount, R!Goto, RelayInv, RelayTypes, R!TypeOK, R!Slotted, R!Active, R!Waited, R!At, R!Relaying
  <2>2. Cardinality(R!Active') = Cardinality(R!Active) - 1 /\ Cardinality(R!Active) > 0
    BY <1>0, <2>1, OneLess
  <2>3. RelayTypes' /\ RelayCounts'
    BY <1>23, <1>0, <2>1, <2>2 DEF R!Uncount, R!Goto, RelayInv, RelayTypes, R!TypeOK, R!Relaying, R!Sockets, RelayCounts
  <2>4. OneInRelayLoop'
    BY <1>23 DEF R!Uncount, R!Goto, RelayInv, RelayTypes, R!TypeOK, OneInRelayLoop, RelayInLoop
  <2>5. RelayTracked'
    BY <1>23, Zenon DEF R!Uncount, R!Goto, RelayInv, RelayTypes, R!TypeOK, RelayTracked, TrackedPlaces
  <2>6. RelaySockets'
    BY <1>23 DEF R!Uncount, R!Goto, RelayInv, RelayTypes, R!TypeOK, RelaySockets, R!Open, R!Sockets
  <2>7. RelayUnwound'
    BY <1>23, <2>1 DEF R!Uncount, R!Goto, RelayInv, RelayTypes, R!TypeOK, RelayUnwound, OneInRelayLoop, RelayInLoop
  <2> QED BY <2>3, <2>4, <2>5, <2>6, <2>7 DEF RelayInv
<1>24. ASSUME NEW c \in Clients, R!ReturnSlot(c) PROVE RelayInv'
  <2>1. /\ c \in R!Slotted /\ R!Slotted' = R!Slotted \ {c}
        /\ R!Active' = R!Active
        /\ R!Waited' = R!Waited
    BY <1>24 DEF R!ReturnSlot, R!Goto, RelayInv, RelayTypes, R!TypeOK, R!Slotted, R!Active, R!Waited, R!At, R!Relaying
  <2>2. Cardinality(R!Slotted') = Cardinality(R!Slotted) - 1 /\ Cardinality(R!Slotted) > 0
    BY <1>0, <2>1, OneLess
  <2>3. RelayTypes' /\ RelayCounts'
    BY <1>24, <1>0, <2>1, <2>2 DEF R!ReturnSlot, R!Goto, RelayInv, RelayTypes, R!TypeOK, R!Relaying, R!Sockets, RelayCounts
  <2>4. OneInRelayLoop'
    BY <1>24 DEF R!ReturnSlot, R!Goto, RelayInv, RelayTypes, R!TypeOK, OneInRelayLoop, RelayInLoop
  <2>5. RelayTracked'
    BY <1>24, Zenon DEF R!ReturnSlot, R!Goto, RelayInv, RelayTypes, R!TypeOK, RelayTracked, TrackedPlaces
  <2>6. RelaySockets'
    BY <1>24 DEF R!ReturnSlot, R!Goto, RelayInv, RelayTypes, R!TypeOK, RelaySockets, R!Open, R!Sockets
  <2>7. RelayUnwound'
    BY <1>24, <2>1 DEF R!ReturnSlot, R!Goto, RelayInv, RelayTypes, R!TypeOK, RelayUnwound, OneInRelayLoop, RelayInLoop
  <2> QED BY <2>3, <2>4, <2>5, <2>6, <2>7 DEF RelayInv
<1>25. ASSUME NEW c \in Clients, R!WgDone(c) PROVE RelayInv'
  <2>1. /\ R!Slotted' = R!Slotted
        /\ R!Active' = R!Active
        /\ c \in R!Waited /\ R!Waited' = R!Waited \ {c}
    BY <1>25 DEF R!WgDone, R!Goto, RelayInv, RelayTypes, R!TypeOK, R!Slotted, R!Active, R!Waited, R!At, R!Relaying
  <2>2. Cardinality(R!Waited') = Cardinality(R!Waited) - 1 /\ Cardinality(R!Waited) > 0
    BY <1>0, <2>1, OneLess
  <2>3. RelayTypes' /\ RelayCounts'
    BY <1>25, <1>0, <2>1, <2>2 DEF R!WgDone, R!Goto, RelayInv, RelayTypes, R!TypeOK, R!Relaying, R!Sockets, RelayCounts
  <2>4. OneInRelayLoop'
    BY <1>25 DEF R!WgDone, R!Goto, RelayInv, RelayTypes, R!TypeOK, OneInRelayLoop, RelayInLoop
  <2>5. RelayTracked'
    BY <1>25, Zenon DEF R!WgDone, R!Goto, RelayInv, RelayTypes, R!TypeOK, RelayTracked, TrackedPlaces
  <2>6. RelaySockets'
    BY <1>25 DEF R!WgDone, R!Goto, RelayInv, RelayTypes, R!TypeOK, RelaySockets, R!Open, R!Sockets
  <2>7. RelayUnwound'
    BY <1>25, <2>1 DEF R!WgDone, R!Goto, RelayInv, RelayTypes, R!TypeOK, RelayUnwound, OneInRelayLoop, RelayInLoop
  <2> QED BY <2>3, <2>4, <2>5, <2>6, <2>7 DEF RelayInv
<1>26. CASE UNCHANGED relay
  BY <1>26, Zenon DEF relay, RelayInv, RelayTypes, R!TypeOK, RelayCounts, OneInRelayLoop, RelayTracked, RelaySockets, RelayUnwound,
     R!Slotted, R!Active, R!Waited, R!At, R!Open
<1> QED BY <1>1, <1>2, <1>3, <1>4, <1>5, <1>6, <1>7, <1>8, <1>9, <1>10, <1>11, <1>12, <1>13, <1>14, <1>15, <1>16, <1>17, <1>18, <1>19, <1>20, <1>21, <1>22, <1>23, <1>24, <1>25, <1>26 DEF R!Next, R!LoopStep, R!HandleStep

\* The relay counts with the same cardinality.
LEMMA SameSize == ASSUME NEW S PROVE R!Cardinality(S) = Cardinality(S)
BY DEF R!Cardinality, Cardinality

\* What the invariant says of the relay's capacity.
LEMMA RelayCountersExact == RelayInv => R!CountersExact
<1> SUFFICES ASSUME RelayInv PROVE R!CountersExact
  OBVIOUS
<1> DEFINE Dialled == {c \in Clients : R!Open(<<c, "upstream">>)}
<1>1. Dialled \subseteq R!Slotted
  BY DEF RelayInv, RelaySockets, R!Slotted, R!At, R!Relaying
<1>2. IsFiniteSet(R!Slotted)
  BY FiniteClients DEF R!Slotted, R!At
<1>3. Cardinality(Dialled) <= Cardinality(R!Slotted)
  BY <1>1, <1>2, FS_Subset, Zenon
<1> HIDE DEF Dialled
<1>4. R!Cardinality(Dialled) <= rsem
  BY <1>3, SameSize DEF RelayInv, RelayCounts
<1> QED BY <1>4, SameSize DEF RelayInv, RelayCounts, R!CountersExact, Dialled

\* What it says of a Shutdown that has returned.
LEMMA RelayShutdownClean == RelayInv => R!ShutdownClean
<1> SUFFICES ASSUME RelayInv, rshutdown \in {"nil", "error"} PROVE R!ShutdownClean
  BY DEF R!ShutdownClean
<1>1. \A c \in Clients : rpc[c] \in {"new", "rejected", "done"}
  BY DEF RelayInv, RelayTypes, R!TypeOK, OneInRelayLoop, RelayInLoop, RelayUnwound, R!Waited, R!At, R!Relaying
<1>2. rsem = 0 /\ ractive = 0
  <2>1. R!Slotted = {} /\ R!Active = {}
    BY <1>1 DEF R!Slotted, R!Active, R!At, R!Relaying
  <2> QED BY <2>1, FS_EmptySet DEF RelayInv, RelayCounts
<1>3. rconns = {}
  <2>1. \A c \in Clients, side \in {"client", "upstream"} : <<c, side>> \notin rconns
    BY <1>1, Zenon DEF RelayInv, RelayTracked, TrackedPlaces
  <2>2. ASSUME NEW s \in R!Sockets PROVE s \notin rconns
    <3>1. s[1] \in Clients /\ s[2] \in {"client", "upstream"} /\ s = <<s[1], s[2]>>
      BY DEF R!Sockets
    <3> QED BY <2>1, <3>1, Zenon
  <2> QED BY <2>2 DEF RelayInv, RelayTypes, R!TypeOK
<1>4. \A s \in R!Sockets : ~R!Open(s)
  BY <1>1 DEF RelayInv, RelaySockets, R!Sockets
<1>5. rlistener = "closed"
  BY DEF RelayInv, RelayUnwound
<1> QED BY <1>2, <1>3, <1>4, <1>5 DEF R!ShutdownClean

\* Only the service that the mode names takes steps, so that each keeps its
\* invariant in every behaviour of the two.
ServicesSpec == ServicesInit /\ [][ServicesNext]_servicesVars

\* The invariants of the two services hold together.
LEMMA NextServices ==
    ListenerInv /\ RelayInv /\ [ServicesNext]_servicesVars => ListenerInv' /\ RelayInv'
<1> SUFFICES ASSUME ListenerInv, RelayInv, [ServicesNext]_servicesVars PROVE ListenerInv' /\ RelayInv'
  OBVIOUS
<1>1. [ListenerNext]_listenerVars
  BY DEF ServicesNext, servicesVars
<1>2. [R!Next]_relay
  BY DEF ServicesNext, servicesVars
<1>3. ListenerInv'
  BY <1>1, NextListenerInv
<1>4. RelayInv'
  BY <1>2, NextRelayInv
<1> QED BY <1>3, <1>4

\* The goroutines of both services are accounted for in every reachable state.
THEOREM SpecServices == ServicesSpec => [](ListenerInv /\ RelayInv)
<1>1. ServicesInit => ListenerInv /\ RelayInv
  BY InitListenerInv, InitRelayInv DEF ServicesInit
<1> QED BY <1>1, NextServices, PTL DEF ServicesSpec

\* For any number of clients and any capacity the relay's semaphore, gauge and wait
\* group are exact, its upstream connections are bounded by its slots, and a Shutdown
\* that returns before its deadline leaves no socket open and no goroutine running.
THEOREM RelaySoundHolds == ServicesSpec => []RelaySound
<1>1. RelayInv => RelaySound
  BY RelayCountersExact, RelayShutdownClean DEF RelaySound, R!RelaySound
<1> QED BY <1>1, SpecServices, PTL
=============================================================================
