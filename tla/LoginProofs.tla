---------------------------- MODULE LoginProofs -----------------------------
(***************************************************************************)
(* Proofs about the two ways into a process.  The handshake of the pooled  *)
(* gateway and its limiter: who is let in, over which channel, and how     *)
(* many guesses a host gets.  The login endpoint of the admin API and its  *)
(* limiter of failed logins: how many a client gets in a minute.           *)
(***************************************************************************)
EXTENDS Logins, FiniteSetTheorems, TLAPS

-----------------------------------------------------------------------------
(* The handshake.                                                          *)
ConnType == [pc : {"greet", "response", "upgrade", "response2", "limit", "auth", "ok", "command", "closed"},
             channel : {"plain", "tls"}, response : {"none", "right", "wrong"},
             readOn : {"none", "plain", "tls"}, caps : SUBSET AllCaps, heard : -1..2, said : -1..3]

\* The sequence number of the response that carries the credentials.
Due(s) == IF s.channel = "tls" THEN 2 ELSE 1

\* One connection of handleClient: the TLS upgrade comes between the two responses,
\* nothing is answered before the credentials are checked, and what follows that
\* check was read in order, with acceptable flags, on the channel now in use.
ConnInv(s) ==
    /\ s \in ConnType
    /\ s.pc \in {"greet", "response", "upgrade"} => s.channel = "plain"
    /\ s.pc = "response2" => s.channel = "tls"
    /\ s.pc \notin {"command", "closed"} => s.said <= 0
    /\ s.pc \in {"limit", "auth", "ok", "command"} =>
          /\ s.heard = Due(s) /\ s.readOn = s.channel /\ ValidateCapabilities(s.caps)
          /\ TLSRequired => s.channel = "tls"
    /\ s.pc \in {"ok", "command"} => s.response = "right"
    /\ s.said > 0 /\ s.heard = Due(s) => s.said = s.heard + 1

HandshakeInv ==
    /\ scenario \in DOMAIN Scenarios /\ DOMAIN state = Conns
    /\ \A c \in Conns : ConnInv(state[c])

-----------------------------------------------------------------------------
(* The limiter.                                                            *)
LimiterEntry == [failures : Nat \ {0}, windowStart : Nat \ {0}, blockedUntil : Nat, lastSeen : Nat \ {0}]

LimiterTypes ==
    /\ now \in 1..MaxTime
    /\ DOMAIN attempts \subseteq Hosts /\ IsFiniteSet(DOMAIN attempts)
    /\ attempts \in [DOMAIN attempts -> LimiterEntry]
    /\ \A h \in DOMAIN attempts : attempts[h].windowStart <= now /\ attempts[h].lastSeen <= now
    /\ lastFailure \in [Hosts -> Nat] /\ \A h \in Hosts : lastFailure[h] <= now

\* An entry at the limit is locked out until its window is over, and longer.
LockedPastWindow ==
    \A h \in DOMAIN attempts : attempts[h].failures >= MaxFailures =>
        attempts[h].blockedUntil >= attempts[h].windowStart + Window

TableInv == LimiterTypes /\ TableBounded /\ LockoutEnds /\ LockedPastWindow
LimiterInv == TableInv /\ GuessesBounded
-----------------------------------------------------------------------------
\* A handler that goes on to a state that is right leaves all connections right.
LEMMA ConnStep ==
    ASSUME HandshakeInv, NEW c \in Conns, NEW s, ConnInv(s), Become(c, s)
    PROVE  HandshakeInv'
<1>1. ASSUME NEW r, ConnInv(r) PROVE ConnInv(r)'
  BY <1>1 DEF ConnInv, TLSRequired, ValidateCapabilities, ServerCaps, Become
<1>2. scenario' = scenario /\ state' = [state EXCEPT ![c] = s]
  BY DEF Become
<1>3. DOMAIN state' = Conns /\ scenario' \in DOMAIN Scenarios
  BY <1>2 DEF HandshakeInv
<1>4. ASSUME NEW d \in Conns PROVE ConnInv(state[d])'
  <2>1. state'[d] = s \/ state'[d] = state[d]
    BY <1>2 DEF HandshakeInv
  <2>2. ConnInv(state[d])
    BY DEF HandshakeInv
  <2> QED
    BY <1>1, <2>1, <2>2
<1> QED
  BY <1>3, <1>4 DEF HandshakeInv

\* handleClient may return from wherever a read or a write can fail.
LEMMA ConnCloses ==
    ASSUME NEW s \in ConnType, s.said > 0 /\ s.heard = Due(s) => s.said = s.heard + 1
    PROVE  ConnInv(Closed(s))
<1>1. Closed(s) \in ConnType
  BY Zenon DEF Closed, ConnType
<1>2. /\ Closed(s).pc = "closed" /\ Closed(s).said = s.said /\ Closed(s).heard = s.heard
      /\ Due(Closed(s)) = Due(s)
  BY DEF Closed, ConnType, Due
<1> QED
  BY <1>1, <1>2 DEF ConnInv

\* What ReadResponse accepts has the expected number and acceptable flags.
LEMMA ReadAccepts ==
    ASSUME NEW x, NEW expected, ReadResponse(x, expected) # "error"
    PROVE  x.seq = expected /\ ValidateCapabilities(x.caps)
BY DEF ReadResponse, ParseResponse

\* The packets of a scenario, and the connections it uses.
LEMMA PacketTypes ==
    ASSUME HandshakeInv, NEW c \in DOMAIN Sent
    PROVE  /\ c \in Conns /\ ConnInv(state[c]) /\ state[c] \in ConnType
           /\ \A x \in Sent[c] : x.seq \in {1, 2} /\ x.caps \in SUBSET AllCaps
<1>1. c \in Conns /\ \A x \in Sent[c] : x.seq \in {1, 2} /\ x.caps \in SUBSET AllCaps
  BY HandshakeAssumption DEF HandshakeInv, Sent
<1>2. ConnInv(state[c])
  BY <1>1 DEF HandshakeInv
<1> QED
  BY <1>1, <1>2 DEF ConnInv

\* The handler's state after it has read a packet.
LEMMA AfterReadTypes ==
    ASSUME NEW c \in Conns, state[c] \in ConnType, NEW x, x.seq \in {1, 2}, x.caps \in SUBSET AllCaps, NEW r
    PROVE  LET s == AfterRead(c, x, r) IN
           /\ s \in ConnType /\ s.pc = state[c].pc /\ s.channel = state[c].channel /\ s.readOn = s.channel
           /\ s.heard = x.seq /\ s.caps = x.caps /\ s.said = state[c].said
<1> DEFINE w == IF r = "right" THEN "right" ELSE "wrong"
<1>1. w \in {"none", "right", "wrong"}
  OBVIOUS
<1>2. PICK b : b = state[c]
  OBVIOUS
<1>3. AfterRead(c, x, r) = [b EXCEPT !.heard = x.seq, !.caps = x.caps, !.readOn = b.channel, !.response = w]
  BY <1>2 DEF AfterRead
<1> HIDE DEF w
<1>4. PICK s : s = [b EXCEPT !.heard = x.seq, !.caps = x.caps, !.readOn = b.channel, !.response = w]
  OBVIOUS
<1>5. /\ s.pc = b.pc /\ s.channel = b.channel /\ s.readOn = b.channel
      /\ s.heard = x.seq /\ s.caps = x.caps /\ s.said = b.said
  BY <1>2, <1>4 DEF ConnType
<1>6. s \in ConnType
  <2>1. b \in ConnType /\ b.channel \in {"none", "plain", "tls"} /\ x.seq \in -1..2
    BY <1>2 DEF ConnType
  <2>2. PICK o, n, u : o = b.channel /\ n = x.seq /\ u = x.caps
    OBVIOUS
  <2>3. s = [b EXCEPT !.heard = n, !.caps = u, !.readOn = o, !.response = w]
    BY <1>4, <2>2
  <2>4. o \in {"none", "plain", "tls"} /\ n \in -1..2 /\ u \in SUBSET AllCaps
    BY <2>1, <2>2
  <2> HIDE DEF w
  <2> QED
    BY <1>1, <2>1, <2>3, <2>4, Zenon DEF ConnType
<1> QED
  BY <1>2, <1>3, <1>4, <1>5, <1>6

\* The first response (FirstResponse).
LEMMA FirstResponseKeeps ==
    ASSUME HandshakeInv, NEW c \in DOMAIN Sent, NEW x \in Sent[c], FirstResponse(c, x)
    PROVE  HandshakeInv'
<1> DEFINE r == ReadResponse(x, 1)
           s == AfterRead(c, x, r)
<1>1. /\ c \in Conns /\ ConnInv(state[c]) /\ state[c] \in ConnType
      /\ x.seq \in {1, 2} /\ x.caps \in SUBSET AllCaps
  BY PacketTypes
<1>2. /\ s \in ConnType /\ s.channel = "plain" /\ s.readOn = "plain" /\ s.said <= 0
      /\ s.heard = x.seq /\ s.caps = x.caps
  <2>1. state[c].channel = "plain" /\ state[c].said <= 0
    BY <1>1 DEF FirstResponse, At, ConnInv
  <2> QED
    BY <1>1, <2>1, AfterReadTypes
<1>3. r # "error" => x.seq = 1 /\ ValidateCapabilities(x.caps)
  BY ReadAccepts
<1>4. \/ r = "tls" /\ Become(c, [s EXCEPT !.pc = "upgrade"])
      \/ Become(c, Closed([s EXCEPT !.said = 2]))
      \/ r # "error" /\ ~TLSRequired /\ Become(c, [s EXCEPT !.pc = "limit"])
  BY DEF FirstResponse
<1> HIDE DEF r, s
<1>5. CASE Become(c, [s EXCEPT !.pc = "upgrade"])
  <2>1. ConnInv([s EXCEPT !.pc = "upgrade"])
    BY <1>2 DEF ConnInv, ConnType
  <2> QED
    BY <1>1, <1>5, <2>1, ConnStep
<1>6. CASE Become(c, Closed([s EXCEPT !.said = 2]))
  <2>1. ConnInv(Closed([s EXCEPT !.said = 2]))
    <3>1. PICK t : t = [s EXCEPT !.said = 2]
      BY Zenon
    <3>2. t \in ConnType /\ t.said = 2 /\ t.channel = "plain"
      BY <1>2, <3>1 DEF ConnType
    <3>3. ConnInv(Closed(t))
      BY <3>2, ConnCloses DEF Due
    <3> QED
      BY <3>1, <3>3
  <2> QED
    BY <1>1, <1>6, <2>1, ConnStep
<1>7. CASE r # "error" /\ ~TLSRequired /\ Become(c, [s EXCEPT !.pc = "limit"])
  <2>1. ConnInv([s EXCEPT !.pc = "limit"])
    BY <1>2, <1>3, <1>7 DEF ConnInv, ConnType, Due
  <2> QED
    BY <1>1, <1>7, <2>1, ConnStep
<1> QED
  BY <1>4, <1>5, <1>6, <1>7

\* The response inside TLS (SecondResponse).
LEMMA SecondResponseKeeps ==
    ASSUME HandshakeInv, NEW c \in DOMAIN Sent, NEW x \in Sent[c], SecondResponse(c, x)
    PROVE  HandshakeInv'
<1> DEFINE r == ReadResponse(x, 2)
           s == AfterRead(c, x, r)
<1>1. /\ c \in Conns /\ ConnInv(state[c]) /\ state[c] \in ConnType
      /\ x.seq \in {1, 2} /\ x.caps \in SUBSET AllCaps
  BY PacketTypes
<1>2. /\ s \in ConnType /\ s.channel = "tls" /\ s.readOn = "tls" /\ s.said <= 0
      /\ s.heard = x.seq /\ s.caps = x.caps
  <2>1. state[c].channel = "tls" /\ state[c].said <= 0
    BY <1>1 DEF SecondResponse, At, ConnInv
  <2> QED
    BY <1>1, <2>1, AfterReadTypes
<1>3. r # "error" => x.seq = 2 /\ ValidateCapabilities(x.caps)
  BY ReadAccepts
<1>4. Become(c, Closed(s)) \/ (r # "error" /\ Become(c, [s EXCEPT !.pc = "limit"]))
  BY DEF SecondResponse
<1> HIDE DEF r, s
<1>5. CASE Become(c, Closed(s))
  <2>1. ConnInv(Closed(s))
    BY <1>2, ConnCloses DEF ConnType
  <2> QED
    BY <1>1, <1>5, <2>1, ConnStep
<1>6. CASE r # "error" /\ Become(c, [s EXCEPT !.pc = "limit"])
  <2>1. ConnInv([s EXCEPT !.pc = "limit"])
    BY <1>2, <1>3, <1>6 DEF ConnInv, ConnType, Due
  <2> QED
    BY <1>1, <1>6, <2>1, ConnStep
<1> QED
  BY <1>4, <1>5, <1>6

\* The answer to the credentials, and the end of the handler after it.
LEMMA AnswerNumbered ==
    ASSUME NEW c \in Conns, ConnInv(state[c]), state[c].pc \in {"limit", "auth", "ok"}
    PROVE  /\ Answer(c) \in ConnType /\ Answer(c).said = Answer(c).heard + 1
           /\ ConnInv(Closed(Answer(c))) /\ ConnInv([Answer(c) EXCEPT !.pc = "command", !.response = "right"])
<1>1. PICK b : b = state[c]
  OBVIOUS
<1>2. b \in ConnType /\ b.heard = Due(b) /\ b.readOn = b.channel /\ ValidateCapabilities(b.caps)
      /\ (TLSRequired => b.channel = "tls")
  BY <1>1 DEF ConnInv
<1>3. PICK t : t = [b EXCEPT !.said = IF b.channel = "tls" THEN 3 ELSE 2]
  BY Zenon
<1>4. Answer(c) = t
  BY <1>1, <1>3 DEF Answer, AuthSequence
<1>5. /\ t \in ConnType /\ t.said = Due(b) + 1 /\ t.heard = b.heard /\ t.channel = b.channel
      /\ t.readOn = b.readOn /\ t.caps = b.caps
  <2>1. CASE b.channel = "tls"
    BY <1>2, <1>3, <2>1 DEF ConnType, Due
  <2>2. CASE b.channel # "tls"
    BY <1>2, <1>3, <2>2 DEF ConnType, Due
  <2> QED
    BY <2>1, <2>2
<1>6. t.said = t.heard + 1
  BY <1>2, <1>5
<1>7. ConnInv(Closed(t))
  BY <1>5, <1>6, ConnCloses
<1>8. ConnInv([t EXCEPT !.pc = "command", !.response = "right"])
  <2>1. PICK u : u = [t EXCEPT !.pc = "command", !.response = "right"]
    OBVIOUS
  <2>2. /\ u \in ConnType /\ u.pc = "command" /\ u.response = "right" /\ u.said = t.said /\ u.heard = t.heard
        /\ u.channel = t.channel /\ u.readOn = t.readOn /\ u.caps = t.caps
    BY <1>5, <2>1, Zenon DEF ConnType
  <2>3. ConnInv(u)
    BY <1>2, <1>5, <1>6, <2>2 DEF ConnInv, Due
  <2> QED
    BY <2>1, <2>3
<1> QED
  BY <1>4, <1>5, <1>6, <1>7, <1>8

\* The steps of one handler other than the two that read a response.
LEMMA HandlerKeeps ==
    ASSUME HandshakeInv, NEW c \in DOMAIN Sent,
           \/ Connect(c) \/ Greet(c) \/ UpgradeTLS(c) \/ CheckLimiter(c) \/ Authenticate(c) \/ WriteOK(c)
           \/ Disconnect(c) \/ EndCommands(c)
    PROVE  HandshakeInv'
<1>1. c \in Conns /\ ConnInv(state[c]) /\ state[c] \in ConnType
  BY PacketTypes
<1>2. PICK b : b = state[c]
  OBVIOUS
<1>3. b \in ConnType /\ ConnInv(b)
  BY <1>1, <1>2
<1>4. ConnInv(Closed(b))
  BY <1>3, ConnCloses DEF ConnInv
<1>5. CASE Connect(c)
  <2>1. ConnInv(Fresh)
    BY DEF ConnInv, ConnType, Fresh
  <2> QED
    BY <1>1, <1>5, <2>1, ConnStep DEF Connect
<1>6. CASE Greet(c)
  <2>1. ConnInv([b EXCEPT !.pc = "response", !.said = 0])
    <3>1. PICK u : u = [b EXCEPT !.pc = "response", !.said = 0]
      OBVIOUS
    <3>2. u.pc = "response" /\ u.said = 0 /\ u.channel = b.channel
      BY <1>3, <3>1 DEF ConnType
    <3>5. u \in ConnType
      <4>1. PICK n \in -1..3 : n = 0
        OBVIOUS
      <4>2. u = [b EXCEPT !.pc = "response", !.said = n]
        BY <3>1, <4>1
      <4> QED
        BY <1>3, <4>2, Zenon DEF ConnType
    <3>3. b.channel = "plain"
      BY <1>2, <1>3, <1>6 DEF ConnInv, Greet, At
    <3>4. ConnInv(u)
      BY <3>2, <3>3, <3>5 DEF ConnInv
    <3> QED
      BY <3>1, <3>4
  <2> QED
    BY <1>1, <1>2, <1>6, <2>1, ConnStep DEF Greet
<1>7. CASE UpgradeTLS(c)
  <2>1. ConnInv([b EXCEPT !.pc = "response2", !.channel = "tls"])
    <3>1. PICK u : u = [b EXCEPT !.pc = "response2", !.channel = "tls"]
      OBVIOUS
    <3>2. u \in ConnType /\ u.pc = "response2" /\ u.said = b.said /\ u.channel = "tls"
      BY <1>3, <3>1, Zenon DEF ConnType
    <3>3. b.said <= 0
      BY <1>2, <1>3, <1>7 DEF ConnInv, UpgradeTLS, At
    <3>4. u.said \in Int /\ ~(u.said > 0)
      BY <1>3, <3>2, <3>3 DEF ConnType
    <3>5. ConnInv(u)
      BY <3>2, <3>3, <3>4 DEF ConnInv
    <3> QED
      BY <3>1, <3>5
  <2> QED
    BY <1>1, <1>2, <1>4, <1>7, <2>1, ConnStep DEF UpgradeTLS
<1>8. CASE CheckLimiter(c)
  <2>1. b.pc = "limit"
    BY <1>2, <1>8 DEF CheckLimiter, At
  <2>2. ConnInv([b EXCEPT !.pc = "auth"])
    BY <1>3, <2>1 DEF ConnInv, ConnType, Due
  <2>3. ConnInv(Closed(Answer(c)))
    BY <1>1, <1>2, <2>1, AnswerNumbered, Zenon
  <2>4. Become(c, [b EXCEPT !.pc = "auth"]) \/ Become(c, Closed(Answer(c)))
    BY <1>2, <1>8 DEF CheckLimiter
  <2> QED
    BY <1>1, <2>2, <2>3, <2>4, ConnStep
<1>9. CASE Authenticate(c)
  <2>1. b.pc = "auth"
    BY <1>2, <1>9 DEF Authenticate, At
  <2>2. b.response = "right" => ConnInv([b EXCEPT !.pc = "ok"])
    BY <1>3, <2>1 DEF ConnInv, ConnType, Due
  <2>3. ConnInv(Closed(Answer(c)))
    BY <1>1, <1>2, <2>1, AnswerNumbered, Zenon
  <2>4. \/ b.response = "right" /\ Become(c, [b EXCEPT !.pc = "ok"])
        \/ Become(c, Closed(Answer(c)))
    BY <1>2, <1>9 DEF Authenticate
  <2> QED
    BY <1>1, <2>2, <2>3, <2>4, ConnStep
<1>10. CASE WriteOK(c)
  <2>1. b.pc = "ok" /\ b.response = "right"
    BY <1>2, <1>3, <1>10 DEF WriteOK, At, ConnInv
  <2>2. Answer(c).response = "right" /\ Answer(c) \in ConnType
    BY <1>1, <1>2, <2>1, AnswerNumbered, Zenon DEF Answer, ConnType
  <2>3. ConnInv([Answer(c) EXCEPT !.pc = "command", !.response = "right"])
    BY <1>1, <1>2, <2>1, AnswerNumbered, Zenon
  <2>4. [Answer(c) EXCEPT !.pc = "command", !.response = "right"] = [Answer(c) EXCEPT !.pc = "command"]
    BY <2>2, Zenon DEF ConnType
  <2> QED
    BY <1>1, <1>10, <2>3, <2>4, ConnStep DEF WriteOK
<1>11. CASE Disconnect(c)
  BY <1>1, <1>2, <1>4, <1>11, ConnStep DEF Disconnect
<1>12. CASE EndCommands(c)
  <2>1. ConnInv(Closed([b EXCEPT !.said = -1]))
    <3>1. PICK t : t = [b EXCEPT !.said = -1]
      BY Zenon
    <3>2. t \in ConnType /\ t.said = -1
      BY <1>3, <3>1 DEF ConnType
    <3>3. ConnInv(Closed(t))
      BY <3>2, ConnCloses
    <3> QED
      BY <3>1, <3>3
  <2> QED
    BY <1>1, <1>2, <1>12, <2>1, ConnStep DEF EndCommands
<1> QED
  BY <1>5, <1>6, <1>7, <1>8, <1>9, <1>10, <1>11, <1>12

\* The inductive step of the handshake.
LEMMA NextHandshake == HandshakeInv /\ [Next]_vars => HandshakeInv'
<1> SUFFICES ASSUME HandshakeInv, [Next]_vars PROVE HandshakeInv'
  OBVIOUS
<1>1. CASE UNCHANGED <<scenario, state>>
  BY <1>1 DEF HandshakeInv, ConnInv, TLSRequired, ValidateCapabilities, ServerCaps
<1>2. ASSUME NEW c \in DOMAIN Sent, NEW x \in Sent[c], FirstResponse(c, x) \/ SecondResponse(c, x)
      PROVE  HandshakeInv'
  BY <1>2, FirstResponseKeeps, SecondResponseKeeps
<1> QED
  BY <1>1, <1>2, HandlerKeeps DEF Next, vars

\* The initial states of the handshake.
LEMMA InitHandshake == Init => HandshakeInv
<1>1. ConnInv(Fresh)
  BY DEF ConnInv, ConnType, Fresh
<1> QED
  BY <1>1 DEF Init, HandshakeInv

\* What the invariant says of the clients that are let in.
LEMMA HandshakeInvSound == HandshakeInv => HandshakeSound
<1> SUFFICES ASSUME HandshakeInv PROVE HandshakeSound
  OBVIOUS
<1>1. \A c \in Conns : ConnInv(state[c])
  BY DEF HandshakeInv
<1>2. CommandsAuthenticated
  BY <1>1 DEF CommandsAuthenticated, ConnInv
<1>3. CredentialsProtected
  BY <1>1 DEF CredentialsProtected, ConnInv
<1>4. AnswersInSequence
  BY <1>1 DEF AnswersInSequence, ConnInv, Due
<1> QED
  BY <1>2, <1>3, <1>4 DEF HandshakeSound

\* Whatever packets the clients of handleClient send and however their handlers
\* interleave, commands are read only from a client that presented the right
\* credentials over the required channel, credentials sent in the clear are not
\* looked at when TLS is required, and every answer carries the next number.
THEOREM HandshakeSoundHolds == Spec => []HandshakeSound
BY InitHandshake, NextHandshake, HandshakeInvSound, PTL DEF Spec

-----------------------------------------------------------------------------
\* The clock runs on: entries and their lockouts stay what they are.
LEMMA TickTable == ASSUME TableInv, Tick PROVE TableInv'
<1>1. LimiterTypes'
  BY LimiterAssumption DEF Tick, TableInv, LimiterTypes, LimiterEntry
<1>2. TableBounded' /\ LockoutEnds' /\ LockedPastWindow'
  BY DEF Tick, TableInv, TableBounded, LockoutEnds, LockedPastWindow
<1> QED
  BY <1>1, <1>2 DEF TableInv

\* Entries that are dropped leave the others as they are.
LEMMA DropTable ==
    ASSUME TableInv, NEW D \in SUBSET DOMAIN attempts, attempts' = [k \in D |-> attempts[k]],
           UNCHANGED <<now, lastFailure>>
    PROVE  TableInv'
<1>1. DOMAIN attempts' = D /\ \A k \in D : attempts'[k] = attempts[k]
  OBVIOUS
<1>2. IsFiniteSet(D) /\ Cardinality(D) <= Cardinality(DOMAIN attempts)
  BY FS_Subset DEF TableInv, LimiterTypes
<1>3. Cardinality(D) \in Nat /\ Cardinality(DOMAIN attempts) \in Nat
  BY <1>2, FS_CardinalityType DEF TableInv, LimiterTypes
<1>4. LimiterTypes'
  BY <1>1, <1>2 DEF TableInv, LimiterTypes
<1>5. TableBounded'
  BY <1>1, <1>2, <1>3, LimiterAssumption DEF TableInv, TableBounded
<1>6. LockoutEnds' /\ LockedPastWindow'
  BY <1>1 DEF TableInv, LockoutEnds, LockedPastWindow
<1> QED
  BY <1>4, <1>5, <1>6 DEF TableInv

\* allowed, when it refuses, touches lastSeen only.
LEMMA RefusedTable == ASSUME TableInv, NEW h \in Hosts, Refused(h) PROVE TableInv'
<1>1. /\ h \in DOMAIN attempts /\ attempts' = [attempts EXCEPT ![h].lastSeen = now]
      /\ UNCHANGED <<now, lastFailure>>
  BY DEF Refused, Blocked, Known
<1>2. /\ DOMAIN attempts' = DOMAIN attempts
      /\ \A k \in DOMAIN attempts : k # h => attempts'[k] = attempts[k]
      /\ attempts'[h] = [attempts[h] EXCEPT !.lastSeen = now]
  BY <1>1
<1>3. attempts[h] \in LimiterEntry /\ now \in Nat \ {0}
  BY <1>1 DEF TableInv, LimiterTypes
<1>4. /\ attempts'[h] \in LimiterEntry /\ attempts'[h].failures = attempts[h].failures
      /\ attempts'[h].windowStart = attempts[h].windowStart /\ attempts'[h].lastSeen = now
      /\ attempts'[h].blockedUntil = attempts[h].blockedUntil
  BY <1>2, <1>3 DEF LimiterEntry
<1>5. LimiterTypes'
  <2>1. \A k \in DOMAIN attempts : attempts'[k] \in LimiterEntry
    BY <1>2, <1>4 DEF TableInv, LimiterTypes
  <2>2. \A k \in DOMAIN attempts : attempts'[k].windowStart <= now /\ attempts'[k].lastSeen <= now
    <3>1. \A k \in DOMAIN attempts : attempts[k].windowStart <= now /\ attempts[k].lastSeen <= now
      BY DEF TableInv, LimiterTypes
    <3>2. attempts'[h].windowStart <= now /\ attempts'[h].lastSeen <= now
      BY <1>1, <1>3, <1>4, <3>1
    <3> QED
      BY <1>2, <3>1, <3>2, Zenon
  <2>3. attempts' \in [DOMAIN attempts' -> LimiterEntry]
    BY <1>1, <1>2, <2>1, Zenon
  <2> QED
    BY <1>1, <1>2, <2>2, <2>3 DEF TableInv, LimiterTypes
<1>6. TableBounded'
  BY <1>2 DEF TableInv, TableBounded
<1>7. LockoutEnds' /\ LockedPastWindow'
  BY <1>1, <1>2, <1>4 DEF TableInv, LockoutEnds, LockedPastWindow
<1> QED
  BY <1>5, <1>6, <1>7 DEF TableInv

\* allowed, when it lets through, drops an entry whose window is over; success
\* drops the host's entry.
LEMMA AllowedTable == ASSUME TableInv, NEW h \in Hosts, Allowed(h) \/ Success(h) PROVE TableInv'
<1>1. /\ UNCHANGED <<now, lastFailure>>
      /\ \E D \in SUBSET DOMAIN attempts : attempts' = [k \in D |-> attempts[k]]
  <2>1. attempts = [k \in DOMAIN attempts |-> attempts[k]]
    BY DEF TableInv, LimiterTypes
  <2>2. attempts' = attempts \/ attempts' = [k \in DOMAIN attempts \ {h} |-> attempts[k]]
    BY DEF Allowed, Success, Without, Restrict
  <2>3. UNCHANGED <<now, lastFailure>>
    BY DEF Allowed, Success
  <2>4. DOMAIN attempts \in SUBSET DOMAIN attempts /\ DOMAIN attempts \ {h} \in SUBSET DOMAIN attempts
    OBVIOUS
  <2> QED
    BY <2>1, <2>2, <2>3, <2>4
<1> QED
  BY <1>1, DropTable

\* The entry that failure writes: a window that is still open, a count at the limit
\* only together with a lockout from now on.
LEMMA FailedEntry ==
    ASSUME TableInv, NEW h \in Hosts
    PROVE  /\ Failed(h) \in LimiterEntry /\ Failed(h).windowStart <= now /\ Failed(h).lastSeen = now
           /\ Failed(h).blockedUntil # 0 => Failed(h).blockedUntil <= now + Lockout
           /\ Failed(h).failures >= MaxFailures => Failed(h).blockedUntil >= Failed(h).windowStart + Window
           /\ Failed(h).failures = IF Known(h) /\ ~WindowOver(h) THEN attempts[h].failures + 1 ELSE 1
<1> DEFINE fresh == [failures |-> 0, windowStart |-> now, blockedUntil |-> 0, lastSeen |-> now]
<1>1. now \in Nat \ {0}
  BY DEF TableInv, LimiterTypes
<1>2. PICK old : old = IF ~Known(h) \/ WindowOver(h) THEN fresh ELSE attempts[h]
  BY Zenon
<1>3. /\ old \in [failures : Nat, windowStart : Nat \ {0}, blockedUntil : Nat, lastSeen : Nat \ {0}]
      /\ old.windowStart <= now
      /\ old.failures = IF Known(h) /\ ~WindowOver(h) THEN attempts[h].failures ELSE 0
      /\ old.blockedUntil # 0 => old.blockedUntil <= now + Lockout
  <2>1. CASE ~Known(h) \/ WindowOver(h)
    BY <1>1, <1>2, <2>1
  <2>2. CASE Known(h) /\ ~WindowOver(h)
    <3>1. old = attempts[h] /\ attempts[h] \in LimiterEntry /\ attempts[h].windowStart <= now
      BY <1>2, <2>2 DEF TableInv, LimiterTypes, Known
    <3>2. attempts[h].blockedUntil # 0 => attempts[h].blockedUntil <= lastFailure[h] + Lockout
      BY <2>2 DEF TableInv, LockoutEnds, Known
    <3>3. lastFailure[h] <= now /\ lastFailure[h] \in Nat
      BY DEF TableInv, LimiterTypes
    <3>4. old \in [failures : Nat, windowStart : Nat \ {0}, blockedUntil : Nat, lastSeen : Nat \ {0}]
      BY <3>1 DEF LimiterEntry
    <3>5. old.blockedUntil # 0 => old.blockedUntil <= now + Lockout
      BY <1>1, <3>1, <3>2, <3>3, <3>4, LimiterAssumption
    <3> QED
      BY <2>2, <3>1, <3>4, <3>5
  <2> QED
    BY <2>1, <2>2
<1>4. PICK until : until = IF old.failures + 1 >= MaxFailures THEN now + Lockout ELSE old.blockedUntil
  OBVIOUS
<1>5. until \in Nat /\ (until # 0 => until <= now + Lockout)
      /\ (old.failures + 1 >= MaxFailures => until >= old.windowStart + Window)
  BY <1>1, <1>3, <1>4, LimiterAssumption
<1>6. Failed(h) = [old EXCEPT !.failures = old.failures + 1, !.lastSeen = now, !.blockedUntil = until]
  BY <1>2, <1>4 DEF Failed
<1>7. PICK e : e = [old EXCEPT !.failures = old.failures + 1, !.lastSeen = now, !.blockedUntil = until]
  OBVIOUS
<1>8. /\ e.failures = old.failures + 1 /\ e.lastSeen = now /\ e.blockedUntil = until
      /\ e.windowStart = old.windowStart
  BY <1>3, <1>7
<1>9. e \in LimiterEntry
  <2>1. PICK n \in Nat \ {0} : n = old.failures + 1
    BY <1>3
  <2>2. e = [old EXCEPT !.failures = n, !.lastSeen = now, !.blockedUntil = until]
    BY <1>7, <2>1
  <2> QED
    BY <1>1, <1>3, <1>5, <2>2, Zenon DEF LimiterEntry
<1>10. e.failures = IF Known(h) /\ ~WindowOver(h) THEN attempts[h].failures + 1 ELSE 1
  BY <1>3, <1>8
<1> QED
  BY <1>3, <1>5, <1>6, <1>7, <1>8, <1>9, <1>10

\* failure writes one entry, after it has made room for it.
LEMMA FailureEffect ==
    ASSUME TableInv, NEW h \in Hosts, Failure(h)
    PROVE  /\ now' = now /\ lastFailure' = [lastFailure EXCEPT ![h] = now]
           /\ DOMAIN attempts' \subseteq DOMAIN attempts \cup {h} /\ h \in DOMAIN attempts'
           /\ attempts' = [k \in DOMAIN attempts' |-> IF k = h THEN Failed(h) ELSE attempts[k]]
           /\ IsFiniteSet(DOMAIN attempts') /\ Cardinality(DOMAIN attempts') <= MaxEntries
<1> DEFINE D == DOMAIN attempts
<1>1. IsFiniteSet(D) /\ Cardinality(D) \in Nat /\ Cardinality(D) <= MaxEntries /\ MaxEntries \in Nat
  BY FS_CardinalityType, LimiterAssumption DEF TableInv, LimiterTypes, TableBounded
<1>2. now' = now /\ lastFailure' = [lastFailure EXCEPT ![h] = now]
  BY DEF Failure
<1>3. CASE ~Known(h) /\ Cardinality(D) >= MaxEntries
  <2>1. PICK k \in Oldest : attempts' = Restrict(Put(h, Failed(h)), (D \ {k}) \cup {h})
    BY <1>3 DEF Failure
  <2>2. k \in D /\ h \notin D
    BY <1>3 DEF Oldest, Known
  <2>3. attempts' = [j \in (D \ {k}) \cup {h} |-> IF j = h THEN Failed(h) ELSE attempts[j]]
    BY <2>1 DEF Restrict, Put
  <2>4. IsFiniteSet(D \ {k}) /\ Cardinality(D \ {k}) = Cardinality(D) - 1
    BY <1>1, <2>2, FS_RemoveElement
  <2>5. IsFiniteSet((D \ {k}) \cup {h}) /\ Cardinality((D \ {k}) \cup {h}) = Cardinality(D \ {k}) + 1
    BY <2>2, <2>4, FS_AddElement
  <2>6. Cardinality((D \ {k}) \cup {h}) <= MaxEntries
    BY <1>1, <2>4, <2>5
  <2>7. DOMAIN attempts' = (D \ {k}) \cup {h}
    BY <2>3
  <2> HIDE DEF D
  <2> QED
    BY <1>2, <2>3, <2>5, <2>6, <2>7 DEF D
<1>4. CASE ~(~Known(h) /\ Cardinality(D) >= MaxEntries)
  <2>1. attempts' = [j \in D \cup {h} |-> IF j = h THEN Failed(h) ELSE attempts[j]]
    BY <1>4 DEF Failure, Put
  <2>2. IsFiniteSet(D \cup {h}) /\ Cardinality(D \cup {h}) <= MaxEntries
    <3>1. /\ IsFiniteSet(D \cup {h})
          /\ Cardinality(D \cup {h}) = IF h \in D THEN Cardinality(D) ELSE Cardinality(D) + 1
      BY <1>1, FS_AddElement
    <3> QED
      BY <1>1, <1>4, <3>1 DEF Known
  <2>3. DOMAIN attempts' = D \cup {h}
    BY <2>1
  <2> QED
    BY <1>2, <2>1, <2>2, <2>3
<1> QED
  BY <1>3, <1>4

\* The table after failure.
LEMMA FailureTable == ASSUME TableInv, NEW h \in Hosts, Failure(h) PROVE TableInv'
<1> DEFINE E == DOMAIN attempts'
<1>1. /\ now' = now /\ lastFailure' = [lastFailure EXCEPT ![h] = now]
      /\ E \subseteq DOMAIN attempts \cup {h} /\ h \in E
      /\ attempts' = [k \in E |-> IF k = h THEN Failed(h) ELSE attempts[k]]
      /\ IsFiniteSet(E) /\ Cardinality(E) <= MaxEntries
  BY FailureEffect
<1>2. attempts'[h] = Failed(h) /\ \A k \in E : k # h => k \in DOMAIN attempts /\ attempts'[k] = attempts[k]
  BY <1>1
<1>3. now \in Nat \ {0} /\ lastFailure \in [Hosts -> Nat] /\ \A k \in Hosts : lastFailure[k] <= now
  BY DEF TableInv, LimiterTypes
<1>4. /\ Failed(h) \in LimiterEntry /\ Failed(h).windowStart <= now /\ Failed(h).lastSeen = now
      /\ Failed(h).blockedUntil # 0 => Failed(h).blockedUntil <= now + Lockout
      /\ Failed(h).failures >= MaxFailures => Failed(h).blockedUntil >= Failed(h).windowStart + Window
  BY FailedEntry
<1> HIDE DEF E
<1>5. LimiterTypes'
  <2>1. \A k \in E : attempts'[k] \in LimiterEntry
    BY <1>2, <1>4 DEF TableInv, LimiterTypes
  <2>2. \A k \in E : attempts'[k].windowStart <= now /\ attempts'[k].lastSeen <= now
    <3>1. attempts'[h].windowStart <= now /\ attempts'[h].lastSeen <= now
      BY <1>2, <1>3, <1>4
    <3>2. \A k \in DOMAIN attempts : attempts[k].windowStart <= now /\ attempts[k].lastSeen <= now
      BY DEF TableInv, LimiterTypes
    <3> QED
      BY <1>2, <3>1, <3>2
  <2>3. attempts' \in [E -> LimiterEntry]
    <3>1. attempts' = [k \in E |-> attempts'[k]]
      BY <1>1
    <3> QED
      BY <2>1, <3>1
  <2>4. lastFailure' \in [Hosts -> Nat] /\ \A k \in Hosts : lastFailure'[k] <= now
    BY <1>1, <1>3
  <2>5. E \subseteq Hosts
    BY <1>1 DEF TableInv, LimiterTypes
  <2> QED
    BY <1>1, <2>2, <2>3, <2>4, <2>5 DEF TableInv, LimiterTypes, E
<1>6. TableBounded'
  BY <1>1 DEF TableBounded, E
<1>7. LockoutEnds'
  <2>1. ASSUME NEW k \in E, attempts'[k].blockedUntil # 0
        PROVE  attempts'[k].blockedUntil <= lastFailure'[k] + Lockout
    <3>1. CASE k = h
      BY <1>1, <1>2, <1>3, <1>4, <2>1, <3>1
    <3>2. CASE k # h
      <4>1. k \in DOMAIN attempts /\ attempts'[k] = attempts[k] /\ lastFailure'[k] = lastFailure[k]
        BY <1>1, <1>2, <1>3, <3>2 DEF TableInv, LimiterTypes
      <4> QED
        BY <2>1, <4>1 DEF TableInv, LockoutEnds
    <3> QED
      BY <3>1, <3>2
  <2> QED
    BY <2>1 DEF LockoutEnds, E
<1>8. LockedPastWindow'
  BY <1>2, <1>4 DEF TableInv, LockedPastWindow, E
<1> QED
  BY <1>5, <1>6, <1>7, <1>8 DEF TableInv

\* A step of the handlers changes the table by one critical section, or not at all.
LEMMA NextTable == ASSUME HandshakeInv, TableInv, [Next]_vars PROVE TableInv'
<1>1. CASE UNCHANGED limiter
  BY <1>1 DEF limiter, TableInv, LimiterTypes, TableBounded, LockoutEnds, LockedPastWindow
<1>2. ASSUME NEW c \in DOMAIN Sent, CheckLimiter(c) \/ Authenticate(c) PROVE TableInv'
  <2>1. HostOf[c] \in Hosts
    BY HandshakeAssumption, PacketTypes
  <2>2. Allowed(HostOf[c]) \/ Refused(HostOf[c]) \/ Success(HostOf[c]) \/ Failure(HostOf[c])
    BY <1>2 DEF CheckLimiter, Authenticate
  <2> QED
    BY <2>1, <2>2, AllowedTable, RefusedTable, FailureTable
<1>3. CASE Tick
  BY <1>3, TickTable
<1>4. ASSUME NEW c \in DOMAIN Sent, NEW x \in Sent[c], FirstResponse(c, x) \/ SecondResponse(c, x)
      PROVE  UNCHANGED limiter
  BY <1>4 DEF FirstResponse, SecondResponse
<1>5. ASSUME NEW c \in DOMAIN Sent,
             Connect(c) \/ Greet(c) \/ UpgradeTLS(c) \/ WriteOK(c) \/ Disconnect(c) \/ EndCommands(c)
      PROVE  UNCHANGED limiter
  BY <1>5 DEF Connect, Greet, UpgradeTLS, WriteOK, Disconnect, EndCommands
<1> QED
  BY <1>1, <1>2, <1>3, <1>4, <1>5 DEF Next, vars

\* An entry at the limit is locked out or stale.
LEMMA TableNotStale == ASSUME TableInv PROVE NoStaleCount
<1> SUFFICES ASSUME NEW h \in DOMAIN attempts, attempts[h].failures >= MaxFailures
             PROVE  Blocked(h) \/ WindowOver(h)
  BY DEF NoStaleCount
<1>1. attempts[h] \in LimiterEntry /\ now \in Nat
  BY DEF TableInv, LimiterTypes
<1>2. attempts[h].blockedUntil >= attempts[h].windowStart + Window
  BY DEF TableInv, LockedPastWindow
<1>3. attempts[h].blockedUntil \in Nat /\ attempts[h].windowStart \in Nat \ {0}
  BY <1>1 DEF LimiterEntry
<1> QED
  BY <1>1, <1>2, <1>3, LimiterAssumption DEF Blocked, WindowOver, Known

-----------------------------------------------------------------------------
(* The guesses a host gets.                                                *)
Mine(h) == {c \in Conns : HostOf[c] = h}
Guessing(h) == {c \in Mine(h) : At(c, "auth")}
\* What GuessesBounded says of one host.
HostBounded(h) == attempts[h].failures + Cardinality(Guessing(h)) <= MaxFailures - 1 + Cardinality(Mine(h))

\* The connections of a host can be counted.
LEMMA CountMine ==
    ASSUME NEW h
    PROVE  /\ Cardinality(Mine(h)) \in Nat
           /\ \A S \in SUBSET Mine(h) : /\ IsFiniteSet(S) /\ Cardinality(S) \in Nat
                                       /\ Cardinality(S) <= Cardinality(Mine(h))
                                       /\ \A R \in SUBSET S : Cardinality(R) <= Cardinality(S)
                                       /\ \A c \in S : Cardinality(S \ {c}) = Cardinality(S) - 1
<1>1. IsFiniteSet(Mine(h))
  <2>1. Mine(h) \in SUBSET Conns
    BY DEF Mine
  <2> QED
    BY <2>1, FS_Subset, HandshakeAssumption
<1>2. ASSUME NEW S \in SUBSET Mine(h)
      PROVE  IsFiniteSet(S) /\ Cardinality(S) \in Nat /\ Cardinality(S) <= Cardinality(Mine(h))
  BY <1>1, FS_Subset, FS_CardinalityType
<1>3. ASSUME NEW S \in SUBSET Mine(h), NEW R \in SUBSET S PROVE Cardinality(R) <= Cardinality(S)
  BY <1>2, FS_Subset
<1>4. ASSUME NEW S \in SUBSET Mine(h), NEW c \in S PROVE Cardinality(S \ {c}) = Cardinality(S) - 1
  BY <1>2, FS_RemoveElement
<1> QED
  BY <1>1, <1>2, <1>3, <1>4, FS_CardinalityType

\* The property, host by host.
LEMMA GuessesByHost ==
    /\ GuessesBounded <=> \A h \in DOMAIN attempts : HostBounded(h)
    /\ GuessesBounded' <=> \A h \in DOMAIN attempts' : HostBounded(h)'
BY DEF GuessesBounded, HostBounded, Guessing, Mine

\* A host that keeps its count and gets no further connection past allowed.
LEMMA HostKeeps ==
    ASSUME TableInv, NEW h \in DOMAIN attempts, HostBounded(h), attempts'[h].failures = attempts[h].failures,
           Guessing(h)' \subseteq Guessing(h)
    PROVE  HostBounded(h)'
<1>1. Mine(h)' = Mine(h) /\ Guessing(h) \in SUBSET Mine(h)
  BY DEF Mine, Guessing
<1>2. PICK a, b, n : a = Cardinality(Guessing(h)') /\ b = Cardinality(Guessing(h)) /\ n = Cardinality(Mine(h))
  OBVIOUS
<1>3. a \in Nat /\ b \in Nat /\ n \in Nat /\ a <= b
  BY <1>1, <1>2, CountMine
<1>4. attempts[h].failures \in Nat
  BY DEF TableInv, LimiterTypes, LimiterEntry
<1>5. attempts[h].failures + b <= MaxFailures - 1 + n
  BY <1>2 DEF HostBounded
<1>6. attempts[h].failures + a <= MaxFailures - 1 + n
  BY <1>3, <1>4, <1>5, LimiterAssumption
<1> QED
  BY <1>1, <1>2, <1>6 DEF HostBounded

\* A handler that goes on to anything but the password check adds no guess.
LEMMA NoNewGuess ==
    ASSUME HandshakeInv, NEW c \in Conns, NEW s, Become(c, s), s.pc # "auth", NEW h
    PROVE  Guessing(h)' \subseteq Guessing(h) /\ c \notin Guessing(h)'
<1>1. state' = [state EXCEPT ![c] = s] /\ DOMAIN state = Conns
  BY DEF Become, HandshakeInv
<1>2. \A d \in Conns : state'[d] = IF d = c THEN s ELSE state[d]
  BY <1>1
<1> QED
  BY <1>2 DEF Guessing, Mine, At

\* Where a handler goes on to, but for the step through allowed.
LEMMA HandlerMoves ==
    ASSUME HandshakeInv, NEW c \in DOMAIN Sent,
           \/ Connect(c) \/ Greet(c) \/ UpgradeTLS(c) \/ WriteOK(c) \/ Disconnect(c) \/ EndCommands(c)
           \/ Authenticate(c) \/ (CheckLimiter(c) /\ ~Allowed(HostOf[c]))
           \/ \E x \in Sent[c] : FirstResponse(c, x) \/ SecondResponse(c, x)
    PROVE  \E s : Become(c, s) /\ s.pc # "auth"
<1>1. c \in Conns /\ state[c] \in ConnType /\ \A x \in Sent[c] : x.seq \in {1, 2} /\ x.caps \in SUBSET AllCaps
  BY PacketTypes
<1>2. ASSUME NEW s \in ConnType PROVE Closed(s).pc # "auth"
  BY DEF Closed, ConnType
<1>3. ASSUME NEW s \in ConnType, NEW n \in -1..3
      PROVE  [s EXCEPT !.said = n] \in ConnType
  BY DEF ConnType
<1>4. ASSUME NEW s \in ConnType, NEW p \in {"upgrade", "response2", "limit", "ok", "command"}
      PROVE  [s EXCEPT !.pc = p].pc # "auth"
  BY DEF ConnType
<1>5. Answer(c) \in ConnType /\ Closed(Answer(c)).pc # "auth"
  <2>1. PICK n \in -1..3 : n = AuthSequence(c)
    BY DEF AuthSequence
  <2>2. Answer(c) \in ConnType
    BY <1>1, <1>3, <2>1, Zenon DEF Answer
  <2> QED
    BY <1>2, <2>2
<1>6. CASE Connect(c) \/ Disconnect(c)
  BY <1>1, <1>2, <1>6 DEF Connect, Disconnect, Fresh
<1>7. CASE Greet(c) \/ UpgradeTLS(c)
  <2>1. /\ [state[c] EXCEPT !.pc = "response", !.said = 0].pc # "auth"
        /\ [state[c] EXCEPT !.pc = "response2", !.channel = "tls"].pc # "auth"
    BY <1>1 DEF ConnType
  <2> QED
    BY <1>1, <1>2, <1>7, <2>1, Zenon DEF Greet, UpgradeTLS
<1>8. CASE EndCommands(c)
  <2>1. PICK n \in -1..3 : n = -1
    OBVIOUS
  <2>2. Become(c, Closed([state[c] EXCEPT !.said = n]))
    BY <1>8, <2>1 DEF EndCommands
  <2> QED
    BY <1>1, <1>2, <1>3, <2>2, Zenon
<1>9. CASE WriteOK(c)
  BY <1>4, <1>5, <1>9, Zenon DEF WriteOK
<1>10. CASE Authenticate(c) \/ (CheckLimiter(c) /\ ~Allowed(HostOf[c]))
  BY <1>1, <1>4, <1>5, <1>10, Zenon DEF Authenticate, CheckLimiter
<1>11. ASSUME NEW x \in Sent[c], FirstResponse(c, x) \/ SecondResponse(c, x)
       PROVE  \E s : Become(c, s) /\ s.pc # "auth"
  <2>1. PICK a, b : a = AfterRead(c, x, ReadResponse(x, 1)) /\ b = AfterRead(c, x, ReadResponse(x, 2))
    OBVIOUS
  <2>b. c \in Conns /\ state[c] \in ConnType /\ x.seq \in {1, 2} /\ x.caps \in SUBSET AllCaps
    BY <1>1, Zenon
  <2>a. ASSUME NEW r PROVE AfterRead(c, x, r) \in ConnType
    BY <2>b, AfterReadTypes
  <2>2. a \in ConnType /\ b \in ConnType
    BY <2>1, <2>a, Zenon
  <2>3. \/ Become(c, [a EXCEPT !.pc = "upgrade"]) \/ Become(c, Closed([a EXCEPT !.said = 2]))
        \/ Become(c, [a EXCEPT !.pc = "limit"]) \/ Become(c, Closed(b)) \/ Become(c, [b EXCEPT !.pc = "limit"])
    BY <1>11, <2>1 DEF FirstResponse, SecondResponse
  <2>4. /\ [a EXCEPT !.pc = "upgrade"].pc # "auth" /\ [a EXCEPT !.pc = "limit"].pc # "auth"
        /\ [b EXCEPT !.pc = "limit"].pc # "auth" /\ Closed(b).pc # "auth"
    BY <1>2, <1>4, <2>2
  <2>5. Closed([a EXCEPT !.said = 2]).pc # "auth"
    <3>1. PICK n \in -1..3 : n = 2
      OBVIOUS
    <3> QED
      BY <1>2, <1>3, <2>2, <3>1, Zenon
  <2> QED
    BY <2>3, <2>4, <2>5, Zenon
<1> QED
  BY <1>6, <1>7, <1>8, <1>9, <1>10, <1>11

\* A step through allowed: the host's count is below the limit, or its entry is gone.
LEMMA AllowedGuesses ==
    ASSUME HandshakeInv, LimiterInv, NEW c \in DOMAIN Sent, CheckLimiter(c), Allowed(HostOf[c])
    PROVE  GuessesBounded'
<1>1. c \in Conns /\ HostOf[c] \in Hosts /\ DOMAIN state = Conns /\ state[c] \in ConnType
  BY PacketTypes, HandshakeAssumption DEF HandshakeInv
<1>2. PICK h : h = HostOf[c]
  OBVIOUS
<1>3. TableInv /\ NoStaleCount /\ \A k \in DOMAIN attempts : HostBounded(k)
  BY TableNotStale, GuessesByHost DEF LimiterInv
<1>4. \A d \in Conns : d # c => state'[d] = state[d]
  BY <1>1 DEF CheckLimiter, Become
<1>5. \/ attempts' = attempts /\ ~(Known(h) /\ WindowOver(h))
      \/ attempts' = [k \in DOMAIN attempts \ {h} |-> attempts[k]]
  BY <1>2 DEF Allowed, Without, Restrict
<1>6. ASSUME NEW k \in DOMAIN attempts', k # h PROVE HostBounded(k)'
  <2>1. k \in DOMAIN attempts /\ attempts'[k] = attempts[k]
    BY <1>5, <1>6
  <2>2. Guessing(k)' \subseteq Guessing(k)
    BY <1>2, <1>4, <1>6 DEF Guessing, Mine, At
  <2> QED
    BY <1>3, <2>1, <2>2, HostKeeps
<1>7. ASSUME h \in DOMAIN attempts' PROVE HostBounded(h)'
  <2>1. attempts' = attempts /\ h \in DOMAIN attempts /\ ~WindowOver(h)
    BY <1>5, <1>7 DEF Known
  <2>2. ~Blocked(h)
    BY <1>2 DEF Allowed
  <2>3. attempts[h].failures \in Nat /\ ~(attempts[h].failures >= MaxFailures)
    BY <1>3, <2>1, <2>2 DEF NoStaleCount, TableInv, LimiterTypes, LimiterEntry
  <2>4. Mine(h)' = Mine(h) /\ Guessing(h)' \in SUBSET Mine(h)
    BY DEF Mine, Guessing
  <2>5. PICK a, n : a = Cardinality(Guessing(h)') /\ n = Cardinality(Mine(h))
    OBVIOUS
  <2>6. a \in Nat /\ n \in Nat /\ a <= n
    BY <2>4, <2>5, CountMine
  <2>7. attempts[h].failures + a <= MaxFailures - 1 + n
    BY <2>3, <2>6, LimiterAssumption
  <2> QED
    BY <2>1, <2>4, <2>5, <2>7 DEF HostBounded
<1> QED
  BY <1>6, <1>7, GuessesByHost

\* A failure counts one more and ends one handler that was past allowed.
LEMMA FailureGuesses ==
    ASSUME HandshakeInv, LimiterInv, NEW c \in DOMAIN Sent, Authenticate(c), Failure(HostOf[c])
    PROVE  GuessesBounded'
<1>1. c \in Conns /\ HostOf[c] \in Hosts
  BY PacketTypes, HandshakeAssumption
<1>2. PICK h \in Hosts : h = HostOf[c]
  BY <1>1
<1>3. TableInv /\ \A k \in DOMAIN attempts : HostBounded(k)
  BY GuessesByHost DEF LimiterInv
<1>4. PICK s : Become(c, s) /\ s.pc # "auth"
  BY HandlerMoves
<1>5. \A k : Guessing(k)' \subseteq Guessing(k) /\ c \notin Guessing(k)'
  BY <1>1, <1>4, NoNewGuess
<1>6. /\ DOMAIN attempts' \subseteq DOMAIN attempts \cup {h}
      /\ attempts' = [k \in DOMAIN attempts' |-> IF k = h THEN Failed(h) ELSE attempts[k]]
  BY <1>2, <1>3, FailureEffect
<1>7. ASSUME NEW k \in DOMAIN attempts', k # h PROVE HostBounded(k)'
  <2>1. k \in DOMAIN attempts /\ attempts'[k] = attempts[k]
    BY <1>6, <1>7
  <2> QED
    BY <1>3, <1>5, <2>1, HostKeeps
<1>8. ASSUME h \in DOMAIN attempts' PROVE HostBounded(h)'
  <2>1. c \in Guessing(h) /\ Guessing(h) \in SUBSET Mine(h) /\ Mine(h)' = Mine(h)
    BY <1>1, <1>2 DEF Guessing, Mine, Authenticate
  <2>2. Guessing(h)' \in SUBSET (Guessing(h) \ {c}) /\ Guessing(h) \ {c} \in SUBSET Mine(h)
    BY <1>5, <2>1
  <2>3. PICK a, b, n : a = Cardinality(Guessing(h)') /\ b = Cardinality(Guessing(h)) /\ n = Cardinality(Mine(h))
    OBVIOUS
  <2>4. a \in Nat /\ b \in Nat /\ n \in Nat /\ a <= b - 1 /\ b <= n
    <3>1. Cardinality(Guessing(h) \ {c}) = b - 1
      BY <2>1, <2>3, CountMine
    <3>2. a <= Cardinality(Guessing(h) \ {c})
      BY <2>2, <2>3, CountMine
    <3>3. Guessing(h)' \in SUBSET Mine(h)
      BY <2>2
    <3>4. a \in Nat /\ b \in Nat /\ n \in Nat /\ b <= n
      BY <2>1, <2>3, <3>3, CountMine
    <3> QED
      BY <3>1, <3>2, <3>4
  <2>5. attempts'[h].failures = IF Known(h) /\ ~WindowOver(h) THEN attempts[h].failures + 1 ELSE 1
    BY <1>3, <1>6, <1>8, FailedEntry
  <2>6. CASE Known(h) /\ ~WindowOver(h)
    <3>1. h \in DOMAIN attempts /\ attempts[h].failures \in Nat
      BY <1>3, <2>6 DEF Known, TableInv, LimiterTypes, LimiterEntry
    <3>2. attempts[h].failures + b <= MaxFailures - 1 + n
      BY <1>3, <2>3, <3>1 DEF HostBounded
    <3>3. attempts'[h].failures + a <= MaxFailures - 1 + n
      BY <2>4, <2>5, <2>6, <3>1, <3>2, LimiterAssumption
    <3> QED
      BY <2>1, <2>3, <3>3 DEF HostBounded
  <2>7. CASE ~(Known(h) /\ ~WindowOver(h))
    <3>1. attempts'[h].failures + a <= MaxFailures - 1 + n
      BY <2>4, <2>5, <2>7, LimiterAssumption
    <3> QED
      BY <2>1, <2>3, <3>1 DEF HostBounded
  <2> QED
    BY <2>6, <2>7
<1> QED
  BY <1>7, <1>8, GuessesByHost

\* A step that counts no failure and lets nobody through to the password check.
LEMMA OtherGuesses ==
    ASSUME LimiterInv, \A h : Guessing(h)' \subseteq Guessing(h),
           \A h \in DOMAIN attempts' : h \in DOMAIN attempts /\ attempts'[h].failures = attempts[h].failures
    PROVE  GuessesBounded'
<1>1. TableInv /\ \A k \in DOMAIN attempts : HostBounded(k)
  BY GuessesByHost DEF LimiterInv
<1>2. ASSUME NEW h \in DOMAIN attempts' PROVE HostBounded(h)'
  BY <1>1, HostKeeps
<1> QED
  BY <1>2, GuessesByHost

\* The inductive step of the limiter.
LEMMA NextLimiter == HandshakeInv /\ LimiterInv /\ [Next]_vars => LimiterInv'
<1> SUFFICES ASSUME HandshakeInv, LimiterInv, [Next]_vars PROVE LimiterInv'
  OBVIOUS
<1>1. TableInv'
  BY NextTable DEF LimiterInv
<1>2. CASE UNCHANGED <<attempts, state>>
  <2>1. \A h : Guessing(h)' \subseteq Guessing(h)
    BY <1>2 DEF Guessing, Mine, At
  <2> QED
    BY <1>1, <1>2, <2>1, OtherGuesses DEF LimiterInv
<1>3. ASSUME NEW c \in DOMAIN Sent,
             \/ Connect(c) \/ Greet(c) \/ UpgradeTLS(c) \/ WriteOK(c) \/ Disconnect(c) \/ EndCommands(c)
             \/ \E x \in Sent[c] : FirstResponse(c, x) \/ SecondResponse(c, x)
      PROVE  GuessesBounded'
  <2>1. attempts' = attempts
    BY <1>3, Zenon DEF Connect, Greet, UpgradeTLS, WriteOK, Disconnect, EndCommands, FirstResponse, SecondResponse, limiter
  <2>2. PICK s : Become(c, s) /\ s.pc # "auth"
    BY <1>3, HandlerMoves
  <2>3. \A h : Guessing(h)' \subseteq Guessing(h)
    BY <2>2, NoNewGuess, PacketTypes
  <2> QED
    BY <2>1, <2>3, OtherGuesses
<1>4. ASSUME NEW c \in DOMAIN Sent, CheckLimiter(c) PROVE GuessesBounded'
  <2>1. CASE Allowed(HostOf[c])
    BY <1>4, <2>1, AllowedGuesses
  <2>2. CASE ~Allowed(HostOf[c])
    <3>1. PICK s : Become(c, s) /\ s.pc # "auth"
      BY <1>4, <2>2, HandlerMoves
    <3>2. \A h : Guessing(h)' \subseteq Guessing(h)
      BY <3>1, NoNewGuess, PacketTypes
    <3>3. PICK k : k = HostOf[c]
      OBVIOUS
    <3>4. attempts' = [attempts EXCEPT ![k].lastSeen = now] /\ k \in DOMAIN attempts
      BY <1>4, <2>2, <3>3 DEF CheckLimiter, Refused, Blocked, Known
    <3>5. \A h \in DOMAIN attempts : attempts[h] \in LimiterEntry
      BY DEF LimiterInv, TableInv, LimiterTypes
    <3>6. \A h \in DOMAIN attempts' : h \in DOMAIN attempts /\ attempts'[h].failures = attempts[h].failures
      BY <3>4, <3>5 DEF LimiterEntry
    <3> QED
      BY <3>2, <3>6, OtherGuesses
  <2> QED
    BY <2>1, <2>2
<1>5. ASSUME NEW c \in DOMAIN Sent, Authenticate(c) PROVE GuessesBounded'
  <2>1. CASE Failure(HostOf[c])
    BY <1>5, <2>1, FailureGuesses
  <2>2. CASE Success(HostOf[c])
    <3>1. PICK s : Become(c, s) /\ s.pc # "auth"
      BY <1>5, HandlerMoves
    <3>2. \A h : Guessing(h)' \subseteq Guessing(h)
      BY <3>1, NoNewGuess, PacketTypes
    <3>3. \A h \in DOMAIN attempts' : h \in DOMAIN attempts /\ attempts'[h].failures = attempts[h].failures
      BY <2>2 DEF Success, Without, Restrict
    <3> QED
      BY <3>2, <3>3, OtherGuesses
  <2> QED
    BY <1>5, <2>1, <2>2 DEF Authenticate
<1>6. CASE Tick /\ UNCHANGED <<scenario, state>>
  BY <1>2, <1>6 DEF Tick
<1>7. CASE UNCHANGED vars
  BY <1>2, <1>7 DEF vars, limiter
<1>8. CASE Next
  <2>1. CASE \E c \in DOMAIN Sent : CheckLimiter(c) \/ Authenticate(c)
    BY <1>1, <1>4, <1>5, <2>1 DEF LimiterInv
  <2>2. CASE \E c \in DOMAIN Sent :
             \/ Connect(c) \/ Greet(c) \/ UpgradeTLS(c) \/ WriteOK(c) \/ Disconnect(c) \/ EndCommands(c)
             \/ \E x \in Sent[c] : FirstResponse(c, x) \/ SecondResponse(c, x)
    BY <1>1, <1>3, <2>2 DEF LimiterInv
  <2> QED
    BY <1>6, <1>8, <2>1, <2>2 DEF Next
<1> QED
  BY <1>7, <1>8

\* An empty table.
LEMMA InitLimiter == Init => LimiterInv
<1> SUFFICES ASSUME Init PROVE LimiterInv
  OBVIOUS
<1>1. DOMAIN attempts = {} /\ attempts = [h \in {} |-> 0] /\ now = 1 /\ lastFailure = [h \in Hosts |-> 0]
  BY DEF Init, LimiterInit
<1>2. IsFiniteSet({}) /\ Cardinality({}) = 0
  BY FS_EmptySet
<1>3. LimiterTypes
  BY <1>1, <1>2, LimiterAssumption DEF LimiterTypes
<1>4. TableBounded /\ LockoutEnds /\ LockedPastWindow /\ GuessesBounded
  BY <1>1, <1>2, LimiterAssumption DEF TableBounded, LockoutEnds, LockedPastWindow, GuessesBounded
<1> QED
  BY <1>3, <1>4 DEF LimiterInv, TableInv

\* The table of authLimiter never outgrows maxEntries, a lockout ends Lockout after
\* the last failure and leaves no count behind, and a host gets no more wrong
\* guesses than maxFailures and the connections it had past allowed, although
\* allowed and failure are two critical sections.
THEOREM LimiterSoundHolds == Spec => []LimiterSound
<1>1. LimiterInv => LimiterSound
  BY TableNotStale DEF LimiterInv, TableInv, LimiterSound
<1> QED
  BY <1>1, InitHandshake, InitLimiter, NextHandshake, NextLimiter, PTL DEF Spec

-----------------------------------------------------------------------------
(* The login endpoint.                                                     *)
LoginEntry == [count : Nat \ {0}, since : Nat \ {0}]
LoginRequest == [pc : {"idle", "limit", "decode", "record"}, client : Clients \cup {Overflow}, at : Nat]

LoginTypes ==
    /\ clock \in 1..MaxLoginTime
    /\ DOMAIN failures \subseteq Clients \cup {Overflow} /\ IsFiniteSet(DOMAIN failures)
    /\ failures \in [DOMAIN failures -> LoginEntry]
    /\ \A k \in DOMAIN failures : failures[k].since <= clock
    /\ req \in [Requests -> LoginRequest]
    /\ \A r \in Requests : /\ req[r].at <= clock /\ (req[r].pc \in {"limit", "record"} => req[r].at > 0)
                           /\ req[r].pc # "idle" => req[r].client \in Clients

\* The requests of a client that are past rateLimited, and what LoginGuessesBounded
\* says of one client.
Trying(c) == {r \in Requests : req[r].client = c /\ req[r].pc \in {"decode", "record"}}
ClientBounded(c) == failures[c].count + Cardinality(Trying(c)) <= MaxLoginFailures - 1 + Cardinality(Requests)

\* The shared entry apart, the table holds at most maxLoginFailureClients clients.
LoginInv ==
    /\ LoginTypes
    /\ Cardinality(DOMAIN failures \ {Overflow}) <= MaxClients
    /\ \A c \in DOMAIN failures \ {Overflow} : ClientBounded(c)

\* The endpoint counts with the same cardinality.
LEMMA LoginSize == ASSUME NEW S PROVE L!Cardinality(S) = Cardinality(S)
BY DEF L!Cardinality, Cardinality

\* failureKeyLocked: what it leaves of the table is part of it, and a client that
\* gets an entry of its own has one already or finds room for it.
LEMMA FailureKeyFacts ==
    ASSUME LoginInv, NEW c \in Clients, NEW t
    PROVE  LET f == L!Swept(c, t)
               k == L!FailureKey(c, t) IN
           /\ DOMAIN f \subseteq DOMAIN failures /\ f = [j \in DOMAIN f |-> failures[j]]
           /\ k \in {c, Overflow}
           /\ c \in DOMAIN failures => k = c /\ f = failures
           /\ k = c /\ c \notin DOMAIN failures => Cardinality(DOMAIN f) < MaxClients
<1>1. PICK f, k : f = L!Swept(c, t) /\ k = L!FailureKey(c, t)
  OBVIOUS
<1>2. failures = [j \in DOMAIN failures |-> failures[j]]
  BY DEF LoginInv, LoginTypes
<1>3. \/ f = failures
      \/ c \notin DOMAIN failures /\ \E D \in SUBSET DOMAIN failures : f = [j \in D |-> failures[j]]
  <2>1. \/ f = failures
        \/ /\ c \notin DOMAIN failures
           /\ f = L!Without(failures, {j \in DOMAIN failures : t - failures[j].since >= Minute})
    BY <1>1 DEF L!Swept
  <2>2. ASSUME NEW S PROVE L!Without(failures, S) = [j \in DOMAIN failures \ S |-> failures[j]]
    BY DEF L!Without, L!Restrict
  <2>3. ASSUME NEW S PROVE DOMAIN failures \ S \in SUBSET DOMAIN failures
    OBVIOUS
  <2> QED
    BY <2>1, <2>2, <2>3, Zenon
<1>4. DOMAIN f \subseteq DOMAIN failures /\ f = [j \in DOMAIN f |-> failures[j]]
  BY <1>2, <1>3
<1>5. k \in {c, Overflow}
  BY <1>1 DEF L!FailureKey
<1>6. c \in DOMAIN failures => k = c /\ f = failures
  BY <1>1 DEF L!FailureKey, L!Swept
<1>7. ASSUME k = c, c \notin DOMAIN failures PROVE Cardinality(DOMAIN f) < MaxClients
  <2>1. IsFiniteSet(DOMAIN f)
    BY <1>4, FS_Subset DEF LoginInv, LoginTypes
  <2>2. Cardinality(DOMAIN f) \in Nat /\ Cardinality(DOMAIN failures) \in Nat /\ MaxClients \in Nat
    BY <2>1, FS_CardinalityType, AdminAssumption DEF LoginInv, LoginTypes
  <2>3. CASE L!Cardinality(DOMAIN failures) < MaxClients - 1
    <3>1. f = failures
      BY <1>1, <2>3 DEF L!Swept
    <3>2. Cardinality(DOMAIN failures) < MaxClients - 1
      BY <2>3, LoginSize
    <3> QED
      BY <2>2, <3>1, <3>2
  <2>4. CASE ~(L!Cardinality(DOMAIN failures) < MaxClients - 1)
    <3>1. ~(L!Cardinality(DOMAIN f) >= MaxClients)
      BY <1>1, <1>7, <2>4, AdminAssumption DEF L!FailureKey
    <3>2. ~(Cardinality(DOMAIN f) >= MaxClients)
      BY <3>1, LoginSize
    <3> QED
      BY <2>2, <3>2
  <2> QED
    BY <2>3, <2>4
<1> QED
  BY <1>1, <1>4, <1>5, <1>6, <1>7

\* A part of the table, with no request gone past rateLimited of a client whose
\* count has reached the limit.
LEMMA LoginShrinks ==
    ASSUME LoginInv, LoginTypes', DOMAIN failures' \subseteq DOMAIN failures,
           \A c \in DOMAIN failures' : failures'[c] = failures[c],
           \A c \in DOMAIN failures' \ {Overflow} :
              Trying(c)' \subseteq Trying(c) \/ failures[c].count <= MaxLoginFailures - 1
    PROVE  LoginInv'
<1>1. IsFiniteSet(DOMAIN failures \ {Overflow}) /\ IsFiniteSet(Requests)
  BY FS_Subset, AdminAssumption DEF LoginInv, LoginTypes
<1>2. Cardinality(DOMAIN failures' \ {Overflow}) <= MaxClients
  <2>1. DOMAIN failures' \ {Overflow} \in SUBSET (DOMAIN failures \ {Overflow})
    OBVIOUS
  <2>2. Cardinality(DOMAIN failures' \ {Overflow}) <= Cardinality(DOMAIN failures \ {Overflow})
    BY <1>1, <2>1, FS_Subset
  <2>3. IsFiniteSet(DOMAIN failures' \ {Overflow})
    BY <1>1, <2>1, FS_Subset
  <2>4. /\ Cardinality(DOMAIN failures' \ {Overflow}) \in Nat /\ Cardinality(DOMAIN failures \ {Overflow}) \in Nat
        /\ MaxClients \in Nat
    BY <1>1, <2>3, FS_CardinalityType, AdminAssumption
  <2> QED
    BY <2>2, <2>4 DEF LoginInv
<1>3. ASSUME NEW c \in DOMAIN failures' \ {Overflow} PROVE ClientBounded(c)'
  <2>1. c \in DOMAIN failures \ {Overflow} /\ failures'[c] = failures[c]
    BY <1>3
  <2>2. Trying(c) \in SUBSET Requests /\ Trying(c)' \in SUBSET Requests
    BY DEF Trying
  <2>3. PICK a, b, n : a = Cardinality(Trying(c)') /\ b = Cardinality(Trying(c)) /\ n = Cardinality(Requests)
    OBVIOUS
  <2>4. a <= n /\ a \in Nat /\ b \in Nat /\ n \in Nat /\ IsFiniteSet(Trying(c))
    <3>1. IsFiniteSet(Trying(c)') /\ Cardinality(Trying(c)') <= Cardinality(Requests) /\ IsFiniteSet(Trying(c))
      BY <1>1, <2>2, FS_Subset
    <3> QED
      BY <1>1, <2>3, <3>1, FS_CardinalityType
  <2>5. failures[c].count \in Nat /\ failures[c].count + b <= MaxLoginFailures - 1 + n
    BY <2>1, <2>3 DEF LoginInv, ClientBounded, LoginTypes, LoginEntry
  <2>6. failures[c].count + a <= MaxLoginFailures - 1 + n
    <3>1. CASE Trying(c)' \subseteq Trying(c)
      <4>1. a <= b
        BY <2>3, <2>4, <3>1, FS_Subset
      <4> QED
        BY <2>4, <2>5, <4>1, AdminAssumption
    <3>2. CASE failures[c].count <= MaxLoginFailures - 1
      BY <2>4, <2>5, <3>2, AdminAssumption
    <3> QED
      BY <2>1, <3>1, <3>2
  <2> QED
    BY <2>1, <2>3, <2>6 DEF ClientBounded
<1> QED
  BY <1>2, <1>3 DEF LoginInv

\* The state of a request that goes on, or is answered.
LEMMA RequestMoves ==
    ASSUME LoginInv, NEW r \in Requests, NEW q \in LoginRequest, req' = [req EXCEPT ![r] = q]
    PROVE  /\ req' \in [Requests -> LoginRequest] /\ req'[r] = q
           /\ \A o \in Requests : o # r => req'[o] = req[o]
           /\ \A c : (q.client # c \/ q.pc \notin {"decode", "record"} \/ r \in Trying(c)) => Trying(c)' \subseteq Trying(c)
           /\ \A c : q.pc \notin {"decode", "record"} => r \notin Trying(c)'
<1>1. /\ req' \in [Requests -> LoginRequest] /\ req'[r] = q
      /\ \A o \in Requests : o # r => req'[o] = req[o]
  <2>1. req \in [Requests -> LoginRequest]
    BY DEF LoginInv, LoginTypes
  <2> QED
    BY <2>1
<1>2. ASSUME NEW c, q.client # c \/ q.pc \notin {"decode", "record"} \/ r \in Trying(c)
      PROVE  Trying(c)' \subseteq Trying(c)
  <2>1. ASSUME NEW o \in Requests, req'[o].client = c, req'[o].pc \in {"decode", "record"} PROVE o \in Trying(c)
    <3>1. CASE o = r
      BY <1>1, <1>2, <2>1, <3>1
    <3>2. CASE o # r
      BY <1>1, <2>1, <3>2 DEF Trying
    <3> QED
      BY <3>1, <3>2
  <2> QED
    BY <2>1 DEF Trying
<1>3. ASSUME NEW c, q.pc \notin {"decode", "record"} PROVE r \notin Trying(c)'
  BY <1>1, <1>3 DEF Trying
<1> QED
  BY <1>1, <1>2, <1>3

\* The types after a request has gone on.
LEMMA RequestTypes ==
    ASSUME LoginInv, NEW r \in Requests, NEW q \in LoginRequest, req' = [req EXCEPT ![r] = q], clock' = clock,
           q.at <= clock, q.pc \in {"limit", "record"} => q.at > 0, q.pc # "idle" => q.client \in Clients,
           DOMAIN failures' \subseteq Clients \cup {Overflow}, IsFiniteSet(DOMAIN failures'),
           failures' \in [DOMAIN failures' -> LoginEntry], \A k \in DOMAIN failures' : failures'[k].since <= clock
    PROVE  LoginTypes'
<1>1. /\ req' \in [Requests -> LoginRequest] /\ req'[r] = q
      /\ \A o \in Requests : o # r => req'[o] = req[o]
  BY RequestMoves, Zenon
<1>2. ASSUME NEW o \in Requests
      PROVE  /\ req'[o].at <= clock /\ (req'[o].pc \in {"limit", "record"} => req'[o].at > 0)
             /\ req'[o].pc # "idle" => req'[o].client \in Clients
  <2>1. CASE o = r
    BY <1>1, <2>1
  <2>2. CASE o # r
    <3>1. /\ req[o].at <= clock /\ (req[o].pc \in {"limit", "record"} => req[o].at > 0)
          /\ req[o].pc # "idle" => req[o].client \in Clients
      BY DEF LoginInv, LoginTypes
    <3> QED
      BY <1>1, <2>2, <3>1
  <2> QED
    BY <2>1, <2>2
<1>3. clock' \in 1..MaxLoginTime
  BY DEF LoginInv, LoginTypes
<1> QED
  BY <1>1, <1>2, <1>3 DEF LoginTypes

\* A request goes on, or is answered, and the table loses entries or none.
LEMMA RequestShrinks ==
    ASSUME LoginInv, NEW r \in Requests, NEW q \in LoginRequest, req' = [req EXCEPT ![r] = q], clock' = clock,
           q.at <= clock, q.pc \in {"limit", "record"} => q.at > 0, q.pc # "idle" => q.client \in Clients,
           DOMAIN failures' \subseteq DOMAIN failures, failures' = [j \in DOMAIN failures' |-> failures[j]],
           \/ q.pc \notin {"decode", "record"} \/ q.client \notin DOMAIN failures'
           \/ r \in Trying(q.client) \/ failures[q.client].count <= MaxLoginFailures - 1
    PROVE  LoginInv'
<1>0. /\ DOMAIN failures \subseteq Clients \cup {Overflow} /\ IsFiniteSet(DOMAIN failures)
      /\ failures \in [DOMAIN failures -> LoginEntry] /\ \A k \in DOMAIN failures : failures[k].since <= clock
  BY DEF LoginInv, LoginTypes
<1>1. \A k \in DOMAIN failures' : k \in DOMAIN failures /\ failures'[k] = failures[k]
  OBVIOUS
<1>2. /\ DOMAIN failures' \subseteq Clients \cup {Overflow} /\ IsFiniteSet(DOMAIN failures')
      /\ failures' \in [DOMAIN failures' -> LoginEntry] /\ \A k \in DOMAIN failures' : failures'[k].since <= clock
  <2>1. DOMAIN failures' \subseteq Clients \cup {Overflow} /\ IsFiniteSet(DOMAIN failures')
    BY <1>0, FS_Subset
  <2>2. failures' \in [DOMAIN failures' -> LoginEntry] /\ \A k \in DOMAIN failures' : failures'[k].since <= clock
    BY <1>0, <1>1
  <2> QED
    BY <2>1, <2>2
<1>3. LoginTypes'
  BY <1>2, RequestTypes, Zenon
<1>4. \A c \in DOMAIN failures' \ {Overflow} :
         Trying(c)' \subseteq Trying(c) \/ failures[c].count <= MaxLoginFailures - 1
  <2>1. \A c : (q.client # c \/ q.pc \notin {"decode", "record"} \/ r \in Trying(c)) => Trying(c)' \subseteq Trying(c)
    BY RequestMoves, Zenon
  <2> QED
    BY <2>1, Zenon
<1> QED
  BY <1>1, <1>3, <1>4, LoginShrinks

\* What is known of one request.
LEMMA RequestFacts ==
    ASSUME LoginInv, NEW r \in Requests
    PROVE  /\ req[r] \in LoginRequest /\ req[r].at <= clock /\ clock \in Nat \ {0}
           /\ req[r].pc \in {"limit", "record"} => req[r].at > 0
           /\ req[r].pc # "idle" => req[r].client \in Clients
BY DEF LoginInv, LoginTypes

\* The steps of a request that leave the table alone, and the clock.
LEMMA RequestKeeps ==
    ASSUME LoginInv,
           \/ L!Tick \/ UNCHANGED admin
           \/ \E r \in Requests : (\E c \in Clients : L!Arrive(r, c)) \/ L!BadRequest(r) \/ L!WrongToken(r)
    PROVE  LoginInv' /\ failures' = failures
<1>0. clock \in Nat \ {0} /\ failures = [j \in DOMAIN failures |-> failures[j]]
  BY DEF LoginInv, LoginTypes
<1>1. CASE L!Tick
  <2>1. clock' = clock + 1 /\ clock < MaxLoginTime /\ failures' = failures /\ req' = req
    BY <1>1 DEF L!Tick
  <2>2. LoginTypes'
    BY <2>1, AdminAssumption DEF LoginInv, LoginTypes, LoginEntry, LoginRequest
  <2> QED
    BY <2>1, <2>2 DEF LoginInv, ClientBounded, Trying
<1>2. CASE UNCHANGED admin
  BY <1>2 DEF admin, LoginInv, LoginTypes, ClientBounded, Trying
<1>4. ASSUME NEW r \in Requests, NEW c \in Clients, L!Arrive(r, c) PROVE LoginInv' /\ failures' = failures
  <2>1. PICK q : q = [pc |-> "limit", client |-> c, at |-> clock]
    BY Zenon
  <2>2. q \in LoginRequest /\ q.pc = "limit" /\ q.at = clock /\ q.client = c
    BY <1>0, <2>1 DEF LoginRequest
  <2>3. req' = [req EXCEPT ![r] = q] /\ failures' = failures /\ clock' = clock
    BY <1>4, <2>1 DEF L!Arrive
  <2>4. q.at <= clock /\ q.at > 0 /\ q.client \in Clients /\ q.pc \notin {"decode", "record"}
    BY <1>0, <2>2
  <2> QED
    BY <1>0, <2>2, <2>3, <2>4, RequestShrinks, Zenon
<1>5. ASSUME NEW r \in Requests, L!BadRequest(r) PROVE LoginInv' /\ failures' = failures
  <2>1. PICK q : q = L!Idle
    OBVIOUS
  <2>2. q \in LoginRequest /\ q.pc = "idle" /\ q.at = 0
    BY <2>1 DEF L!Idle, LoginRequest
  <2>3. req' = [req EXCEPT ![r] = q] /\ failures' = failures /\ clock' = clock
    BY <1>5, <2>1 DEF L!BadRequest, L!Finish
  <2>4. q.at <= clock /\ q.pc \notin {"limit", "decode", "record"}
    BY <1>0, <2>2
  <2> QED
    BY <1>0, <2>2, <2>3, <2>4, RequestShrinks, Zenon
<1>6. ASSUME NEW r \in Requests, L!WrongToken(r) PROVE LoginInv' /\ failures' = failures
  <2>1. PICK b : b = req[r]
    OBVIOUS
  <2>2. b \in LoginRequest /\ b.pc = "decode" /\ b.client \in Clients
    BY <1>6, <2>1, RequestFacts DEF L!WrongToken, L!At
  <2>3. PICK q : q = [b EXCEPT !.pc = "record", !.at = clock]
    OBVIOUS
  <2>4. q \in LoginRequest /\ q.pc = "record" /\ q.at = clock /\ q.client = b.client
    BY <1>0, <2>2, <2>3, Zenon DEF LoginRequest
  <2>5. req' = [req EXCEPT ![r] = q] /\ failures' = failures /\ clock' = clock
    BY <1>6, <2>1, <2>3, Zenon DEF L!WrongToken, L!Goto
  <2>6. r \in Trying(q.client)
    BY <2>1, <2>2, <2>4 DEF Trying
  <2>7. q.at <= clock /\ q.at > 0 /\ q.client \in Clients
    BY <1>0, <2>2, <2>4
  <2> QED
    BY <1>0, <2>4, <2>5, <2>6, <2>7, RequestShrinks, Zenon
<1> QED
  BY <1>1, <1>2, <1>4, <1>5, <1>6

\* What a part of the table keeps of an entry.
LEMMA EntryOf ==
    ASSUME LoginInv, NEW f, DOMAIN f \subseteq DOMAIN failures, f = [j \in DOMAIN f |-> failures[j]], NEW k
    PROVE  /\ k \in DOMAIN f => L!Entry(f, k) = failures[k] /\ failures[k] \in LoginEntry /\ failures[k].since <= clock
           /\ k \notin DOMAIN f => L!Entry(f, k).since = -Minute
           /\ L!Without(f, {k}) = [j \in DOMAIN f \ {k} |-> failures[j]]
<1>1. \A j \in DOMAIN failures : failures[j] \in LoginEntry /\ failures[j].since <= clock
  BY DEF LoginInv, LoginTypes
<1>2. k \in DOMAIN f => L!Entry(f, k) = failures[k]
  BY DEF L!Entry
<1>3. k \notin DOMAIN f => L!Entry(f, k).since = -Minute
  BY DEF L!Entry
<1>4. L!Without(f, {k}) = [j \in DOMAIN f \ {k} |-> failures[j]]
  BY DEF L!Without, L!Restrict
<1> QED
  BY <1>1, <1>2, <1>3, <1>4

\* rateLimited lets a request on only when its client's count is below the limit
\* or its entry is gone.
LEMMA RateLimitedKeeps ==
    ASSUME LoginInv, NEW r \in Requests, L!RateLimited(r)
    PROVE  LoginInv' /\ \A k \in DOMAIN failures' : k \in DOMAIN failures /\ failures'[k] = failures[k]
<1>1. PICK b : b = req[r]
  OBVIOUS
<1>2. b \in LoginRequest /\ b.pc = "limit" /\ b.client \in Clients /\ b.at > 0 /\ b.at \in Nat /\ clock \in Nat
  <2>1. b \in LoginRequest /\ b.pc = "limit" /\ b.client \in Clients /\ b.at > 0 /\ clock \in Nat
    BY <1>1, RequestFacts DEF L!RateLimited, L!At
  <2> QED
    BY <2>1 DEF LoginRequest
<1>3. PICK f, k, e : f = L!Swept(b.client, b.at) /\ k = L!FailureKey(b.client, b.at) /\ e = L!Entry(f, k)
  OBVIOUS
<1>4. /\ failures' = IF b.at - e.since >= Minute THEN L!Without(f, {k}) ELSE f
      /\ IF ~(b.at - e.since >= Minute) /\ e.count >= MaxLoginFailures THEN L!Finish(r) ELSE L!Goto(r, "decode", 0)
      /\ clock' = clock
  BY <1>1, <1>3, Zenon DEF L!RateLimited
<1>5. /\ DOMAIN f \subseteq DOMAIN failures /\ f = [j \in DOMAIN f |-> failures[j]]
      /\ k \in {b.client, Overflow}
      /\ b.client \in DOMAIN failures => k = b.client /\ f = failures
  BY <1>2, <1>3, FailureKeyFacts
<1>6. /\ k \in DOMAIN f => e = failures[k] /\ failures[k] \in LoginEntry
      /\ k \notin DOMAIN f => e.since = -Minute
      /\ L!Without(f, {k}) = [j \in DOMAIN f \ {k} |-> failures[j]]
  <2>1. /\ k \in DOMAIN f => L!Entry(f, k) = failures[k] /\ failures[k] \in LoginEntry
        /\ k \notin DOMAIN f => L!Entry(f, k).since = -Minute
        /\ L!Without(f, {k}) = [j \in DOMAIN f \ {k} |-> failures[j]]
    BY <1>5, EntryOf, Zenon
  <2> QED
    BY <1>3, <2>1, Zenon
<1>7. DOMAIN failures' \subseteq DOMAIN failures /\ failures' = [j \in DOMAIN failures' |-> failures[j]]
  <2>1. CASE b.at - e.since >= Minute
    <3>1. failures' = [j \in DOMAIN f \ {k} |-> failures[j]]
      BY <1>4, <1>6, <2>1
    <3> QED
      BY <1>5, <3>1
  <2>2. CASE ~(b.at - e.since >= Minute)
    <3>1. failures' = f
      BY <1>4, <2>2
    <3> QED
      BY <1>5, <3>1, Zenon
  <2> QED
    BY <2>1, <2>2
<1>8. \A j \in DOMAIN failures' : j \in DOMAIN failures /\ failures'[j] = failures[j]
  BY <1>7
<1>9. CASE ~(b.at - e.since >= Minute) /\ e.count >= MaxLoginFailures
  <2>1. PICK q : q = L!Idle
    OBVIOUS
  <2>2. q \in LoginRequest /\ q.pc = "idle" /\ q.at = 0
    BY <2>1 DEF L!Idle, LoginRequest
  <2>3. req' = [req EXCEPT ![r] = q]
    BY <1>4, <1>9, <2>1 DEF L!Finish
  <2>4. q.at <= clock /\ q.pc \notin {"limit", "decode", "record"}
    BY <1>2, <2>2
  <2>5. LoginInv'
    BY <1>4, <1>7, <2>2, <2>3, <2>4, RequestShrinks, Zenon
  <2> QED
    BY <1>8, <2>5
<1>10. CASE ~(~(b.at - e.since >= Minute) /\ e.count >= MaxLoginFailures)
  <2>1. PICK q : q = [b EXCEPT !.pc = "decode", !.at = 0]
    OBVIOUS
  <2>2. q \in LoginRequest /\ q.pc = "decode" /\ q.at = 0 /\ q.client = b.client
    BY <1>2, <2>1, Zenon DEF LoginRequest
  <2>3. req' = [req EXCEPT ![r] = q]
    BY <1>1, <1>4, <1>10, <2>1, Zenon DEF L!Goto
  <2>4. q.at <= clock /\ q.pc \notin {"limit", "record"} /\ q.client \in Clients
    BY <1>2, <2>2
  <2>5. b.client \notin DOMAIN failures' \/ failures[b.client].count <= MaxLoginFailures - 1
    <3>1. CASE b.client \notin DOMAIN failures
      BY <1>7, <3>1
    <3>2. CASE b.client \in DOMAIN failures /\ b.at - e.since >= Minute
      BY <1>4, <1>5, <1>6, <3>2
    <3>3. CASE b.client \in DOMAIN failures /\ ~(b.at - e.since >= Minute)
      <4>1. e = failures[b.client] /\ e \in LoginEntry /\ ~(e.count >= MaxLoginFailures)
        BY <1>5, <1>6, <1>10, <3>3
      <4> QED
        BY <4>1, AdminAssumption DEF LoginEntry
    <3> QED
      BY <3>1, <3>2, <3>3
  <2>6. LoginInv'
    BY <1>4, <1>7, <2>2, <2>3, <2>4, <2>5, RequestShrinks, Zenon
  <2> QED
    BY <1>8, <2>6
<1> QED
  BY <1>9, <1>10

\* clearFailures drops the entry of the client that knew the token.
LEMMA RightTokenKeeps ==
    ASSUME LoginInv, NEW r \in Requests, L!RightToken(r)
    PROVE  LoginInv' /\ \A k \in DOMAIN failures' : k \in DOMAIN failures /\ failures'[k] = failures[k]
<1>1. PICK q : q = L!Idle
  OBVIOUS
<1>2. q \in LoginRequest /\ q.pc = "idle" /\ q.at = 0
  BY <1>1 DEF L!Idle, LoginRequest
<1>3. req' = [req EXCEPT ![r] = q] /\ clock' = clock /\ failures' = L!Without(failures, {req[r].client})
  BY <1>1 DEF L!RightToken, L!Finish
<1>4. q.at <= clock /\ q.pc \notin {"limit", "decode", "record"}
  BY <1>2, RequestFacts
<1>5. failures' = [j \in DOMAIN failures \ {req[r].client} |-> failures[j]]
  <2>1. failures = [j \in DOMAIN failures |-> failures[j]]
    BY DEF LoginInv, LoginTypes
  <2> QED
    BY <1>3, <2>1, EntryOf, Zenon
<1>6. DOMAIN failures' \subseteq DOMAIN failures /\ failures' = [j \in DOMAIN failures' |-> failures[j]]
  BY <1>5
<1>7. LoginInv'
  BY <1>2, <1>3, <1>4, <1>6, RequestShrinks, Zenon
<1> QED
  BY <1>6, <1>7

\* recordFailure adds one failure to the entry of the request's client, starts one
\* for it, or uses the shared one; a start moves only with a count that starts again.
LEMMA RecordFailureKeeps ==
    ASSUME LoginInv, NEW r \in Requests, L!RecordFailure(r)
    PROVE  /\ LoginInv'
           /\ \A k \in DOMAIN failures \cap DOMAIN failures' :
                 failures'[k].since # failures[k].since => failures'[k].count = 1
<1>1. PICK b : b = req[r]
  OBVIOUS
<1>2. /\ b \in LoginRequest /\ b.pc = "record" /\ b.client \in Clients /\ b.at > 0 /\ b.at \in Nat
      /\ b.at <= clock /\ clock \in Nat
  <2>1. b \in LoginRequest /\ b.pc = "record" /\ b.client \in Clients /\ b.at > 0 /\ b.at <= clock /\ clock \in Nat
    BY <1>1, RequestFacts DEF L!RecordFailure, L!At
  <2> QED
    BY <2>1 DEF LoginRequest
<1>3. PICK f, k, e : f = L!Swept(b.client, b.at) /\ k = L!FailureKey(b.client, b.at) /\ e = L!Entry(f, k)
  OBVIOUS
<1>4. PICK n : n = IF b.at - e.since >= Minute THEN [count |-> 1, since |-> b.at] ELSE [e EXCEPT !.count = @ + 1]
  BY Zenon
<1>5. failures' = L!Put(f, k, n) /\ L!Finish(r) /\ clock' = clock
  BY <1>1, <1>3, <1>4 DEF L!RecordFailure
<1>6. /\ DOMAIN f \subseteq DOMAIN failures /\ f = [j \in DOMAIN f |-> failures[j]]
      /\ k \in {b.client, Overflow}
      /\ b.client \in DOMAIN failures => k = b.client /\ f = failures
      /\ k = b.client /\ b.client \notin DOMAIN failures => Cardinality(DOMAIN f) < MaxClients
  BY <1>2, <1>3, FailureKeyFacts
<1>7. /\ k \in DOMAIN f => e = failures[k] /\ failures[k] \in LoginEntry /\ failures[k].since <= clock
      /\ k \notin DOMAIN f => e.since = -Minute
  <2>1. /\ k \in DOMAIN f => L!Entry(f, k) = failures[k] /\ failures[k] \in LoginEntry /\ failures[k].since <= clock
        /\ k \notin DOMAIN f => L!Entry(f, k).since = -Minute
    BY <1>6, EntryOf, Zenon
  <2> QED
    BY <1>3, <2>1, Zenon
<1>8. /\ n \in LoginEntry /\ n.since <= clock
      /\ n.count = 1 \/ (k \in DOMAIN f /\ n.count = failures[k].count + 1 /\ n.since = failures[k].since)
  <2>1. CASE b.at - e.since >= Minute
    BY <1>2, <1>4, <2>1 DEF LoginEntry
  <2>2. CASE ~(b.at - e.since >= Minute)
    <3>1. k \in DOMAIN f
      BY <1>2, <1>7, <2>2, AdminAssumption
    <3>2. e \in LoginEntry /\ e = failures[k] /\ e.since <= clock
      BY <1>7, <3>1
    <3>3. n = [e EXCEPT !.count = @ + 1]
      BY <1>4, <2>2
    <3>4. n \in LoginEntry /\ n.count = e.count + 1 /\ n.since = e.since
      BY <3>2, <3>3 DEF LoginEntry
    <3> QED
      BY <3>1, <3>2, <3>4
  <2> QED
    BY <2>1, <2>2
<1>9. /\ DOMAIN failures' = DOMAIN f \cup {k} /\ failures' = [j \in DOMAIN failures' |-> failures'[j]]
      /\ failures'[k] = n /\ \A j \in DOMAIN f : j # k => failures'[j] = failures[j]
  <2>1. failures' = [j \in DOMAIN f \cup {k} |-> IF j = k THEN n ELSE f[j]]
    BY <1>5 DEF L!Put
  <2>2. \A j \in DOMAIN f : f[j] = failures[j]
    BY <1>6
  <2> QED
    BY <2>1, <2>2
<1>10. PICK q : q = L!Idle
  OBVIOUS
<1>11. q \in LoginRequest /\ q.pc = "idle" /\ q.at = 0 /\ q.pc \notin {"limit", "decode", "record"} /\ q.at <= clock
  BY <1>2, <1>10 DEF L!Idle, LoginRequest
<1>12. req' = [req EXCEPT ![r] = q]
  BY <1>5, <1>10 DEF L!Finish
<1>13. /\ DOMAIN failures \subseteq Clients \cup {Overflow} /\ IsFiniteSet(DOMAIN failures)
       /\ failures \in [DOMAIN failures -> LoginEntry] /\ \A j \in DOMAIN failures : failures[j].since <= clock
  BY DEF LoginInv, LoginTypes
<1>14. LoginTypes'
  <2>1. DOMAIN failures' \subseteq Clients \cup {Overflow}
    BY <1>2, <1>6, <1>9, <1>13
  <2>2. IsFiniteSet(DOMAIN failures')
    <3>1. IsFiniteSet(DOMAIN f)
      BY <1>6, <1>13, FS_Subset
    <3> QED
      BY <1>9, <3>1, FS_AddElement
  <2>3. \A j \in DOMAIN failures' : failures'[j] \in LoginEntry /\ failures'[j].since <= clock
    BY <1>6, <1>8, <1>9, <1>13
  <2>4. failures' \in [DOMAIN failures' -> LoginEntry]
    BY <1>9, <2>3
  <2> QED
    BY <1>5, <1>11, <1>12, <2>1, <2>2, <2>3, <2>4, RequestTypes, Zenon
<1>15. Cardinality(DOMAIN failures' \ {Overflow}) <= MaxClients
  <2>1. /\ IsFiniteSet(DOMAIN f) /\ IsFiniteSet(DOMAIN failures \ {Overflow})
        /\ Cardinality(DOMAIN f) \in Nat /\ Cardinality(DOMAIN failures \ {Overflow}) \in Nat /\ MaxClients \in Nat
    <3>1. IsFiniteSet(DOMAIN f) /\ IsFiniteSet(DOMAIN failures \ {Overflow})
      BY <1>6, <1>13, FS_Subset
    <3> QED
      BY <3>1, FS_CardinalityType, AdminAssumption
  <2>2. Cardinality(DOMAIN failures \ {Overflow}) <= MaxClients
    BY DEF LoginInv
  <2>3. CASE k = b.client /\ b.client \notin DOMAIN failures
    <3>1. IsFiniteSet(DOMAIN failures') /\ Cardinality(DOMAIN failures') = Cardinality(DOMAIN f) + 1
      BY <1>6, <1>9, <2>1, <2>3, FS_AddElement
    <3>2. Cardinality(DOMAIN failures' \ {Overflow}) <= Cardinality(DOMAIN failures')
          /\ IsFiniteSet(DOMAIN failures' \ {Overflow})
      BY <3>1, FS_Subset
    <3>3. Cardinality(DOMAIN failures' \ {Overflow}) \in Nat
      BY <3>2, FS_CardinalityType
    <3> QED
      BY <1>6, <2>1, <2>3, <3>1, <3>2, <3>3
  <2>4. CASE ~(k = b.client /\ b.client \notin DOMAIN failures)
    <3>1. DOMAIN failures' \ {Overflow} \in SUBSET (DOMAIN failures \ {Overflow})
      BY <1>6, <1>9, <2>4
    <3>2. /\ Cardinality(DOMAIN failures' \ {Overflow}) <= Cardinality(DOMAIN failures \ {Overflow})
          /\ IsFiniteSet(DOMAIN failures' \ {Overflow})
      BY <2>1, <3>1, FS_Subset
    <3>3. Cardinality(DOMAIN failures' \ {Overflow}) \in Nat
      BY <3>2, FS_CardinalityType
    <3> QED
      BY <2>1, <2>2, <3>2, <3>3
  <2> QED
    BY <2>3, <2>4
<1>16. ASSUME NEW c \in DOMAIN failures' \ {Overflow} PROVE ClientBounded(c)'
  <2>1. IsFiniteSet(Requests) /\ Trying(c) \in SUBSET Requests /\ Trying(c)' \in SUBSET Requests
    BY AdminAssumption DEF Trying
  <2>2. Trying(c)' \subseteq Trying(c) /\ r \notin Trying(c)'
    BY <1>11, <1>12, RequestMoves, Zenon
  <2>3. PICK a, o, m : a = Cardinality(Trying(c)') /\ o = Cardinality(Trying(c)) /\ m = Cardinality(Requests)
    OBVIOUS
  <2>4. /\ IsFiniteSet(Trying(c)) /\ IsFiniteSet(Trying(c)') /\ IsFiniteSet(Trying(c)' \cup {r})
        /\ Cardinality(Trying(c)' \cup {r}) = a + 1 /\ a <= o /\ a \in Nat /\ o \in Nat /\ m \in Nat
    <3>1. IsFiniteSet(Trying(c)) /\ IsFiniteSet(Trying(c)')
      BY <2>1, FS_Subset
    <3>2. IsFiniteSet(Trying(c)' \cup {r}) /\ Cardinality(Trying(c)' \cup {r}) = a + 1
      BY <2>2, <2>3, <3>1, FS_AddElement
    <3>3. a <= o
      BY <2>2, <2>3, <3>1, FS_Subset
    <3> QED
      BY <2>1, <2>3, <3>1, <3>2, <3>3, FS_CardinalityType
  <2>5. a + 1 <= m
    <3>1. Trying(c)' \cup {r} \in SUBSET Requests
      BY <2>1
    <3> QED
      BY <2>1, <2>3, <2>4, <3>1, FS_Subset
  <2>6. CASE c = k /\ n.count = 1
    <3>1. failures'[c].count + a <= MaxLoginFailures - 1 + m
      BY <1>9, <2>4, <2>5, <2>6, AdminAssumption
    <3> QED
      BY <2>3, <3>1 DEF ClientBounded
  <2>7. CASE c = k /\ n.count # 1
    <3>1. c = b.client /\ c \in DOMAIN failures \ {Overflow} /\ failures'[c].count = failures[c].count + 1
      BY <1>6, <1>8, <1>9, <1>16, <2>7
    <3>2. r \in Trying(c)
      BY <1>1, <1>2, <3>1 DEF Trying
    <3>3. a + 1 <= o
      <4>1. Trying(c)' \cup {r} \in SUBSET Trying(c)
        BY <2>2, <3>2
      <4> QED
        BY <2>3, <2>4, <4>1, FS_Subset
    <3>4. failures[c].count \in Nat /\ failures[c].count + o <= MaxLoginFailures - 1 + m
      BY <2>3, <3>1 DEF LoginInv, ClientBounded, LoginTypes, LoginEntry
    <3>5. failures'[c].count + a <= MaxLoginFailures - 1 + m
      BY <2>4, <3>1, <3>3, <3>4, AdminAssumption
    <3> QED
      BY <2>3, <3>5 DEF ClientBounded
  <2>8. CASE c # k
    <3>1. c \in DOMAIN failures \ {Overflow} /\ failures'[c] = failures[c]
      BY <1>6, <1>9, <1>16, <2>8
    <3>2. failures[c].count \in Nat /\ failures[c].count + o <= MaxLoginFailures - 1 + m
      BY <2>3, <3>1 DEF LoginInv, ClientBounded, LoginTypes, LoginEntry
    <3>3. failures'[c].count + a <= MaxLoginFailures - 1 + m
      BY <2>4, <3>1, <3>2, AdminAssumption
    <3> QED
      BY <2>3, <3>3 DEF ClientBounded
  <2> QED
    BY <2>6, <2>7, <2>8
<1>17. ASSUME NEW c \in DOMAIN failures \cap DOMAIN failures', failures'[c].since # failures[c].since
       PROVE  failures'[c].count = 1
  BY <1>8, <1>9, <1>17
<1> QED
  BY <1>14, <1>15, <1>16, <1>17 DEF LoginInv

\* Every step of the endpoint keeps the invariant, and moves the start of a minute
\* only with a count that starts again.
LEMMA NextLogin ==
    LoginInv /\ [L!Next]_(L!vars) =>
        /\ LoginInv'
        /\ \A k \in DOMAIN failures \cap DOMAIN failures' :
              failures'[k].since # failures[k].since => failures'[k].count = 1
<1> SUFFICES ASSUME LoginInv, [L!Next]_(L!vars)
             PROVE  /\ LoginInv'
                    /\ \A k \in DOMAIN failures \cap DOMAIN failures' :
                          failures'[k].since # failures[k].since => failures'[k].count = 1
  OBVIOUS
<1>1. CASE \/ L!Tick \/ UNCHANGED admin
           \/ \E r \in Requests : (\E c \in Clients : L!Arrive(r, c)) \/ L!BadRequest(r) \/ L!WrongToken(r)
  <2>1. LoginInv' /\ failures' = failures
    BY <1>1, RequestKeeps
  <2> QED
    BY <2>1
<1>2. ASSUME NEW r \in Requests, L!RateLimited(r) \/ L!RightToken(r)
      PROVE  LoginInv' /\ \A k \in DOMAIN failures' : k \in DOMAIN failures /\ failures'[k] = failures[k]
  BY <1>2, RateLimitedKeeps, RightTokenKeeps
<1>3. CASE \E r \in Requests : L!RecordFailure(r)
  BY <1>3, RecordFailureKeeps
<1>4. \/ L!Tick \/ UNCHANGED admin
      \/ \E r \in Requests : (\E c \in Clients : L!Arrive(r, c)) \/ L!BadRequest(r) \/ L!WrongToken(r)
      \/ \E r \in Requests : L!RateLimited(r) \/ L!RightToken(r)
      \/ \E r \in Requests : L!RecordFailure(r)
  BY DEF L!Next, L!vars, admin
<1> QED
  BY <1>1, <1>2, <1>3, <1>4, Zenon

\* The endpoint starts with an empty table and no request.
LEMMA InitLogin == L!Init => LoginInv
<1> SUFFICES ASSUME L!Init PROVE LoginInv
  OBVIOUS
<1>1. DOMAIN failures = {} /\ failures = [k \in {} |-> 0] /\ clock = 1 /\ req = [r \in Requests |-> L!Idle]
  BY DEF L!Init
<1>2. L!Idle \in LoginRequest /\ L!Idle.pc = "idle" /\ L!Idle.at = 0
  BY DEF L!Idle, LoginRequest
<1>3. IsFiniteSet(DOMAIN failures) /\ Cardinality(DOMAIN failures \ {Overflow}) = 0
  <2>1. DOMAIN failures \ {Overflow} = {}
    BY <1>1
  <2> QED
    BY <1>1, <2>1, FS_EmptySet
<1>4. failures \in [DOMAIN failures -> LoginEntry]
  BY <1>1
<1>5. LoginTypes
  BY <1>1, <1>2, <1>3, <1>4, AdminAssumption DEF LoginTypes
<1> QED
  BY <1>1, <1>3, <1>5, AdminAssumption DEF LoginInv

\* What the endpoint promises of a state follows from the invariant: the shared
\* entry is the one that may come on top of maxLoginFailureClients.
LEMMA LoginInvSound == LoginInv => L!FailureTableBounded /\ L!LoginGuessesBounded
<1> SUFFICES ASSUME LoginInv PROVE L!FailureTableBounded /\ L!LoginGuessesBounded
  OBVIOUS
<1>1. L!FailureTableBounded
  <2>1. PICK D : D = DOMAIN failures \ {Overflow}
    BY Zenon
  <2>2. IsFiniteSet(D) /\ Cardinality(D) <= MaxClients /\ IsFiniteSet(DOMAIN failures)
    BY <2>1, FS_Subset DEF LoginInv, LoginTypes
  <2>3. IsFiniteSet(D \cup {Overflow}) /\ Cardinality(D \cup {Overflow}) = Cardinality(D) + 1
    BY <2>1, <2>2, FS_AddElement
  <2>4. Cardinality(DOMAIN failures) <= Cardinality(D \cup {Overflow})
    <3>1. DOMAIN failures \in SUBSET (D \cup {Overflow})
      BY <2>1
    <3> QED
      BY <2>3, <3>1, FS_Subset
  <2>5. Cardinality(DOMAIN failures) \in Nat /\ Cardinality(D) \in Nat /\ MaxClients \in Nat
    BY <2>2, FS_CardinalityType, AdminAssumption
  <2>6. Cardinality(DOMAIN failures) <= MaxClients + 1
    BY <2>2, <2>3, <2>4, <2>5
  <2> QED
    BY <2>6, LoginSize DEF L!FailureTableBounded
<1>2. L!LoginGuessesBounded
  <2>1. \A c \in DOMAIN failures \ {Overflow} : ClientBounded(c)
    BY DEF LoginInv
  <2> QED
    BY <2>1, LoginSize DEF ClientBounded, Trying, L!LoginGuessesBounded
<1> QED
  BY <1>1, <1>2

\* The login endpoint of the admin API, for any clients, requests and limits
\* (internal/control/auth.go): the table of failed logins stays within its bound,
\* within a minute a client adds no more failures than the limit and the requests it
\* already had past rateLimited, and no failure moves the start of that minute.
THEOREM LoginLimiterSoundHolds == L!Spec => LoginLimiterSound
<1>1. LoginInv /\ [L!Next]_(L!vars) => LoginInv'
  BY NextLogin
<1>2. LoginInv /\ [L!Next]_(L!vars) =>
        [\A k \in DOMAIN failures \cap DOMAIN failures' :
           failures'[k].since # failures[k].since => failures'[k].count = 1]_(L!vars)
  BY NextLogin
<1> QED
  BY <1>1, <1>2, InitLogin, LoginInvSound, PTL
     DEF L!Spec, LoginLimiterSound, L!LoginLimiterSound, L!LimitFromFirstFailure
=============================================================================
