----------------------------- MODULE Handshake -----------------------------
(***************************************************************************)
(* Client connections of the pooled gateway from the greeting to the       *)
(* command loop (handleClient in internal/gateway/gateway.go with          *)
(* internal/protocol/mysql/handshake.go), several at a time, sharing the   *)
(* authentication limiter.  A packet is abstracted to its sequence number, *)
(* its capability flags and what its body holds.                           *)
(***************************************************************************)
EXTENDS AuthLimiter

CONSTANTS Conns,        \* each stands for one connection after another
          HostOf,       \* HostOf[c]: authKey of the connection's remote address
          Scenarios     \* Scenarios[n].tlsRequired: mysql_tls_mode is required, and
                        \* clientTLS not nil; .sent[c]: the handshake packets that the
                        \* clients of a connection send, for those that are used

VARIABLE scenario
TLSRequired == Scenarios[scenario].tlsRequired
Sent == Scenarios[scenario].sent

\* Capability flags, by name.
RequiredCaps == {"Protocol41", "SecureConnection", "PluginAuth"}
DefaultServerCapabilities ==
    RequiredCaps \cup {"LongPassword", "LongFlag", "ConnectWithDB", "Transactions", "MultiResults",
        "PSMultiResults", "ConnectAttrs", "PluginAuthLenencClientData", "SessionTrack", "DeprecateEOF"}
\* What handleClient removes and adds.
ServerCaps ==
    (DefaultServerCapabilities \ {"DeprecateEOF", "SessionTrack", "MultiResults", "PSMultiResults"})
        \cup (IF TLSRequired THEN {"SSL"} ELSE {})
PermittedClientOnly == {"SSL", "FoundRows", "LocalFiles", "MultiStatements", "MultiResults",
                        "PSMultiResults", "SessionTrack", "RememberOptions"}
AllCaps == DefaultServerCapabilities \cup PermittedClientOnly \cup {"Compress", "ZstdCompressionAlgorithm"}

\* The body is absent (a TLS request), malformed, or well-formed with the right
\* or the wrong credentials (user, plugin, database and password together).
ASSUME HandshakeAssumption ==
    /\ IsFiniteSet(Conns) /\ HostOf \in [Conns -> Hosts]
    /\ \A n \in DOMAIN Scenarios :
          /\ Scenarios[n].tlsRequired \in BOOLEAN /\ DOMAIN Scenarios[n].sent \subseteq Conns
          /\ \A c \in DOMAIN Scenarios[n].sent : \A x \in Scenarios[n].sent[c] :
                x.seq \in {1, 2} /\ x.caps \subseteq AllCaps /\ x.body \in {"none", "malformed", "right", "wrong"}

ValidateCapabilities(caps) ==
    /\ RequiredCaps \subseteq caps
    /\ caps \cap {"Compress", "ZstdCompressionAlgorithm"} = {}
    /\ caps \ ServerCaps \subseteq PermittedClientOnly

\* ParseResponse: its result is "error", "tls", "right" or "wrong".
ParseResponse(x) ==
    IF ~ValidateCapabilities(x.caps) THEN "error"
    ELSE IF x.body = "none" THEN (IF "SSL" \in x.caps /\ TLSRequired THEN "tls" ELSE "error")
    ELSE IF x.body = "malformed" THEN "error" ELSE x.body

ReadResponse(x, expected) == IF x.seq # expected THEN "error" ELSE ParseResponse(x)

\* state[c]: where its handler is; channel is "plain" or "tls"; response what the
\* credentials it read are worth; readOn and caps (history) the channel they came
\* on and the flags that came with them; heard and said the sequence numbers of
\* the last packet read and written.
VARIABLE state
vars == <<limiter, scenario, state>>

Fresh == [pc |-> "greet", channel |-> "plain", response |-> "none", readOn |-> "none",
          caps |-> {}, heard |-> -1, said |-> -1]
Init == LimiterInit /\ scenario \in DOMAIN Scenarios /\ state = [c \in Conns |-> Fresh]

At(c, pc) == state[c].pc = pc
Become(c, s) == state' = [state EXCEPT ![c] = s] /\ UNCHANGED scenario
\* handleClient returns; of its locals only what the properties use is kept.
Closed(s) == [s EXCEPT !.pc = "closed", !.response = "none", !.readOn = "none", !.caps = {}]

Connect(c) == At(c, "closed") /\ Become(c, Fresh) /\ UNCHANGED limiter

\* SendGreeting, with sequence 0.
Greet(c) ==
    /\ At(c, "greet")
    /\ Become(c, [state[c] EXCEPT !.pc = "response", !.said = 0])
    /\ UNCHANGED limiter

\* The state after reading packet x, with outcome r.
AfterRead(c, x, r) ==
    [state[c] EXCEPT !.heard = x.seq, !.caps = x.caps, !.readOn = state[c].channel,
                     !.response = IF r = "right" THEN "right" ELSE "wrong"]

\* The first response: an error is answered with sequence 2; a TLS request
\* starts the upgrade; credentials in the clear are refused when TLS is required.
MutFirstResponse(c, x) ==
    LET r == ReadResponse(x, 1)
        s == AfterRead(c, x, r) IN
    /\ At(c, "response")
    /\ Become(c, CASE r = "error" -> Closed([s EXCEPT !.said = 2])
                   [] r = "tls"   -> [s EXCEPT !.pc = "upgrade"]
                   [] OTHER       -> [s EXCEPT !.pc = "limit"])
    /\ UNCHANGED limiter
FirstResponse(c, x) ==
    LET r == ReadResponse(x, 1)
        s == AfterRead(c, x, r) IN
    /\ At(c, "response")
    /\ Become(c, CASE r = "tls" -> [s EXCEPT !.pc = "upgrade"]
                   [] r # "tls" /\ (r = "error" \/ TLSRequired) -> Closed([s EXCEPT !.said = 2])
                   [] OTHER -> [s EXCEPT !.pc = "limit"])
    /\ UNCHANGED limiter

\* UpgradeTLS succeeds, or fails and handleClient returns.
UpgradeTLS(c) ==
    /\ At(c, "upgrade")
    /\ \/ Become(c, [state[c] EXCEPT !.pc = "response2", !.channel = "tls"])
       \/ Become(c, Closed(state[c]))
    /\ UNCHANGED limiter

\* The response inside TLS; an error ends the connection without an answer.  A
\* second TLS request has no user name, and goes on to fail the authentication.
SecondResponse(c, x) ==
    LET r == ReadResponse(x, 2)
        s == AfterRead(c, x, r) IN
    /\ At(c, "response2")
    /\ Become(c, IF r = "error" THEN Closed(s) ELSE [s EXCEPT !.pc = "limit"])
    /\ UNCHANGED limiter

\* authSequence.
AuthSequence(c) == IF state[c].channel = "tls" THEN 3 ELSE 2
Answer(c) == [state[c] EXCEPT !.said = AuthSequence(c)]

\* auth.allowed.
CheckLimiter(c) ==
    /\ At(c, "limit")
    /\ \/ Allowed(HostOf[c]) /\ Become(c, [state[c] EXCEPT !.pc = "auth"])
       \/ Refused(HostOf[c]) /\ Become(c, Closed(Answer(c)))

\* authenticate with auth.failure or auth.success; then the OK packet.
Authenticate(c) ==
    /\ At(c, "auth")
    /\ IF state[c].response = "right"
       THEN Success(HostOf[c]) /\ Become(c, [state[c] EXCEPT !.pc = "ok"])
       ELSE Failure(HostOf[c]) /\ Become(c, Closed(Answer(c)))
WriteOK(c) ==
    /\ At(c, "ok") /\ Become(c, [Answer(c) EXCEPT !.pc = "command"])
    /\ UNCHANGED limiter

\* A read or a write may fail; handleClient returns.
Disconnect(c) ==
    /\ state[c].pc \in {"greet", "response", "response2", "ok", "command"}
    /\ Become(c, Closed(state[c])) /\ UNCHANGED limiter

\* The command loop returns on a packet whose sequence is not 0, or that is empty,
\* and on QUIT; the other commands are the subject of module Session.
EndCommands(c) ==
    /\ At(c, "command") /\ Become(c, Closed([state[c] EXCEPT !.said = -1])) /\ UNCHANGED limiter

Next ==
    \/ Tick /\ UNCHANGED <<scenario, state>>
    \/ \E c \in DOMAIN Sent :
          \/ Connect(c) \/ Greet(c) \/ UpgradeTLS(c) \/ CheckLimiter(c) \/ Authenticate(c) \/ WriteOK(c)
          \/ Disconnect(c) \/ EndCommands(c)
          \/ \E x \in Sent[c] : FirstResponse(c, x) \/ SecondResponse(c, x)

Spec == Init /\ [][Next]_vars

-----------------------------------------------------------------------------
(* Types of the connections and of the limiter's table.                    *)
TypeOK ==
    /\ scenario \in DOMAIN Scenarios
    /\ state \in [Conns -> [pc : {"greet", "response", "upgrade", "response2", "limit", "auth", "ok", "command", "closed"},
                            channel : {"plain", "tls"}, response : {"none", "right", "wrong"},
                            readOn : {"none", "plain", "tls"}, caps : SUBSET AllCaps,
                            heard : -1..2, said : -1..3]]
    /\ DOMAIN attempts \subseteq Hosts /\ now \in 1..MaxTime
    /\ \A h \in DOMAIN attempts : attempts[h].failures > 0 /\ attempts[h].lastSeen <= now

\* A client whose commands are read has presented the right credentials in a
\* well-formed response with acceptable flags, over TLS when TLS is required.
CommandsAuthenticated ==
    \A c \in Conns : state[c].pc \in {"ok", "command"} =>
        /\ state[c].response = "right" /\ ValidateCapabilities(state[c].caps)
        /\ TLSRequired => state[c].readOn = "tls"

\* Credentials that came in the clear although TLS is required never reach the
\* limiter or the password check, whatever the client sends first.
CredentialsProtected ==
    \A c \in Conns : state[c].pc \in {"limit", "auth"} /\ TLSRequired => state[c].readOn = "tls"

\* An answer to a response read in order has the sequence number after it,
\* before and after the TLS upgrade, for acceptance and refusal alike.
AnswersInSequence ==
    \A c \in Conns : LET s == state[c] IN
        s.said > 0 /\ s.heard = (IF s.channel = "tls" THEN 2 ELSE 1) => s.said = s.heard + 1

\* A host gets no more wrong guesses in a window than maxFailures and the
\* connections it had already past allowed: allowed and failure are two critical
\* sections, and only the connections between them can exceed the limit.
GuessesBounded ==
    \A h \in DOMAIN attempts :
        LET mine == {c \in Conns : HostOf[c] = h}
        IN attempts[h].failures + Cardinality({c \in mine : At(c, "auth")}) <= MaxFailures - 1 + Cardinality(mine)

\* The handshake lets in only who may come in, over the channel that is required,
\* and numbers its answers as the client does.
HandshakeSound == CommandsAuthenticated /\ CredentialsProtected /\ AnswersInSequence
\* The limiter: bounded in memory, in the guesses it lets through and in the time it
\* locks a host out.
LimiterSound == TableBounded /\ LockoutEnds /\ NoStaleCount /\ GuessesBounded
=============================================================================
