--------------------------- MODULE PreparedProofs ---------------------------
(***************************************************************************)
(* Proofs about the replies of a session, each one that the client can     *)
(* read, and about the arguments of a prepared statement, each the one     *)
(* that the client meant.                                                  *)
(***************************************************************************)
EXTENDS Response, LongData, FiniteSetTheorems, TLAPS

-----------------------------------------------------------------------------
(* The replies.                                                            *)
\* Outside of a stray error the client's reader is where the session is in the
\* reply it writes, waits for the number the session sends next, and knows how
\* many definitions are to come; a client that was sent a stray error reads no more.
ReaderInv ==
    /\ ResponseTypes /\ WarningsReported
    /\ stray = "no" => client.at # "lost"
    /\ stray = "yes" => client.at = "lost" /\ at \in {"loop", "ended"}
    /\ stray = "no" /\ at = "loop" => client.at = "ready"
    /\ stray = "no" /\ at \in {"definitions", "rows", "parameters"} => client.at = at /\ client.next = sequence
    /\ stray = "no" /\ at \in {"definitions", "parameters"} => client.todo = todo
    /\ stray = "no" /\ at \in {"definitions", "rows"} => client.asked = IF row = "text" THEN "query" ELSE "execute"
    /\ stray = "no" /\ at = "parameters" => client.asked = "prepare"

Sequences8 == 0..(SequenceSpan - 1)
PacketKinds == {"OK", "ERR", "EOF", "count", "definition", "prepared", "text", "binary"}
PacketType == [kind : PacketKinds, seq : Sequences8, n : 0..MaxColumns, warnings : 0..MaxUint16, frames : Nat \ {0}]
ReaderIs(c, where, asked, left, next, reported, outcome) ==
    /\ c \in Reader /\ c.at = where /\ c.asked = asked /\ c.todo = left /\ c.next = next
    /\ c.warnings = reported /\ c.outcome = outcome

\* Sequence numbers wrap, and one packet after another takes the next.
LEMMA NextSequence ==
    /\ \A k \in Nat : k % SequenceSpan \in Sequences8
    /\ 1 \in Sequences8 /\ 1 % SequenceSpan = 1
    /\ ((2 % SequenceSpan) + 1) % SequenceSpan = 3 % SequenceSpan
    /\ ((3 % SequenceSpan) + 1) % SequenceSpan = 4 % SequenceSpan
    /\ ((4 % SequenceSpan) + 1) % SequenceSpan = 5 % SequenceSpan
<1>1. SequenceSpan \in Nat \ {0, 1}
  BY ResponseAssumption
<1>2. \A k \in Nat : k % SequenceSpan \in Sequences8
  BY <1>1 DEF Sequences8
<1>3. 1 \in Sequences8 /\ 1 % SequenceSpan = 1
  BY <1>1 DEF Sequences8
<1>4. ((2 % SequenceSpan) + 1) % SequenceSpan = 3 % SequenceSpan
  BY <1>1
<1>5. ((3 % SequenceSpan) + 1) % SequenceSpan = 4 % SequenceSpan
  BY <1>1
<1>6. ((4 % SequenceSpan) + 1) % SequenceSpan = 5 % SequenceSpan
  BY <1>1
<1> QED
  BY <1>2, <1>3, <1>4, <1>5, <1>6

\* The packets the session writes.
LEMMA PacketFields ==
    ASSUME NEW kind \in PacketKinds, NEW seq \in Sequences8, NEW n \in 0..MaxColumns, NEW w \in 0..MaxUint16
    PROVE  LET p == Packet(kind, seq, n, w) IN
           p \in PacketType /\ p.kind = kind /\ p.seq = seq /\ p.n = n /\ p.warnings = w /\ p.frames = 1
BY DEF Packet, PacketType

\* Where a packet takes the reader is one of its places.
LEMMA FollowsTypes ==
    ASSUME NEW c \in Reader, NEW p
    PROVE  Follows(c, p) \in {"ready", "reply", "definitions", "rows", "parameters", "lost"}
BY DEF Follows, Reader

\* What the reader is after a packet.
LEMMA ReadsPacket ==
    ASSUME NEW c \in Reader, NEW p \in PacketType
    PROVE  ReaderIs(Reads(c, p), IF p.seq = c.next THEN Follows(c, p) ELSE "lost", c.asked,
                    IF p.kind \in {"count", "prepared"} THEN p.n ELSE IF c.todo > 0 THEN c.todo - 1 ELSE 0,
                    (p.seq + p.frames) % SequenceSpan,
                    IF p.kind \in {"OK", "EOF"} THEN p.warnings ELSE c.warnings,
                    IF p.kind = "ERR" THEN "error" ELSE "done")
<1>1. PICK where, left, next, reported, outcome :
         /\ where = IF p.seq = c.next THEN Follows(c, p) ELSE "lost"
         /\ left = IF p.kind \in {"count", "prepared"} THEN p.n ELSE IF c.todo > 0 THEN c.todo - 1 ELSE 0
         /\ next = (p.seq + p.frames) % SequenceSpan
         /\ reported = IF p.kind \in {"OK", "EOF"} THEN p.warnings ELSE c.warnings
         /\ outcome = IF p.kind = "ERR" THEN "error" ELSE "done"
  OBVIOUS
<1>2. Reads(c, p) = [c EXCEPT !.at = where, !.todo = left, !.next = next, !.warnings = reported, !.outcome = outcome]
  BY <1>1 DEF Reads
<1>3. where \in {"ready", "reply", "definitions", "rows", "parameters", "lost"}
  BY <1>1, FollowsTypes
<1>4. left \in 0..MaxColumns
  BY <1>1, ResponseAssumption DEF Reader, PacketType
<1>5. next \in 0..(SequenceSpan - 1)
  <2>1. p.seq \in Nat /\ p.frames \in Nat
    BY DEF PacketType, Sequences8
  <2>2. PICK k \in Nat : k = p.seq + p.frames
    BY <2>1
  <2> QED
    BY <1>1, <2>2, NextSequence DEF Sequences8
<1>6. reported \in 0..MaxUint16
  BY <1>1 DEF Reader, PacketType
<1>7. outcome \in {"done", "error"}
  BY <1>1
<1>8. PICK r : r = [c EXCEPT !.at = where, !.todo = left, !.next = next, !.warnings = reported, !.outcome = outcome]
  OBVIOUS
<1>9. r \in Reader
  BY <1>3, <1>4, <1>5, <1>6, <1>7, <1>8, Zenon DEF Reader
<1>10. r.at = where /\ r.asked = c.asked /\ r.todo = left /\ r.next = next
  BY <1>8 DEF Reader
<1>11. r.warnings = reported /\ r.outcome = outcome
  BY <1>8 DEF Reader
<1>12. ReaderIs(r, where, c.asked, left, next, reported, outcome)
  BY <1>9, <1>10, <1>11 DEF ReaderIs
<1> QED
  BY <1>1, <1>2, <1>8, <1>12

\* The client once it has sent a command.
LEMMA WaitingReader ==
    ASSUME client \in Reader, NEW asked \in {"query", "execute", "prepare", "warnings", "other"}
    PROVE  ReaderIs(Waiting(asked), "reply", asked, 0, 1, client.warnings, client.outcome)
<1>1. PICK zero \in 0..MaxColumns : zero = 0
  BY ResponseAssumption
<1>2. PICK one \in 0..(SequenceSpan - 1) : one = 1
  BY ResponseAssumption
<1>3. PICK r : r = [client EXCEPT !.at = "reply", !.asked = asked, !.next = one, !.todo = zero]
  OBVIOUS
<1>4. r \in Reader
  BY <1>3, Zenon DEF Reader
<1>5. /\ r.at = "reply" /\ r.asked = asked /\ r.todo = zero /\ r.next = one /\ r.warnings = client.warnings
      /\ r.outcome = client.outcome
  BY <1>3 DEF Reader
<1>6. Waiting(asked) = r
  BY <1>1, <1>2, <1>3 DEF Waiting
<1> QED
  BY <1>1, <1>2, <1>4, <1>5, <1>6 DEF ReaderIs

\* The first packet of a reply.
LEMMA ReplyStarts ==
    ASSUME ReaderInv, CommandRead, NEW asked \in {"query", "execute", "prepare", "warnings", "other"},
           NEW p \in PacketType, p.seq = 1, p.frames = 1
    PROVE  LET c == Waiting(asked) IN
           /\ stray = "no" /\ at = "loop" /\ c \in Reader /\ c.at = "reply" /\ c.asked = asked
           /\ ReaderIs(Reads(c, p), Follows(c, p), asked, IF p.kind \in {"count", "prepared"} THEN p.n ELSE 0,
                       2 % SequenceSpan, IF p.kind \in {"OK", "EOF"} THEN p.warnings ELSE client.warnings,
                       IF p.kind = "ERR" THEN "error" ELSE "done")
<1>1. client \in Reader /\ client.at = "ready" /\ at = "loop"
  BY DEF ReaderInv, ResponseTypes, CommandRead
<1>2. stray = "no"
  BY <1>1 DEF ReaderInv, ResponseTypes
<1>3. PICK c : c = Waiting(asked)
  OBVIOUS
<1>4. ReaderIs(c, "reply", asked, 0, 1, client.warnings, client.outcome)
  BY <1>1, <1>3, WaitingReader
<1>5. /\ c \in Reader /\ c.at = "reply" /\ c.asked = asked /\ c.todo = 0 /\ c.next = 1
      /\ c.warnings = client.warnings
  BY <1>4 DEF ReaderIs
<1>6. ReaderIs(Reads(c, p), IF p.seq = c.next THEN Follows(c, p) ELSE "lost", c.asked,
               IF p.kind \in {"count", "prepared"} THEN p.n ELSE IF c.todo > 0 THEN c.todo - 1 ELSE 0,
               (p.seq + p.frames) % SequenceSpan,
               IF p.kind \in {"OK", "EOF"} THEN p.warnings ELSE c.warnings,
               IF p.kind = "ERR" THEN "error" ELSE "done")
  BY <1>5, ReadsPacket
<1>7. /\ (IF p.seq = c.next THEN Follows(c, p) ELSE "lost") = Follows(c, p)
      /\ (p.seq + p.frames) % SequenceSpan = 2 % SequenceSpan
      /\ (IF c.todo > 0 THEN c.todo - 1 ELSE 0) = 0
  BY <1>5
<1>8. ReaderIs(Reads(c, p), Follows(c, p), asked, IF p.kind \in {"count", "prepared"} THEN p.n ELSE 0,
               2 % SequenceSpan, IF p.kind \in {"OK", "EOF"} THEN p.warnings ELSE client.warnings,
               IF p.kind = "ERR" THEN "error" ELSE "done")
  BY <1>5, <1>6, <1>7
<1> QED
  BY <1>1, <1>2, <1>3, <1>5, <1>8

\* A further packet of a reply, sent with the session's sequence number.
LEMMA ReplyContinues ==
    ASSUME ReaderInv, at \in {"definitions", "rows", "parameters"}, NEW p \in PacketType, p.seq = sequence, Send(p)
    PROVE  /\ stray = "no" /\ client \in Reader /\ client.at = at /\ sequence' \in Sequences8
           /\ ReaderIs(client', Follows(client, p), client.asked,
                       IF p.kind \in {"count", "prepared"} THEN p.n ELSE IF client.todo > 0 THEN client.todo - 1 ELSE 0,
                       sequence', IF p.kind \in {"OK", "EOF"} THEN p.warnings ELSE client.warnings,
                       IF p.kind = "ERR" THEN "error" ELSE "done")
<1>1. client \in Reader /\ stray = "no"
  BY DEF ReaderInv, ResponseTypes
<1>2. client.at = at /\ client.next = sequence
  BY <1>1 DEF ReaderInv
<1>3. client' = Reads(client, p) /\ sequence' = (p.seq + p.frames) % SequenceSpan
  BY DEF Send
<1>4. ReaderIs(Reads(client, p), IF p.seq = client.next THEN Follows(client, p) ELSE "lost", client.asked,
               IF p.kind \in {"count", "prepared"} THEN p.n ELSE IF client.todo > 0 THEN client.todo - 1 ELSE 0,
               (p.seq + p.frames) % SequenceSpan,
               IF p.kind \in {"OK", "EOF"} THEN p.warnings ELSE client.warnings,
               IF p.kind = "ERR" THEN "error" ELSE "done")
  BY <1>1, ReadsPacket
<1>5. sequence' \in Sequences8
  <2>1. PICK k \in Nat : k = p.seq + p.frames
    BY DEF PacketType, Sequences8
  <2> QED
    BY <1>3, <2>1, NextSequence
<1>6. (IF p.seq = client.next THEN Follows(client, p) ELSE "lost") = Follows(client, p)
  BY <1>2
<1> QED
  BY <1>1, <1>2, <1>3, <1>4, <1>5, <1>6

\* A reply of one packet, an OK or an error, brings the client back to ready.
LEMMA OnePacketReply ==
    ASSUME ReaderInv, CommandRead, NEW asked \in {"query", "execute", "prepare", "other"}, NEW w \in 0..MaxUint16,
           NEW ok \in {"OK", "ERR"}, ok = "OK" => asked # "prepare", Replies(asked, Packet(ok, 1, 0, w))
    PROVE  /\ stray = "no" /\ at = "loop"
           /\ ReaderIs(client', "ready", asked, 0, 2 % SequenceSpan, IF ok = "OK" THEN w ELSE client.warnings,
                       IF ok = "OK" THEN "done" ELSE "error")
<1>1. PICK p : p = Packet(ok, 1, 0, w)
  OBVIOUS
<1>2. /\ p \in PacketType /\ p.kind = ok /\ p.seq = 1 /\ p.n = 0 /\ p.warnings = w /\ p.frames = 1
  <2>1. ok \in PacketKinds /\ 1 \in Sequences8 /\ 0 \in 0..MaxColumns
    BY NextSequence, ResponseAssumption DEF PacketKinds
  <2> QED
    BY <1>1, <2>1, PacketFields
<1>3. PICK c : c = Waiting(asked)
  OBVIOUS
<1>4. /\ stray = "no" /\ at = "loop" /\ c \in Reader /\ c.at = "reply" /\ c.asked = asked
      /\ ReaderIs(Reads(c, p), Follows(c, p), asked, IF p.kind \in {"count", "prepared"} THEN p.n ELSE 0,
                  2 % SequenceSpan, IF p.kind \in {"OK", "EOF"} THEN p.warnings ELSE client.warnings,
                  IF p.kind = "ERR" THEN "error" ELSE "done")
  BY <1>2, <1>3, ReplyStarts
<1>5. Follows(c, p) = "ready"
  BY <1>2, <1>4 DEF Follows
<1>6. client' = Reads(c, p)
  BY <1>1, <1>3 DEF Replies
<1> QED
  BY <1>2, <1>4, <1>5, <1>6

\* The session is back in its command loop and the client has read the reply.
LEMMA BackInLoop ==
    ASSUME ResponseTypes', stray' = "no", at' = "loop", client'.at = "ready", WarningsReported'
    PROVE  ReaderInv'
BY DEF ReaderInv

\* Commands answered with one packet.
LEMMA AnswerKeeps ==
    ASSUME ReaderInv,
           \/ \E asked \in {"query", "execute", "prepare", "other"} : Local(asked)
           \/ \E asked \in {"query", "execute"}, count \in 0..MaxWarnings : Exec(asked, count) \/ ExecFails(asked, count)
    PROVE  ReaderInv'
<1>0. MaxWarnings \in Nat /\ MaxUint16 \in Nat /\ 0 \in 0..MaxUint16
  BY ResponseAssumption
<1>1. ASSUME NEW asked \in {"query", "execute", "prepare", "other"}, Local(asked) PROVE ReaderInv'
  <2>1. PICK ok \in {"OK", "ERR"} : Replies(asked, Packet(ok, 1, 0, 0)) /\ (ok = "OK" => asked # "prepare")
    BY <1>1 DEF Local, OKPayload, ErrorPayload
  <2>2. CommandRead /\ diagnostics' = None /\ UNCHANGED <<at, todo, sequence, row, written, warnings, stray>>
    BY <1>1 DEF Local
  <2>3. /\ stray = "no" /\ at = "loop"
        /\ ReaderIs(client', "ready", asked, 0, 2 % SequenceSpan, IF ok = "OK" THEN 0 ELSE client.warnings,
                    IF ok = "OK" THEN "done" ELSE "error")
    BY <1>0, <2>1, <2>2, OnePacketReply
  <2>4. client' \in Reader /\ client'.at = "ready"
    BY <2>3 DEF ReaderIs
  <2>5. ResponseTypes'
    BY <1>0, <2>2, <2>4 DEF ReaderInv, ResponseTypes, None
  <2>6. WarningsReported'
    BY <2>2 DEF WarningsReported
  <2> QED
    BY <2>2, <2>3, <2>4, <2>5, <2>6, BackInLoop
<1>2. ASSUME NEW asked \in {"query", "execute"}, NEW count \in 0..MaxWarnings, Exec(asked, count) PROVE ReaderInv'
  <2>1. /\ CommandRead /\ diagnostics' = count /\ warnings' = Capped(count)
        /\ Replies(asked, Packet("OK", 1, 0, Capped(count))) /\ UNCHANGED <<at, todo, sequence, row, written, stray>>
    BY <1>2 DEF Exec, OKPayload
  <2>2. /\ Capped(count) \in 0..MaxUint16
        /\ IF count > MaxUint16 THEN Capped(count) = MaxUint16 ELSE Capped(count) = count
    BY <1>0 DEF Capped
  <2>3. /\ stray = "no" /\ at = "loop"
        /\ ReaderIs(client', "ready", asked, 0, 2 % SequenceSpan, Capped(count), "done")
    BY <2>1, <2>2, OnePacketReply
  <2>4. client' \in Reader /\ client'.at = "ready" /\ client'.warnings = Capped(count)
    BY <2>3 DEF ReaderIs
  <2>5. ResponseTypes'
    BY <1>0, <2>1, <2>2, <2>4 DEF ReaderInv, ResponseTypes, None
  <2>6. WarningsReported'
    BY <2>1, <2>2, <2>4 DEF WarningsReported
  <2> QED
    BY <2>1, <2>3, <2>4, <2>5, <2>6, BackInLoop
<1>3. ASSUME NEW asked \in {"query", "execute"}, NEW count \in 0..MaxWarnings, ExecFails(asked, count) PROVE ReaderInv'
  <2>1. /\ CommandRead /\ diagnostics' = count /\ Replies(asked, Packet("ERR", 1, 0, 0))
        /\ UNCHANGED <<at, todo, sequence, row, written, warnings, stray>>
    BY <1>3 DEF ExecFails, ErrorPayload
  <2>2. /\ stray = "no" /\ at = "loop"
        /\ ReaderIs(client', "ready", asked, 0, 2 % SequenceSpan, client.warnings, "error")
    BY <1>0, <2>1, OnePacketReply
  <2>3. client' \in Reader /\ client'.at = "ready" /\ client'.outcome = "error"
    BY <2>2 DEF ReaderIs
  <2>4. ResponseTypes'
    BY <1>0, <2>1, <2>3 DEF ReaderInv, ResponseTypes, None
  <2>5. WarningsReported'
    BY <2>3 DEF WarningsReported
  <2> QED
    BY <2>1, <2>2, <2>3, <2>4, <2>5, BackInLoop
<1> QED
  BY <1>1, <1>2, <1>3

\* The column count of a result set, and the answer to a prepare.
LEMMA HeaderKeeps ==
    ASSUME ReaderInv,
           (\E n \in 1..MaxColumns : Rows(n) \/ QueryPrepared(n)) \/ (\E n \in 0..MaxColumns : Prepare(n))
    PROVE  ReaderInv'
<1>0. MaxColumns \in Nat /\ 1 \in Sequences8 /\ 2 % SequenceSpan \in Sequences8 /\ 0 \in 0..MaxUint16 /\ MaxRows \in Nat
      /\ MaxWarnings \in Nat
  BY NextSequence, ResponseAssumption
<1>1. ASSUME NEW n \in 1..MaxColumns, Rows(n) \/ QueryPrepared(n) PROVE ReaderInv'
  <2>1. PICK asked \in {"query", "execute"} :
           /\ Replies(asked, Packet("count", 1, n, 0)) /\ row' = IF asked = "query" THEN "text" ELSE "binary"
    BY <1>1 DEF Rows, QueryPrepared, ColumnCountPayload
  <2>2. /\ CommandRead /\ sequence' = 2 % SequenceSpan /\ at' = "definitions" /\ todo' = n /\ written' = 0
        /\ UNCHANGED <<warnings, diagnostics, stray>>
    BY <1>1 DEF Rows, QueryPrepared
  <2>3. PICK p, c : p = Packet("count", 1, n, 0) /\ c = Waiting(asked)
    OBVIOUS
  <2>4. p \in PacketType /\ p.kind = "count" /\ p.seq = 1 /\ p.n = n /\ p.frames = 1
    <3>1. "count" \in PacketKinds /\ n \in 0..MaxColumns
      BY <1>0 DEF PacketKinds
    <3> QED
      BY <1>0, <2>3, <3>1, PacketFields
  <2>5. /\ stray = "no" /\ c.at = "reply" /\ c.asked = asked
        /\ ReaderIs(Reads(c, p), Follows(c, p), asked, n, 2 % SequenceSpan, client.warnings, "done")
    BY <2>2, <2>3, <2>4, ReplyStarts
  <2>6. Follows(c, p) = "definitions"
    BY <2>4, <2>5 DEF Follows
  <2>7. ReaderIs(client', "definitions", asked, n, 2 % SequenceSpan, client.warnings, "done")
    BY <2>1, <2>3, <2>5, <2>6 DEF Replies
  <2>8. ResponseTypes'
    BY <1>0, <2>1, <2>2, <2>7 DEF ReaderInv, ResponseTypes, ReaderIs, Sequences8
  <2> QED
    BY <2>1, <2>2, <2>5, <2>7, <2>8 DEF ReaderInv, ReaderIs, WarningsReported
<1>2. ASSUME NEW n \in 0..MaxColumns, Prepare(n) PROVE ReaderInv'
  <2>2. /\ CommandRead /\ Replies("prepare", Packet("prepared", 1, n, 0)) /\ sequence' = 2 % SequenceSpan
        /\ at' = (IF n = 0 THEN "loop" ELSE "parameters") /\ todo' = n /\ diagnostics' = None
        /\ UNCHANGED <<row, written, warnings, stray>>
    BY <1>2 DEF Prepare, PrepareOKPayload
  <2>3. PICK p, c : p = Packet("prepared", 1, n, 0) /\ c = Waiting("prepare")
    OBVIOUS
  <2>4. p \in PacketType /\ p.kind = "prepared" /\ p.seq = 1 /\ p.n = n /\ p.frames = 1
    <3>1. "prepared" \in PacketKinds
      BY DEF PacketKinds
    <3> QED
      BY <1>0, <2>3, <3>1, PacketFields
  <2>5. /\ stray = "no" /\ c.at = "reply" /\ c.asked = "prepare"
        /\ ReaderIs(Reads(c, p), Follows(c, p), "prepare", n, 2 % SequenceSpan, client.warnings, "done")
    BY <2>2, <2>3, <2>4, ReplyStarts
  <2>6. Follows(c, p) = IF n = 0 THEN "ready" ELSE "parameters"
    BY <2>4, <2>5 DEF Follows
  <2>7. ReaderIs(client', IF n = 0 THEN "ready" ELSE "parameters", "prepare", n, 2 % SequenceSpan, client.warnings, "done")
    BY <2>2, <2>3, <2>5, <2>6 DEF Replies
  <2>8. ResponseTypes'
    BY <1>0, <2>2, <2>7 DEF ReaderInv, ResponseTypes, ReaderIs, Sequences8, None
  <2> QED
    BY <2>2, <2>5, <2>7, <2>8 DEF ReaderInv, ReaderIs, WarningsReported
<1> QED
  BY <1>1, <1>2

\* A packet of one frame with the session's sequence number.
LEMMA NextPacket ==
    ASSUME ReaderInv, NEW kind \in PacketKinds, NEW w \in 0..MaxUint16
    PROVE  LET p == Packet(kind, sequence, 0, w) IN
           /\ p \in PacketType /\ p.kind = kind /\ p.seq = sequence /\ p.n = 0 /\ p.warnings = w
<1>1. sequence \in Sequences8 /\ 0 \in 0..MaxColumns
  BY ResponseAssumption DEF ReaderInv, ResponseTypes, Sequences8
<1> QED
  BY <1>1, PacketFields

\* The definitions of a result set or of parameters, and what ends them.
LEMMA DefinitionsKeep ==
    ASSUME ReaderInv, Definition \/ DefinitionsEnd \/ ParametersEnd
    PROVE  ReaderInv'
<1>0. 0 \in 0..MaxUint16 /\ MaxColumns \in Nat
  BY ResponseAssumption
<1>1. CASE Definition
  <2>1. /\ at \in {"definitions", "parameters"} /\ todo > 0 /\ todo \in 0..MaxColumns /\ todo' = todo - 1
        /\ Send(Packet("definition", sequence, 0, 0)) /\ UNCHANGED <<at, row, written, warnings, diagnostics, stray>>
    BY <1>1 DEF Definition, ColumnDefinitionPayload, ReaderInv, ResponseTypes
  <2>2. PICK p : p = Packet("definition", sequence, 0, 0)
    OBVIOUS
  <2>3. p \in PacketType /\ p.kind = "definition" /\ p.seq = sequence
    <3>1. "definition" \in PacketKinds
      BY DEF PacketKinds
    <3> QED
      BY <1>0, <2>2, <3>1, NextPacket
  <2>4. /\ stray = "no" /\ client \in Reader /\ client.at = at /\ sequence' \in Sequences8
        /\ ReaderIs(client', Follows(client, p), client.asked, IF client.todo > 0 THEN client.todo - 1 ELSE 0,
                    sequence', client.warnings, "done")
    BY <2>1, <2>2, <2>3, ReplyContinues
  <2>5. client.todo = todo
    BY <2>1, <2>4 DEF ReaderInv
  <2>6. Follows(client, p) = at
    BY <2>1, <2>3, <2>4, <2>5 DEF Follows
  <2>7. ReaderIs(client', at, client.asked, todo - 1, sequence', client.warnings, "done")
    BY <2>1, <2>4, <2>5, <2>6
  <2>8. ResponseTypes'
    BY <1>0, <2>1, <2>4, <2>7 DEF ReaderInv, ResponseTypes, ReaderIs, Sequences8
  <2> QED
    BY <2>1, <2>4, <2>7, <2>8 DEF ReaderInv, ReaderIs, WarningsReported
<1>2. CASE DefinitionsEnd
  <2>1. /\ at = "definitions" /\ todo = 0 /\ Send(Packet("EOF", sequence, 0, 0)) /\ at' = "rows"
        /\ UNCHANGED <<todo, row, written, warnings, diagnostics, stray>>
    BY <1>2 DEF DefinitionsEnd, EOFPayload
  <2>2. PICK p : p = Packet("EOF", sequence, 0, 0)
    OBVIOUS
  <2>3. p \in PacketType /\ p.kind = "EOF" /\ p.seq = sequence /\ p.warnings = 0
    <3>1. "EOF" \in PacketKinds
      BY DEF PacketKinds
    <3> QED
      BY <1>0, <2>2, <3>1, NextPacket
  <2>4. /\ stray = "no" /\ client \in Reader /\ client.at = at /\ sequence' \in Sequences8
        /\ ReaderIs(client', Follows(client, p), client.asked, IF client.todo > 0 THEN client.todo - 1 ELSE 0,
                    sequence', 0, "done")
    BY <2>1, <2>2, <2>3, ReplyContinues
  <2>5. client.todo = 0 /\ client.asked = IF row = "text" THEN "query" ELSE "execute"
    BY <2>1, <2>4 DEF ReaderInv
  <2>6. Follows(client, p) = "rows"
    BY <2>1, <2>3, <2>4, <2>5 DEF Follows
  <2>7. ReaderIs(client', "rows", client.asked, 0, sequence', 0, "done")
    BY <2>4, <2>5, <2>6
  <2>8. ResponseTypes'
    BY <1>0, <2>1, <2>4, <2>7 DEF ReaderInv, ResponseTypes, ReaderIs, Sequences8
  <2> QED
    BY <2>1, <2>4, <2>5, <2>7, <2>8 DEF ReaderInv, ReaderIs, WarningsReported
<1>3. CASE ParametersEnd
  <2>1. /\ at = "parameters" /\ todo = 0 /\ Send(Packet("EOF", sequence, 0, 0)) /\ at' = "loop"
        /\ UNCHANGED <<todo, row, written, warnings, diagnostics, stray>>
    BY <1>3 DEF ParametersEnd, EOFPayload
  <2>2. PICK p : p = Packet("EOF", sequence, 0, 0)
    OBVIOUS
  <2>3. p \in PacketType /\ p.kind = "EOF" /\ p.seq = sequence /\ p.warnings = 0
    <3>1. "EOF" \in PacketKinds
      BY DEF PacketKinds
    <3> QED
      BY <1>0, <2>2, <3>1, NextPacket
  <2>4. /\ stray = "no" /\ client \in Reader /\ client.at = at /\ sequence' \in Sequences8
        /\ ReaderIs(client', Follows(client, p), client.asked, IF client.todo > 0 THEN client.todo - 1 ELSE 0,
                    sequence', 0, "done")
    BY <2>1, <2>2, <2>3, ReplyContinues
  <2>5. client.todo = 0 /\ client.asked = "prepare"
    BY <2>1, <2>4 DEF ReaderInv
  <2>6. Follows(client, p) = "ready"
    BY <2>1, <2>3, <2>4, <2>5 DEF Follows
  <2>7. ReaderIs(client', "ready", "prepare", 0, sequence', 0, "done")
    BY <2>4, <2>5, <2>6
  <2>8. client' \in Reader /\ client'.at = "ready" /\ client'.asked = "prepare"
    BY <2>7 DEF ReaderIs
  <2>9. ResponseTypes'
    BY <1>0, <2>1, <2>4, <2>8 DEF ReaderInv, ResponseTypes, Sequences8
  <2>10. WarningsReported'
    BY <2>8 DEF WarningsReported
  <2> QED
    BY <2>1, <2>4, <2>8, <2>9, <2>10, BackInLoop
<1> QED
  BY <1>1, <1>2, <1>3

\* The rows, however many frames each takes, and both ways a result set ends.
LEMMA RowsKeep ==
    ASSUME ReaderInv,
           \/ \E f \in 1..MaxFrames : TextRow(f) \/ PreparedRow(f)
           \/ \E count \in 0..MaxWarnings : RowsFail(count) \/ RowsEnd(count)
    PROVE  ReaderInv'
<1>0. 0 \in 0..MaxUint16 /\ MaxUint16 \in Nat /\ MaxRows \in Nat /\ MaxWarnings \in Nat /\ MaxFrames \in Nat
  BY ResponseAssumption
<1>1. ASSUME NEW f \in 1..MaxFrames, TextRow(f) \/ PreparedRow(f) PROVE ReaderInv'
  <2>1. PICK kind \in {"text", "binary"} : row = kind /\ Send(RowPayload(kind, sequence, f))
    BY <1>1 DEF TextRow, PreparedRow
  <2>2. /\ at = "rows" /\ written < MaxRows /\ written \in 0..MaxRows /\ written' = written + 1
        /\ UNCHANGED <<at, todo, row, warnings, diagnostics, stray>>
    BY <1>1 DEF TextRow, PreparedRow, ReaderInv, ResponseTypes
  <2>3. PICK p : p = RowPayload(kind, sequence, f)
    OBVIOUS
  <2>4. p \in PacketType /\ p.kind = kind /\ p.seq = sequence
    <3>1. kind \in PacketKinds
      BY DEF PacketKinds
    <3>2. PICK q : q = Packet(kind, sequence, 0, 0)
      OBVIOUS
    <3>3. q \in PacketType /\ q.kind = kind /\ q.seq = sequence
      BY <1>0, <3>1, <3>2, NextPacket
    <3>4. p = [q EXCEPT !.frames = f] /\ f \in Nat \ {0}
      BY <1>0, <2>3, <3>2 DEF RowPayload
    <3> QED
      BY <3>3, <3>4 DEF PacketType
  <2>5. /\ stray = "no" /\ client \in Reader /\ client.at = at /\ sequence' \in Sequences8
        /\ ReaderIs(client', Follows(client, p), client.asked, IF client.todo > 0 THEN client.todo - 1 ELSE 0,
                    sequence', client.warnings, "done")
    BY <2>1, <2>2, <2>3, <2>4, ReplyContinues
  <2>6. client.asked = IF row = "text" THEN "query" ELSE "execute"
    BY <2>2, <2>5 DEF ReaderInv
  <2>7. Follows(client, p) = "rows"
    BY <2>1, <2>2, <2>4, <2>5, <2>6 DEF Follows
  <2>8. /\ client' \in Reader /\ client'.at = "rows" /\ client'.asked = client.asked /\ client'.next = sequence'
    BY <2>5, <2>7 DEF ReaderIs
  <2>9. ResponseTypes'
    BY <1>0, <2>2, <2>5, <2>8 DEF ReaderInv, ResponseTypes, Sequences8
  <2> QED
    BY <2>2, <2>5, <2>6, <2>8, <2>9 DEF ReaderInv, WarningsReported
<1>2. ASSUME NEW count \in 0..MaxWarnings, RowsFail(count) PROVE ReaderInv'
  <2>1. /\ at = "rows" /\ diagnostics' = count /\ Send(Packet("ERR", sequence, 0, 0)) /\ at' = "loop"
        /\ UNCHANGED <<todo, row, written, warnings, stray>>
    BY <1>2 DEF RowsFail, ErrorPayload
  <2>2. PICK p : p = Packet("ERR", sequence, 0, 0)
    OBVIOUS
  <2>3. p \in PacketType /\ p.kind = "ERR" /\ p.seq = sequence
    <3>1. "ERR" \in PacketKinds
      BY DEF PacketKinds
    <3> QED
      BY <1>0, <2>2, <3>1, NextPacket
  <2>4. /\ stray = "no" /\ client \in Reader /\ client.at = at /\ sequence' \in Sequences8
        /\ ReaderIs(client', Follows(client, p), client.asked, IF client.todo > 0 THEN client.todo - 1 ELSE 0,
                    sequence', client.warnings, "error")
    BY <2>1, <2>2, <2>3, ReplyContinues
  <2>5. Follows(client, p) = "ready"
    <3>1. client.asked \in {"query", "execute"}
      BY <2>1, <2>4 DEF ReaderInv
    <3> QED
      BY <2>1, <2>3, <2>4, <3>1 DEF Follows
  <2>6. client' \in Reader /\ client'.at = "ready" /\ client'.outcome = "error"
    BY <2>4, <2>5 DEF ReaderIs
  <2>7. ResponseTypes'
    BY <1>0, <2>1, <2>4, <2>6 DEF ReaderInv, ResponseTypes, Sequences8, None
  <2>8. WarningsReported'
    BY <2>6 DEF WarningsReported
  <2> QED
    BY <2>1, <2>4, <2>6, <2>7, <2>8, BackInLoop
<1>3. ASSUME NEW count \in 0..MaxWarnings, RowsEnd(count) PROVE ReaderInv'
  <2>1. /\ at = "rows" /\ diagnostics' = count /\ warnings' = Capped(count) /\ at' = "loop"
        /\ Send(Packet("EOF", sequence, 0, Capped(count))) /\ UNCHANGED <<todo, row, written, stray>>
    BY <1>3 DEF RowsEnd, EOFPayload
  <2>2. /\ Capped(count) \in 0..MaxUint16
        /\ IF count > MaxUint16 THEN Capped(count) = MaxUint16 ELSE Capped(count) = count
    BY <1>0 DEF Capped
  <2>3. PICK p : p = Packet("EOF", sequence, 0, Capped(count))
    OBVIOUS
  <2>4. p \in PacketType /\ p.kind = "EOF" /\ p.seq = sequence /\ p.warnings = Capped(count)
    <3>1. "EOF" \in PacketKinds
      BY DEF PacketKinds
    <3> QED
      BY <2>2, <2>3, <3>1, NextPacket
  <2>5. /\ stray = "no" /\ client \in Reader /\ client.at = at /\ sequence' \in Sequences8
        /\ ReaderIs(client', Follows(client, p), client.asked, IF client.todo > 0 THEN client.todo - 1 ELSE 0,
                    sequence', Capped(count), "done")
    BY <2>1, <2>3, <2>4, ReplyContinues
  <2>6. Follows(client, p) = "ready"
    <3>1. client.asked \in {"query", "execute"}
      BY <2>1, <2>5 DEF ReaderInv
    <3> QED
      BY <2>1, <2>4, <2>5, <3>1 DEF Follows
  <2>7. client' \in Reader /\ client'.at = "ready" /\ client'.warnings = Capped(count)
    BY <2>5, <2>6 DEF ReaderIs
  <2>8. ResponseTypes'
    BY <1>0, <2>1, <2>2, <2>5, <2>7 DEF ReaderInv, ResponseTypes, Sequences8, None
  <2>9. WarningsReported'
    BY <2>1, <2>2, <2>7 DEF WarningsReported
  <2> QED
    BY <2>1, <2>5, <2>7, <2>8, <2>9, BackInLoop
<1> QED
  BY <1>1, <1>2, <1>3

\* SHOW COUNT WARNINGS: the five packets of its reply are read one after the other.
LEMMA WarningCountKeeps == ASSUME ReaderInv, WarningCount PROVE ReaderInv'
<1> DEFINE p1 == Packet("count", 1 % SequenceSpan, 1, 0)
           p2 == Packet("definition", 2 % SequenceSpan, 0, 0)
           p3 == Packet("EOF", 3 % SequenceSpan, 0, 0)
           p4 == RowPayload("text", 4 % SequenceSpan, 1)
           p5 == Packet("EOF", 5 % SequenceSpan, 0, 0)
           c0 == Waiting("warnings")
           c1 == Reads(c0, p1)
           c2 == Reads(c1, p2)
           c3 == Reads(c2, p3)
           c4 == Reads(c3, p4)
<1>1. /\ CommandRead /\ client' = Reads(c4, p5)
      /\ UNCHANGED <<at, todo, sequence, row, written, warnings, diagnostics, stray>>
  BY DEF WarningCount, ColumnCountPayload, ColumnDefinitionPayload, EOFPayload
<1>2. /\ {"count", "definition", "EOF", "text"} \subseteq PacketKinds /\ {0, 1} \subseteq 0..MaxColumns
      /\ 0 \in 0..MaxUint16
  BY ResponseAssumption DEF PacketKinds
<1>3. p1 \in PacketType /\ p1.kind = "count" /\ p1.seq = 1 /\ p1.n = 1 /\ p1.frames = 1
  BY <1>2, NextSequence, PacketFields
<1>4. p2 \in PacketType /\ p2.kind = "definition" /\ p2.seq = 2 % SequenceSpan /\ p2.frames = 1
  BY <1>2, NextSequence, PacketFields
<1>5. p3 \in PacketType /\ p3.kind = "EOF" /\ p3.seq = 3 % SequenceSpan /\ p3.frames = 1 /\ p3.warnings = 0
  BY <1>2, NextSequence, PacketFields
<1>6. p4 \in PacketType /\ p4.kind = "text" /\ p4.seq = 4 % SequenceSpan /\ p4.frames = 1
  <2>1. PICK q : q = Packet("text", 4 % SequenceSpan, 0, 0)
    OBVIOUS
  <2>2. q \in PacketType /\ q.kind = "text" /\ q.seq = 4 % SequenceSpan /\ q.frames = 1
    BY <1>2, <2>1, NextSequence, PacketFields
  <2>3. p4 = [q EXCEPT !.frames = 1]
    BY <2>1 DEF RowPayload
  <2>4. [q EXCEPT !.frames = 1] = q
    BY <2>2 DEF PacketType
  <2> HIDE DEF p4
  <2> QED
    BY <2>2, <2>3, <2>4
<1>7. p5 \in PacketType /\ p5.kind = "EOF" /\ p5.seq = 5 % SequenceSpan /\ p5.frames = 1 /\ p5.warnings = 0
  BY <1>2, NextSequence, PacketFields
<1> HIDE DEF p1, p2, p3, p4, p5, c0
<1>8. stray = "no" /\ at = "loop" /\ ReaderIs(c1, "definitions", "warnings", 1, 2 % SequenceSpan, client.warnings, "done")
  <2>1. /\ stray = "no" /\ at = "loop" /\ c0.at = "reply" /\ c0.asked = "warnings"
        /\ ReaderIs(c1, Follows(c0, p1), "warnings", 1, 2 % SequenceSpan, client.warnings, "done")
    BY <1>1, <1>3, ReplyStarts DEF c0
  <2>2. Follows(c0, p1) = "definitions"
    BY <1>3, <2>1 DEF Follows
  <2> QED
    BY <2>1, <2>2
<1> HIDE DEF c1
<1>9. ReaderIs(c2, "definitions", "warnings", 0, 3 % SequenceSpan, client.warnings, "done")
  <2>1. /\ c1 \in Reader /\ c1.at = "definitions" /\ c1.asked = "warnings" /\ c1.todo = 1
        /\ c1.next = 2 % SequenceSpan /\ c1.warnings = client.warnings
    BY <1>8 DEF ReaderIs
  <2>2. ReaderIs(c2, Follows(c1, p2), "warnings", 0, ((2 % SequenceSpan) + 1) % SequenceSpan, client.warnings, "done")
    BY <1>4, <2>1, ReadsPacket
  <2>3. Follows(c1, p2) = "definitions"
    BY <1>4, <2>1 DEF Follows
  <2> QED
    BY <2>2, <2>3, NextSequence
<1> HIDE DEF c2
<1>10. ReaderIs(c3, "rows", "warnings", 0, 4 % SequenceSpan, 0, "done")
  <2>1. /\ c2 \in Reader /\ c2.at = "definitions" /\ c2.asked = "warnings" /\ c2.todo = 0
        /\ c2.next = 3 % SequenceSpan
    BY <1>9 DEF ReaderIs
  <2>2. ReaderIs(c3, Follows(c2, p3), "warnings", 0, ((3 % SequenceSpan) + 1) % SequenceSpan, 0, "done")
    BY <1>5, <2>1, ReadsPacket
  <2>3. Follows(c2, p3) = "rows"
    BY <1>5, <2>1 DEF Follows
  <2> QED
    BY <2>2, <2>3, NextSequence
<1> HIDE DEF c3
<1>11. ReaderIs(c4, "rows", "warnings", 0, 5 % SequenceSpan, 0, "done")
  <2>1. /\ c3 \in Reader /\ c3.at = "rows" /\ c3.asked = "warnings" /\ c3.todo = 0 /\ c3.warnings = 0
        /\ c3.next = 4 % SequenceSpan
    BY <1>10 DEF ReaderIs
  <2>2. ReaderIs(c4, Follows(c3, p4), "warnings", 0, ((4 % SequenceSpan) + 1) % SequenceSpan, 0, "done")
    BY <1>6, <2>1, ReadsPacket
  <2>3. Follows(c3, p4) = "rows"
    BY <1>6, <2>1 DEF Follows
  <2> QED
    BY <2>2, <2>3, NextSequence
<1> HIDE DEF c4
<1>12. client' \in Reader /\ client'.at = "ready" /\ client'.asked = "warnings"
  <2>1. /\ c4 \in Reader /\ c4.at = "rows" /\ c4.asked = "warnings" /\ c4.todo = 0
        /\ c4.next = 5 % SequenceSpan
    BY <1>11 DEF ReaderIs
  <2>2. ReaderIs(client', Follows(c4, p5), "warnings", 0, ((5 % SequenceSpan) + 1) % SequenceSpan, 0, "done")
    BY <1>1, <1>7, <2>1, ReadsPacket
  <2>3. Follows(c4, p5) = "ready"
    BY <1>7, <2>1 DEF Follows
  <2> QED
    BY <2>2, <2>3 DEF ReaderIs
<1>13. ResponseTypes'
  BY <1>1, <1>12 DEF ReaderInv, ResponseTypes
<1>14. WarningsReported'
  BY <1>12 DEF WarningsReported
<1> QED
  BY <1>1, <1>8, <1>12, <1>13, <1>14, BackInLoop

\* The stray error for long data of an unknown handle, and the end of the session.
LEMMA StrayKeeps == ASSUME ReaderInv, SendLongDataUnknown \/ End PROVE ReaderInv'
<1>1. CASE SendLongDataUnknown
  <2>1. /\ CommandRead /\ stray' = "yes" /\ client' = Reads(client, Packet("ERR", 1, 0, 0))
        /\ UNCHANGED <<at, todo, sequence, row, written, warnings, diagnostics>>
    BY <1>1 DEF SendLongDataUnknown, ErrorPayload
  <2>2. PICK p : p = Packet("ERR", 1, 0, 0)
    OBVIOUS
  <2>3. p \in PacketType /\ p.kind = "ERR"
    <3>1. "ERR" \in PacketKinds /\ 1 \in Sequences8 /\ 0 \in 0..MaxColumns /\ 0 \in 0..MaxUint16
      BY NextSequence, ResponseAssumption DEF PacketKinds
    <3> QED
      BY <2>2, <3>1, PacketFields
  <2>4. client \in Reader /\ client.at = "ready" /\ at = "loop"
    BY <2>1 DEF CommandRead, ReaderInv, ResponseTypes
  <2>5. Follows(client, p) = "lost"
    BY <2>3, <2>4 DEF Follows
  <2>6. client' \in Reader /\ client'.at = "lost"
    <3>1. ReaderIs(client', IF p.seq = client.next THEN Follows(client, p) ELSE "lost", client.asked,
                   IF client.todo > 0 THEN client.todo - 1 ELSE 0, (p.seq + p.frames) % SequenceSpan,
                   client.warnings, "error")
      BY <2>1, <2>2, <2>3, <2>4, ReadsPacket
    <3> QED
      BY <2>5, <3>1 DEF ReaderIs
  <2>7. ResponseTypes'
    BY <2>1, <2>6 DEF ReaderInv, ResponseTypes
  <2> QED
    BY <2>1, <2>4, <2>6, <2>7 DEF ReaderInv, WarningsReported
<1>2. CASE End
  <2>1. at' = "ended" /\ UNCHANGED <<todo, sequence, row, written, warnings, diagnostics, client, stray>>
    BY <1>2 DEF End
  <2> QED
    BY <2>1 DEF ReaderInv, ResponseTypes, WarningsReported
<1> QED
  BY <1>1, <1>2

\* The inductive step of the replies.
LEMMA NextReply == ReaderInv /\ [ResponseNext]_responseVars => ReaderInv'
<1> SUFFICES ASSUME ReaderInv, [ResponseNext]_responseVars PROVE ReaderInv'
  OBVIOUS
<1>1. CASE UNCHANGED responseVars
  BY <1>1 DEF responseVars, ReaderInv, ResponseTypes, WarningsReported
<1> QED
  BY <1>1, AnswerKeeps, HeaderKeeps, DefinitionsKeep, RowsKeep, WarningCountKeeps, StrayKeeps DEF ResponseNext

\* A session that waits for its first command.
LEMMA InitReply == ResponseInit => ReaderInv
<1> SUFFICES ASSUME ResponseInit PROVE ReaderInv
  OBVIOUS
<1>1. /\ MaxColumns \in Nat /\ MaxRows \in Nat /\ MaxUint16 \in Nat /\ MaxWarnings \in Nat
      /\ 0 \in 0..(SequenceSpan - 1)
  BY ResponseAssumption
<1>2. client \in Reader /\ client.at = "ready" /\ client.asked = "other"
  BY <1>1 DEF ResponseInit, Reader
<1>3. ResponseTypes
  BY <1>1, <1>2 DEF ResponseInit, ResponseTypes, None
<1> QED
  BY <1>2, <1>3 DEF ResponseInit, ReaderInv, WarningsReported

\* Every reply of a pooled session, with any number of columns, rows and frames and
\* whichever statement fails, is one the client reads to its end: each packet one
\* that may come there, with the next sequence number across the wrap; and the
\* warning count it reports is the statement's own.
THEOREM RepliesSoundHolds == ResponseSpec => []RepliesSound
<1>1. ReaderInv => RepliesSound
  BY DEF ReaderInv, ResponseTypes, RepliesSound, RepliesUnderstood, RepliesComplete, WarningsReported
<1> QED
  BY <1>1, InitReply, NextReply, PTL DEF ResponseSpec

-----------------------------------------------------------------------------
(* The arguments.                                                          *)
ChunkBytes == UNION {{bytes[i] : i \in DOMAIN bytes} : bytes \in Chunks}

\* What is kept is what was sent, and a dropped chunk is a pending error.
StoreInv ==
    /\ ArgumentTypes /\ longData \in [DOMAIN longData -> Seq(ChunkBytes)]
    /\ sent = longData /\ lost = longDataError
    /\ IsFiniteSet(KeptBytes) /\ LongDataBounded
LongInv == StoreInv /\ ArgumentsExact /\ ExecuteClears

\* A chunk is a sequence of bytes.
LEMMA ChunkIsSequence ==
    ASSUME NEW bytes \in Chunks
    PROVE  bytes \in Seq(ChunkBytes) /\ Len(bytes) \in Nat
<1>1. PICK S : S = {bytes[i] : i \in DOMAIN bytes}
  BY Zenon
<1>2. bytes \in Seq(S) /\ S \subseteq ChunkBytes
  BY <1>1, LongDataAssumption, Zenon DEF ChunkBytes
<1> QED
  BY <1>2

Positions(p, n, m) == {p} \X ((n + 1)..(n + m))

\* m consecutive positions of one parameter are m bytes.
LEMMA PositionsOf ==
    ASSUME NEW p, NEW n \in Nat, NEW m \in Nat
    PROVE  IsFiniteSet(Positions(p, n, m)) /\ Cardinality(Positions(p, n, m)) = m
<1>0. PICK R : R = Positions(p, n, m)
  BY Zenon
<1>1. n + 1 \in Int /\ n + m \in Int
  OBVIOUS
<1>2. PICK a, b : a = n + 1 /\ b = n + m
  BY Zenon
<1>3. /\ IsFiniteSet(a..b)
      /\ Cardinality(a..b) = IF a > b THEN 0 ELSE b - a + 1
  BY <1>1, <1>2, FS_Interval, Zenon
<1>4. (IF a > b THEN 0 ELSE b - a + 1) = m
  BY <1>2
<1>5. IsFiniteSet({p}) /\ Cardinality({p}) = 1
  BY FS_Singleton, Zenon
<1>6. IsFiniteSet(R) /\ Cardinality(R) = Cardinality({p}) * Cardinality(a..b)
  BY <1>0, <1>2, <1>3, <1>5, FS_Product, Zenon DEF Positions
<1>7. Cardinality(R) = 1 * m
  BY <1>3, <1>4, <1>5, <1>6, Zenon
<1>8. Cardinality(R) = m
  BY <1>7
<1> QED
  BY <1>0, <1>6, <1>8, Zenon

Appended(f, p, bytes, g) ==
    /\ DOMAIN g = DOMAIN f \cup {p} /\ g \in [DOMAIN g -> Seq(ChunkBytes)]
    /\ \A q \in DOMAIN f \ {p} : Len(g[q]) = Len(f[q])
    /\ p \notin DOMAIN f => Len(g[p]) = Len(bytes)
    /\ p \in DOMAIN f => Len(g[p]) = Len(f[p]) + Len(bytes)

\* append puts the chunk behind what its parameter has and changes no other.
LEMMA AddToAppends ==
    ASSUME NEW f, f \in [DOMAIN f -> Seq(ChunkBytes)], NEW p, NEW bytes \in Seq(ChunkBytes)
    PROVE  Appended(f, p, bytes, AddTo(f, p, bytes))
<1>0. PICK g, S : g = AddTo(f, p, bytes) /\ S = ChunkBytes
  BY Zenon
<1>1. /\ DOMAIN g = DOMAIN f \cup {p}
      /\ \A q \in DOMAIN f \cup {p} : g[q] = (IF q \in DOMAIN f THEN f[q] ELSE <<>>) \o (IF q = p THEN bytes ELSE <<>>)
      /\ g = [q \in DOMAIN f \cup {p} |-> g[q]]
  BY <1>0, Zenon DEF AddTo
<1>2. ASSUME NEW q \in DOMAIN f, q # p
      PROVE  g[q] = f[q] \o <<>> /\ g[q] \in Seq(S) /\ Len(g[q]) = Len(f[q])
  <2>1. f[q] \in Seq(S)
    BY <1>0, Zenon
  <2>2. g[q] = f[q] \o <<>>
    BY <1>1, <1>2, Zenon
  <2> QED
    BY <2>1, <2>2
<1>3. CASE p \notin DOMAIN f
  <2>1. g[p] = <<>> \o bytes
    BY <1>1, <1>3, Zenon
  <2>2. g[p] \in Seq(S) /\ Len(g[p]) = Len(bytes)
    BY <1>0, <2>1
  <2>3. \A q \in DOMAIN g : g[q] \in Seq(S)
    BY <1>1, <1>2, <2>2, Zenon
  <2>4. g \in [DOMAIN g -> Seq(S)]
    BY <1>1, <2>3, Zenon
  <2> QED
    BY <1>0, <1>1, <1>2, <1>3, <2>2, <2>4, Zenon DEF Appended
<1>4. CASE p \in DOMAIN f
  <2>1. g[p] = f[p] \o bytes /\ f[p] \in Seq(S)
    BY <1>0, <1>1, <1>4, Zenon
  <2>2. g[p] \in Seq(S) /\ Len(g[p]) = Len(f[p]) + Len(bytes)
    BY <1>0, <2>1
  <2>3. \A q \in DOMAIN g : g[q] \in Seq(S)
    BY <1>1, <1>2, <2>2, Zenon
  <2>4. g \in [DOMAIN g -> Seq(S)]
    BY <1>1, <2>3, Zenon
  <2> QED
    BY <1>0, <1>1, <1>2, <1>4, <2>2, <2>4, Zenon DEF Appended
<1> QED
  BY <1>3, <1>4, Zenon

KeptOf(f) == UNION {{p} \X (1..Len(f[p])) : p \in DOMAIN f}

\* Nothing is kept for no parameter.
LEMMA NothingKept ==
    /\ DOMAIN NoData = {} /\ NoData \in [DOMAIN NoData -> Seq(ChunkBytes)]
    /\ KeptOf(NoData) = {} /\ IsFiniteSet(KeptOf(NoData)) /\ Cardinality(KeptOf(NoData)) = 0
<1>1. DOMAIN NoData = {} /\ NoData \in [DOMAIN NoData -> Seq(ChunkBytes)]
  BY DEF NoData
<1>2. KeptOf(NoData) = {}
  BY <1>1 DEF KeptOf
<1>3. IsFiniteSet({}) /\ Cardinality({}) = 0
  BY FS_EmptySet, Zenon
<1> QED
  BY <1>1, <1>2, <1>3, Zenon

\* A chunk adds its bytes to what is kept.
LEMMA ChunkCounted ==
    ASSUME NEW f, f \in [DOMAIN f -> Seq(ChunkBytes)], NEW p, NEW bytes \in Seq(ChunkBytes),
           IsFiniteSet(KeptOf(f))
    PROVE  /\ IsFiniteSet(KeptOf(AddTo(f, p, bytes)))
           /\ Cardinality(KeptOf(AddTo(f, p, bytes))) = Cardinality(KeptOf(f)) + Len(bytes)
<1>0. PICK g : g = AddTo(f, p, bytes)
  BY Zenon
<1>a. PICK n, m : n = (IF p \in DOMAIN f THEN Len(f[p]) ELSE 0) /\ m = Len(bytes)
  BY Zenon
<1>b. PICK R : R = {p} \X ((n + 1)..(n + m))
  BY Zenon
<1>1. /\ DOMAIN g = DOMAIN f \cup {p}
      /\ \A q \in DOMAIN f \ {p} : Len(g[q]) = Len(f[q])
      /\ p \notin DOMAIN f => Len(g[p]) = Len(bytes)
      /\ p \in DOMAIN f => Len(g[p]) = Len(f[p]) + Len(bytes)
  <2>1. Appended(f, p, bytes, AddTo(f, p, bytes))
    BY AddToAppends, Zenon
  <2> QED
    BY <1>0, <2>1, Zenon DEF Appended
<1>2. n \in Nat /\ m \in Nat /\ Len(g[p]) = n + m
  <2>1. m \in Nat
    BY <1>a
  <2>2. CASE p \in DOMAIN f
    <3>1. f[p] \in Seq(ChunkBytes) /\ n = Len(f[p])
      BY <1>a, <2>2, Zenon
    <3> QED
      BY <1>1, <1>a, <2>1, <2>2, <3>1
  <2>3. CASE p \notin DOMAIN f
    BY <1>1, <1>a, <2>1, <2>3
  <2> QED
    BY <2>2, <2>3, Zenon
<1>3. IsFiniteSet(R) /\ Cardinality(R) = m
  <2>1. IsFiniteSet(Positions(p, n, m)) /\ Cardinality(Positions(p, n, m)) = m
    BY <1>2, PositionsOf, Zenon
  <2> QED
    BY <1>b, <2>1, Zenon DEF Positions
<1>4. KeptOf(g) = KeptOf(f) \cup R
  <2>1. ASSUME NEW q, NEW i PROVE <<q, i>> \in KeptOf(g) <=> q \in DOMAIN g /\ i \in 1..Len(g[q])
    BY DEF KeptOf
  <2>2. ASSUME NEW q, NEW i PROVE <<q, i>> \in KeptOf(f) <=> q \in DOMAIN f /\ i \in 1..Len(f[q])
    BY DEF KeptOf
  <2>3. ASSUME NEW q, NEW i PROVE <<q, i>> \in R <=> q = p /\ i \in (n + 1)..(n + m)
    BY <1>b
  <2>4. ASSUME NEW q, NEW i, q # p PROVE <<q, i>> \in KeptOf(g) <=> <<q, i>> \in KeptOf(f) \cup R
    BY <1>1, <2>1, <2>2, <2>3, <2>4, Zenon
  <2>5. ASSUME NEW i PROVE <<p, i>> \in KeptOf(g) <=> <<p, i>> \in KeptOf(f) \cup R
    <3>1. <<p, i>> \in KeptOf(g) <=> i \in 1..(n + m)
      BY <1>1, <1>2, <2>1
    <3>2. <<p, i>> \in KeptOf(f) <=> i \in 1..n
      <4>1. CASE p \in DOMAIN f
        BY <4>1, <2>2, <1>a, Zenon
      <4>2. CASE p \notin DOMAIN f
        BY <4>2, <2>2, <1>a
      <4> QED
        BY <4>1, <4>2, Zenon
    <3>3. i \in 1..(n + m) <=> (i \in 1..n \/ i \in (n + 1)..(n + m))
      BY <1>2
    <3> QED
      BY <3>1, <3>2, <3>3, <2>3, Zenon
  <2>6. \A u \in KeptOf(g) \cup KeptOf(f) \cup R : \E q, i : u = <<q, i>>
    <3>1. \A u \in R : \E q, i : u = <<q, i>>
      BY <1>b
    <3>2. \A u \in KeptOf(g) \cup KeptOf(f) : \E q, i : u = <<q, i>>
      BY DEF KeptOf
    <3> QED
      BY <3>1, <3>2, Zenon
  <2>7. \A q, i : <<q, i>> \in KeptOf(g) <=> <<q, i>> \in KeptOf(f) \cup R
    BY <2>4, <2>5, Zenon
  <2> QED
    BY <2>6, <2>7
<1>5. KeptOf(f) \cap R = {}
  <2>1. ASSUME NEW u \in KeptOf(f), u \in R PROVE FALSE
    <3>1. PICK i \in (n + 1)..(n + m) : u = <<p, i>>
      BY <1>b, <2>1
    <3>2. p \in DOMAIN f /\ i \in 1..Len(f[p])
      BY <2>1, <3>1 DEF KeptOf
    <3>3. n = Len(f[p])
      BY <1>a, <3>2, Zenon
    <3> QED
      BY <1>2, <3>1, <3>2, <3>3
  <2> QED
    BY <2>1, Zenon
<1>6. /\ IsFiniteSet(KeptOf(f) \cup R)
      /\ Cardinality(KeptOf(f) \cup R) = Cardinality(KeptOf(f)) + Cardinality(R) - Cardinality(KeptOf(f) \cap R)
  BY <1>3, FS_Union, Zenon
<1>7. Cardinality(KeptOf(f) \cap R) = 0 /\ Cardinality(KeptOf(f)) \in Nat
  BY <1>5, FS_EmptySet, FS_CardinalityType, Zenon
<1>8. Cardinality(KeptOf(g)) = Cardinality(KeptOf(f)) + m - 0
  BY <1>3, <1>4, <1>6, <1>7, Zenon
<1>9. Cardinality(KeptOf(g)) = Cardinality(KeptOf(f)) + m
  BY <1>2, <1>7, <1>8
<1> QED
  BY <1>0, <1>4, <1>6, <1>9, <1>a, Zenon

StatementTypes(h, n, types) ==
    h \in {"open", "closed"} /\ n \in 0..MaxParams /\ types \in [1..n -> {"zero", "null", "other"}]

\* The types of the statement and of the store, one by one.
LEMMA StoreTypes ==
    ASSUME StoreInv
    PROVE  /\ StatementTypes(handle, parameterCount, parameterTypes) /\ DOMAIN longData \subseteq 1..parameterCount
           /\ longData \in [DOMAIN longData -> Seq(ChunkBytes)] /\ sent = longData /\ lost = longDataError
           /\ IsFiniteSet(KeptOf(longData)) /\ longDataBytes = Cardinality(KeptOf(longData))
           /\ longDataBytes \in Nat /\ longDataBytes <= MaxLongData /\ lost \in BOOLEAN
BY DEF StoreInv, ArgumentTypes, StatementTypes, Params, LongDataBounded, KeptBytes, KeptOf

\* What the next state has to show of them.
LEMMA StoreTypesNext ==
    ASSUME StatementTypes(handle', parameterCount', parameterTypes'), DOMAIN longData' \subseteq 1..parameterCount',
           longData' \in [DOMAIN longData' -> Seq(ChunkBytes)], sent' = longData', lost' = longDataError',
           IsFiniteSet(KeptOf(longData')), longDataBytes' = Cardinality(KeptOf(longData')),
           longDataBytes' \in Nat, longDataBytes' <= MaxLongData, lost' \in BOOLEAN
    PROVE  StoreInv'
BY DEF StoreInv, ArgumentTypes, StatementTypes, Params, LongDataBounded, KeptBytes, KeptOf

\* A handle that is prepared, closed, reset or executed has an empty store.
LEMMA ClearedStore ==
    ASSUME StatementTypes(handle', parameterCount', parameterTypes'), ClearLongData, sent' = NoData, lost' = FALSE
    PROVE  StoreInv' /\ longData' = NoData /\ longDataBytes' = 0 /\ longDataError' = FALSE
<1>1. longData' = NoData /\ longDataBytes' = 0 /\ longDataError' = FALSE
  BY Zenon DEF ClearLongData
<1>2. DOMAIN longData' \subseteq 1..parameterCount'
  BY <1>1, NothingKept, Zenon
<1>3. 0 \in Nat /\ 0 <= MaxLongData
  BY LongDataAssumption
<1>4. StoreInv'
  BY <1>1, <1>2, <1>3, NothingKept, StoreTypesNext, Zenon
<1> QED
  BY <1>1, <1>4, Zenon

\* A step that keeps the statement and its store.
LEMMA StoreKept ==
    ASSUME StoreInv, UNCHANGED <<statement, store, sent, lost>>
    PROVE  StoreInv'
BY DEF StoreInv, ArgumentTypes, Params, LongDataBounded, KeptBytes, statement, store

\* A step that is neither an execute nor a reset says nothing about arguments.
LEMMA OtherAnswer ==
    ASSUME last'.op \notin {"run", "tooLong", "malformed", "reset"}
    PROVE  ArgumentsExact' /\ ExecuteClears'
BY DEF ArgumentsExact, ExecuteClears

\* A chunk within the bound is counted and kept; one over it is dropped, and
\* remembered as an error.
LEMMA SendKeeps ==
    ASSUME StoreInv, NEW p \in 1..(MaxParams + 1), NEW bytes \in Chunks, SendLongData(p, bytes)
    PROVE  LongInv'
<1>a. bytes \in Seq(ChunkBytes) /\ Len(bytes) \in Nat
  BY ChunkIsSequence, Zenon
<1>0. ArgumentsExact' /\ ExecuteClears'
  <2>1. last' = [op |-> "send"]
    BY DEF SendLongData
  <2> QED
    BY <2>1, OtherAnswer
<1>1. handle' = handle /\ parameterCount' = parameterCount /\ parameterTypes' = parameterTypes /\ p \in 1..parameterCount
  BY DEF SendLongData, statement, Params
<1>2. CASE longDataBytes + Len(bytes) > MaxLongData
  <2>1. /\ longDataError' = TRUE /\ lost' = TRUE
        /\ longData' = longData /\ longDataBytes' = longDataBytes /\ sent' = sent
    BY <1>2 DEF SendLongData
  <2>2. StoreInv'
    BY <1>1, <2>1, StoreTypes, StoreTypesNext, Zenon
  <2> QED
    BY <1>0, <2>2, Zenon DEF LongInv
<1>3. CASE ~(longDataBytes + Len(bytes) > MaxLongData)
  <2>1. /\ longData' = AddTo(longData, p, bytes) /\ longDataBytes' = longDataBytes + Len(bytes)
        /\ sent' = AddTo(sent, p, bytes) /\ longDataError' = longDataError /\ lost' = lost
    BY <1>3 DEF SendLongData
  <2>2. /\ IsFiniteSet(KeptOf(longData'))
        /\ Cardinality(KeptOf(longData')) = Cardinality(KeptOf(longData)) + Len(bytes)
    BY <1>a, <2>1, StoreTypes, ChunkCounted, Zenon
  <2>3. Appended(longData, p, bytes, longData')
    BY <1>a, <2>1, StoreTypes, AddToAppends, Zenon
  <2>4. /\ DOMAIN longData' \subseteq 1..parameterCount
        /\ longData' \in [DOMAIN longData' -> Seq(ChunkBytes)]
    BY <1>1, <2>3, StoreTypes, Zenon DEF Appended
  <2>5. longDataBytes' = Cardinality(KeptOf(longData'))
    BY <2>1, <2>2, StoreTypes, Zenon
  <2>6. longDataBytes' \in Nat /\ longDataBytes' <= MaxLongData
    BY <1>3, <1>a, <2>1, StoreTypes, LongDataAssumption
  <2>7. sent' = longData'
    BY <2>1, StoreTypes, Zenon
  <2>8. StoreInv'
    BY <1>1, <2>1, <2>2, <2>4, <2>5, <2>6, <2>7, StoreTypes, StoreTypesNext, Zenon
  <2> QED
    BY <1>0, <2>8, Zenon DEF LongInv
<1> QED
  BY <1>2, <1>3, Zenon

\* decodeArguments gives each parameter what the client meant, when nothing was
\* dropped: the data kept is the data sent, and only an empty value is changed.
LEMMA ArgumentMeant ==
    ASSUME StoreInv, NEW x, NEW q
    PROVE  Argument(x, q) = Meant(x, q) \/ Meant(x, q) = <<>>
<1>1. sent = longData
  BY StoreTypes, Zenon
<1>2. ASSUME NEW b PROVE Copied(b) = b \/ b = <<>>
  BY Zenon DEF Copied
<1>3. CASE q \in x.nulls
  BY <1>3, Zenon DEF Argument, Meant
<1>4. CASE q \notin x.nulls /\ q \in DOMAIN longData
  <2>1. Argument(x, q) = Copied(longData[q]) /\ Meant(x, q) = longData[q]
    BY <1>1, <1>4, Zenon DEF Argument, Meant
  <2> QED
    BY <1>2, <2>1, Zenon
<1>5. CASE q \notin x.nulls /\ q \notin DOMAIN longData /\ TypesAfter(x)[q] = "null"
  BY <1>1, <1>5, Zenon DEF Argument, Meant
<1>6. CASE q \notin x.nulls /\ q \notin DOMAIN longData /\ TypesAfter(x)[q] # "null"
  <2>1. Argument(x, q) = Copied(x.values[q]) /\ Meant(x, q) = x.values[q]
    BY <1>1, <1>6, Zenon DEF Argument, Meant
  <2> QED
    BY <1>2, <2>1, Zenon
<1> QED
  BY <1>3, <1>4, <1>5, <1>6, Zenon

\* The type array a packet carries has a type for each parameter.
LEMMA PacketTypes ==
    ASSUME StoreInv, NEW x \in Packets
    PROVE  StatementTypes(handle, parameterCount, TypesAfter(x))
<1>1. StatementTypes(handle, parameterCount, parameterTypes)
  BY StoreTypes, Zenon
<1>2. x.sends = "array" => x.types \in [Params -> {"zero", "null", "other"}]
  BY Zenon DEF Packets
<1> QED
  BY <1>1, <1>2, Zenon DEF StatementTypes, TypesAfter, Params

\* An execute runs with the arguments the client meant or does not run, and
\* leaves an empty store unless it was refused for its cursor flag.
LEMMA ExecuteKeeps ==
    ASSUME StoreInv, NEW x \in Packets, Execute(x)
    PROVE  LongInv'
<1>1. handle' = handle /\ parameterCount' = parameterCount
  BY DEF Execute
<1>2. CASE x.cursor
  <2>1. last' = [op |-> "cursor"] /\ UNCHANGED <<parameterTypes, store, sent, lost>>
    BY <1>2 DEF Execute
  <2>2. StoreInv'
    BY <1>1, <2>1, StoreKept DEF statement
  <2> QED
    BY <2>1, <2>2, OtherAnswer DEF LongInv
<1>3. CASE ~x.cursor
  <2>1. /\ ClearLongData /\ sent' = NoData /\ lost' = FALSE
        /\ IF longDataError THEN last' = [op |-> "tooLong"] /\ UNCHANGED parameterTypes
           ELSE /\ parameterTypes' = IF parameterCount = 0 THEN parameterTypes ELSE TypesAfter(x)
                /\ last' = IF DecodeFails(x) THEN [op |-> "malformed"]
                           ELSE [op |-> "run", args |-> [p \in Params |-> Argument(x, p)],
                                 meant |-> [p \in Params |-> Meant(x, p)], lost |-> lost]
    BY <1>3, Zenon DEF Execute
  <2>2. StatementTypes(handle', parameterCount', parameterTypes')
    BY <1>1, <2>1, StoreTypes, PacketTypes, Zenon
  <2>3. StoreInv' /\ longData' = NoData /\ longDataBytes' = 0 /\ longDataError' = FALSE
    BY <2>1, <2>2, ClearedStore, Zenon
  <2>4. ExecuteClears'
    BY <2>3, Zenon DEF ExecuteClears
  <2>5. ArgumentsExact'
    <3>1. CASE longDataError \/ DecodeFails(x)
      <4>1. last' = [op |-> "tooLong"] \/ last' = [op |-> "malformed"]
        BY <2>1, <3>1, Zenon
      <4> QED
        BY <4>1 DEF ArgumentsExact
    <3>2. CASE ~longDataError /\ ~DecodeFails(x)
      <4>1. PICK args, meant : args = [p \in Params |-> Argument(x, p)] /\ meant = [p \in Params |-> Meant(x, p)]
        BY Zenon
      <4>2. last' = [op |-> "run", args |-> args, meant |-> meant, lost |-> lost]
        BY <2>1, <3>2, <4>1, Zenon
      <4>3. \A p \in Params : args[p] = meant[p] \/ meant[p] = <<>>
        BY <4>1, ArgumentMeant, Zenon
      <4>4. Params' = Params /\ lost = FALSE
        BY <1>1, <3>2, StoreTypes DEF Params
      <4>5. last'.args = args /\ last'.meant = meant /\ last'.lost = FALSE
        BY <4>2, <4>4
      <4> QED
        BY <4>3, <4>4, <4>5, Zenon DEF ArgumentsExact
    <3> QED
      BY <3>1, <3>2, Zenon
  <2> QED
    BY <2>3, <2>4, <2>5, Zenon DEF LongInv
<1> QED
  BY <1>2, <1>3, Zenon

\* Every command on the handle keeps the invariant.
LEMMA NextLong == LongInv /\ [ArgumentNext]_arguments => LongInv'
<1> SUFFICES ASSUME LongInv, [ArgumentNext]_arguments PROVE LongInv'
  BY Zenon
<1>0. StoreInv /\ StatementTypes(handle, parameterCount, parameterTypes)
  BY StoreTypes, Zenon DEF LongInv
<1>1. ASSUME NEW n \in 0..MaxParams, PrepareHandle(n) PROVE LongInv'
  <2>1. StatementTypes(handle', parameterCount', parameterTypes')
    BY <1>1 DEF PrepareHandle, StatementTypes
  <2>2. StoreInv'
    BY <1>1, <2>1, ClearedStore, Zenon DEF PrepareHandle, ClearLongData
  <2> QED
    BY <1>1, <2>2, OtherAnswer DEF PrepareHandle, LongInv
<1>2. CASE Close
  <2>1. StatementTypes(handle', parameterCount', parameterTypes')
    BY <1>2, LongDataAssumption DEF Close, StatementTypes
  <2>2. StoreInv'
    BY <1>2, <2>1, ClearedStore, Zenon DEF Close, ClearLongData
  <2> QED
    BY <1>2, <2>2, OtherAnswer DEF Close, LongInv
<1>3. CASE Reset
  <2>1. StatementTypes(handle', parameterCount', parameterTypes')
    BY <1>0, <1>3 DEF Reset, statement
  <2>2. StoreInv' /\ longData' = NoData /\ longDataBytes' = 0 /\ longDataError' = FALSE
    BY <1>3, <2>1, ClearedStore, Zenon DEF Reset
  <2>3. ExecuteClears'
    BY <2>2, Zenon DEF ExecuteClears
  <2>4. ArgumentsExact'
    BY <1>3 DEF Reset, ArgumentsExact
  <2> QED
    BY <2>2, <2>3, <2>4, Zenon DEF LongInv
<1>4. ASSUME last' = [op |-> "refused"], UNCHANGED <<statement, store, sent, lost>> PROVE LongInv'
  BY <1>0, <1>4, StoreKept, OtherAnswer DEF LongInv
<1>5. CASE ExecuteUnknown \/ \E p \in 1..(MaxParams + 1) : SendRefused(p)
  BY <1>4, <1>5, Zenon DEF ExecuteUnknown, SendRefused
<1>6. CASE \E p \in 1..(MaxParams + 1) : \E bytes \in Chunks : SendLongData(p, bytes)
  BY <1>0, <1>6, SendKeeps, Zenon
<1>7. CASE \E x \in Packets : Execute(x)
  BY <1>0, <1>7, ExecuteKeeps, Zenon
<1>8. CASE UNCHANGED arguments
  <2>1. UNCHANGED <<statement, store, sent, lost>> /\ last' = last
    BY <1>8 DEF arguments
  <2>2. StoreInv'
    BY <1>0, <2>1, StoreKept, Zenon
  <2>3. ArgumentsExact' /\ ExecuteClears'
    BY <2>1 DEF LongInv, ArgumentsExact, ExecuteClears, statement, store, Params
  <2> QED
    BY <2>2, <2>3, Zenon DEF LongInv
<1> QED
  BY <1>1, <1>2, <1>3, <1>5, <1>6, <1>7, <1>8, Zenon DEF ArgumentNext

\* A connection starts without a handle.
LEMMA InitLong == ArgumentInit => LongInv
<1> SUFFICES ASSUME ArgumentInit PROVE LongInv
  BY Zenon
<1>1. KeptBytes = KeptOf(NoData) /\ longData = NoData /\ sent = NoData
  BY DEF ArgumentInit, KeptBytes, KeptOf
<1>2. LongDataBounded /\ IsFiniteSet(KeptBytes)
  <2>1. longDataBytes = 0 /\ 0 <= MaxLongData
    BY LongDataAssumption DEF ArgumentInit
  <2> QED
    BY <1>1, <2>1, NothingKept, Zenon DEF LongDataBounded
<1>3. ArgumentTypes
  <2>1. parameterCount = 0 /\ parameterCount \in 0..MaxParams /\ Params = {}
    BY LongDataAssumption DEF ArgumentInit, Params
  <2>2. parameterTypes \in [Params -> {"zero", "null", "other"}]
    BY <2>1 DEF ArgumentInit
  <2>3. DOMAIN longData \subseteq Params /\ DOMAIN sent \subseteq Params
    BY <1>1, NothingKept, Zenon
  <2> QED
    BY <2>1, <2>2, <2>3, Zenon DEF ArgumentInit, ArgumentTypes
<1>4. longData \in [DOMAIN longData -> Seq(ChunkBytes)]
  BY <1>1, NothingKept, Zenon
<1>5. ArgumentsExact /\ ExecuteClears /\ lost = longDataError
  BY Zenon DEF ArgumentInit, ArgumentsExact, ExecuteClears
<1> QED
  BY <1>1, <1>2, <1>3, <1>4, <1>5, Zenon DEF LongInv, StoreInv

\* For every number of parameters, every bound and every set of chunks: the long
\* data kept is counted and bounded (sendPreparedLongData), a statement runs with
\* exactly the arguments the client meant or not at all (decodeArguments), and an
\* execute leaves nothing behind (executePrepared).
THEOREM LongDataSoundHolds == ArgumentSpec => []LongDataSound
<1>1. LongInv => LongDataSound
  BY Zenon DEF LongInv, StoreInv, LongDataSound
<1> QED
  BY <1>1, InitLong, NextLong, PTL DEF ArgumentSpec
=============================================================================
