---------------------------- MODULE CodecProofs ----------------------------
(***************************************************************************)
(* Theorems about Codec for every frame size, message limit and sequence   *)
(* span: ReadMessage's buffer is bounded whatever the peer writes, and     *)
(* from a peer with the same codec the messages come whole, once and in    *)
(* order.                                                                  *)
(***************************************************************************)
EXTENDS Codec, SequenceTheorems, TLAPS

Sent == [sequence : 0..(SequenceSpan - 1), payload : UpTo(MaxMessageBytes)]

CodecBounds ==
    /\ CodecTypes /\ BufferBounded
    /\ payload \in Seq(Bytes) /\ sent \in Seq(Sent) /\ received \in Seq(Sent)

\* The sequence number of frame j of the wire, or of the next one to be written.
SeqAt(j) == IF j = Len(wire) + 1 THEN sequence ELSE wire[j].seq
Text(i) == sent[i].payload

\* Frame f is the part of message o after its first p bytes; next is the sequence
\* number that follows, o2 and p2 the place of the frame that does.
FrameIs(f, next, o, p, o2, p2) ==
    LET n == Len(f.bytes) IN
    /\ o \in 1..Len(sent) /\ p + n <= Len(Text(o))
    /\ f.bytes = SubSeq(Text(o), p + 1, p + n)
    /\ p = 0 => f.seq = sent[o].sequence
    /\ next = Up(f.seq)
    /\ IF n < FramePayload THEN o2 = o + 1 /\ p2 = 0 /\ p + n = Len(Text(o))
                           ELSE o2 = o /\ p2 = p + n
\* The writer has written p bytes of message o, and the reader has read p of message o.
WriterAt(o, p) ==
    IF writing = "yes"
    THEN /\ o = Len(sent) /\ o > 0 /\ p <= Len(Text(o))
         /\ remaining = SubSeq(Text(o), p + 1, Len(Text(o)))
         /\ p = 0 => sequence = sent[o].sequence
    ELSE o = Len(sent) + 1 /\ p = 0
ReaderAt(o, p, next) ==
    /\ o = Len(received) + 1
    /\ IF frames = 0
       THEN p = 0 /\ payload = << >>
       ELSE /\ o <= Len(sent) /\ p > 0 /\ p <= Len(Text(o)) /\ payload = SubSeq(Text(o), 1, p)
            /\ first = sent[o].sequence /\ expected = next

\* The frames on the wire are, in order, what lies between the reader and the
\* writer: own[j] and off[j] are the message and the place in it of frame j.
Cut(own, off) ==
    /\ own \in [1..(Len(wire) + 1) -> Nat] /\ off \in [1..(Len(wire) + 1) -> Nat]
    /\ \A j \in 1..Len(wire) : FrameIs(wire[j], SeqAt(j + 1), own[j], off[j], own[j + 1], off[j + 1])
    /\ WriterAt(own[Len(wire) + 1], off[Len(wire) + 1])
    /\ ReaderAt(own[1], off[1], SeqAt(1))

Delivered == Len(received) <= Len(sent) /\ \A i \in 1..Len(received) : received[i] = sent[i]

CodecInv ==
    /\ CodecBounds
    /\ peer = "codec" => Delivered /\ reader \in {"reading", "lost"} /\ \E own, off : Cut(own, off)
    /\ peer = "other" => sent = << >> /\ writing = "no"

-----------------------------------------------------------------------------
\* UpTo(n) is the set of byte sequences of length at most n.
LEMMA UpToSeq ==
    ASSUME NEW n \in Nat
    PROVE  \A s : s \in UpTo(n) <=> s \in Seq(Bytes) /\ Len(s) <= n
<1>1. ASSUME NEW s \in UpTo(n) PROVE s \in Seq(Bytes) /\ Len(s) <= n
  <2>1. PICK k \in 0..n : s \in [1..k -> Bytes]
    BY <1>1 DEF UpTo
  <2>2. s \in Seq(Bytes)
    BY <2>1, SeqDef
  <2> QED
    BY <2>1, <2>2
<1>2. ASSUME NEW s \in Seq(Bytes), Len(s) <= n PROVE s \in UpTo(n)
  <2>1. Len(s) \in 0..n /\ s \in [1..Len(s) -> Bytes]
    BY <1>2, LenProperties
  <2> QED
    BY <2>1 DEF UpTo
<1> QED
  BY <1>1, <1>2, Zenon

\* What is known of a text of at most n bytes.
LEMMA UpToElim ==
    ASSUME NEW n \in Nat, NEW s \in UpTo(n)
    PROVE  s \in Seq(Bytes) /\ Len(s) \in Nat /\ Len(s) <= n /\ DOMAIN s = 1..Len(s)
<1>1. s \in Seq(Bytes) /\ Len(s) <= n
  BY UpToSeq
<1> QED
  BY <1>1, LenProperties

\* A sequence of at most n bytes is such a text.
LEMMA UpToIntro ==
    ASSUME NEW n \in Nat, NEW s \in Seq(Bytes), Len(s) <= n
    PROVE  s \in UpTo(n)
BY UpToSeq

\* The empty payload is a text of any size.
LEMMA EmptyUpTo == ASSUME NEW n \in Nat PROVE << >> \in UpTo(n)
<1>1. PICK e \in Seq(Bytes) : e = << >> /\ Len(e) = 0
  BY EmptySeq, Zenon
<1>2. Len(e) <= n
  BY <1>1
<1>3. e \in UpTo(n)
  BY <1>2, UpToIntro
<1> QED
  BY <1>1, <1>3

\* A step of the sequence stays in the span of the uint8.
LEMMA UpInSpan ==
    ASSUME NEW n \in 0..(SequenceSpan - 1)
    PROVE  Up(n) \in 0..(SequenceSpan - 1)
BY CodecAssumption DEF Up

\* What ReadMessage and WriteMessage hold stays within the limits.
LEMMA BoundsKept == CodecBounds /\ [CodecNext]_codecVars => CodecBounds'
<1> SUFFICES ASSUME CodecBounds, [CodecNext]_codecVars PROVE CodecBounds'
  OBVIOUS
<1> USE CodecAssumption
<1>a. remaining \in Seq(Bytes) /\ Len(remaining) \in Nat /\ Len(remaining) <= MaxMessageBytes
  BY UpToElim, Zenon DEF CodecBounds, CodecTypes
<1>b. sequence \in 0..(SequenceSpan - 1) /\ wire \in Seq(Frame) /\ sent \in Seq(Sent)
  BY Zenon DEF CodecBounds, CodecTypes
<1>c. << >> \in UpTo(MaxMessageBytes)
  BY EmptyUpTo
<1>1. ASSUME NEW m \in Payloads, WriteMessage(m) PROVE CodecBounds'
  <2>1. m \in UpTo(MaxMessageBytes)
    BY <1>1, UpToIntro DEF WriteMessage
  <2>2. sent' \in Seq(Sent)
    <3>1. [sequence |-> sequence, payload |-> m] \in Sent
      BY <2>1, <1>b DEF Sent
    <3> QED
      BY <1>1, <1>b, <3>1, AppendProperties DEF WriteMessage
  <2> QED
    BY <1>1, <2>1, <2>2, Zenon DEF WriteMessage, CodecBounds, CodecTypes, BufferBounded, reading
<1>2. CASE WriteFrame
  <2>1. /\ SubSeq(remaining, 1, FramePayload) \in Seq(Bytes)
        /\ Len(SubSeq(remaining, 1, FramePayload)) <= FramePayload
        /\ SubSeq(remaining, FramePayload + 1, Len(remaining)) \in Seq(Bytes)
        /\ Len(SubSeq(remaining, FramePayload + 1, Len(remaining))) <= MaxMessageBytes
    BY <1>2, <1>a DEF WriteFrame
  <2>2. SubSeq(remaining, 1, FramePayload) \in UpTo(FramePayload)
    BY <2>1, UpToIntro, Zenon
  <2>3. remaining' \in UpTo(MaxMessageBytes)
    BY <1>2, <2>1, UpToIntro, Zenon DEF WriteFrame
  <2>4. wire' \in Seq(Frame)
    <3>1. [seq |-> sequence, bytes |-> SubSeq(remaining, 1, FramePayload)] \in Frame
      BY <2>2, <1>b DEF Frame
    <3> QED
      BY <1>2, <1>b, <3>1, AppendProperties DEF WriteFrame
  <2> QED
    BY <1>2, <2>3, <2>4, UpInSpan, Zenon DEF WriteFrame, CodecBounds, CodecTypes, BufferBounded, reading
<1>3. CASE WriteLast
  <2>1. remaining \in UpTo(FramePayload)
    BY <1>3, <1>a, UpToIntro DEF WriteLast
  <2>2. wire' \in Seq(Frame)
    <3>1. [seq |-> sequence, bytes |-> remaining] \in Frame
      BY <2>1, <1>b DEF Frame
    <3> QED
      BY <1>3, <1>b, <3>1, AppendProperties DEF WriteLast
  <2> QED
    BY <1>3, <1>c, <2>2, UpInSpan, Zenon DEF WriteLast, CodecBounds, CodecTypes, BufferBounded, reading
<1>4. ASSUME NEW f \in ForeignFrames, Foreign(f) PROVE CodecBounds'
  <2>1. wire' \in Seq(Frame)
    BY <1>4, <1>b, AppendProperties DEF Foreign, ForeignFrames
  <2>2. foreign' \in 0..MaxForeign
    <3>1. foreign \in 0..MaxForeign
      BY Zenon DEF CodecBounds, CodecTypes
    <3> QED
      BY <1>4, <3>1 DEF Foreign
  <2> QED
    BY <1>4, <2>1, <2>2, Zenon DEF Foreign, CodecBounds, CodecTypes, BufferBounded, reading, writer
<1>5. CASE ReadFrame
  <2> DEFINE f == Head(wire)
             whole == payload \o f.bytes
             start == IF frames = 0 THEN f.seq ELSE first
  <2>1. f \in Frame /\ wire' \in Seq(Frame)
    BY <1>5 DEF ReadFrame, CodecBounds, CodecTypes
  <2>2. f.bytes \in Seq(Bytes) /\ f.seq \in 0..(SequenceSpan - 1) /\ f.seq = Wanted
    BY <1>5, <2>1, UpToElim DEF Frame, ReadFrame
  <2>3. whole \in Seq(Bytes) /\ Len(whole) <= MaxMessageBytes
    BY <1>5, <2>2 DEF ReadFrame, TooLarge, CodecBounds
  <2>4. start \in 0..(SequenceSpan - 1) /\ Up(Wanted) \in 0..(SequenceSpan - 1)
    BY <2>2, UpInSpan, Zenon DEF CodecBounds, CodecTypes
  <2>5. CASE Len(f.bytes) < FramePayload
    <3>1. [sequence |-> start, payload |-> whole] \in Sent
      BY <2>3, <2>4, UpToIntro, Zenon DEF Sent
    <3>2. received' = Append(received, [sequence |-> start, payload |-> whole]) /\ payload' = << >>
      BY <1>5, <2>5 DEF ReadFrame
    <3>3. received' \in Seq(Sent) /\ \A i \in 1..Len(received') : Len(received'[i].payload) <= MaxMessageBytes
      BY <3>1, <3>2, <2>3 DEF CodecBounds, BufferBounded
    <3> QED
      BY <1>5, <2>1, <2>5, <3>2, <3>3 DEF ReadFrame, CodecBounds, CodecTypes, BufferBounded, writer
  <2>6. CASE ~(Len(f.bytes) < FramePayload)
    <3>1. payload' = whole /\ received' = received /\ expected' = Up(Wanted) /\ first' = start /\ frames' = frames + 1
      BY <1>5, <2>6 DEF ReadFrame
    <3> HIDE DEF whole, start
    <3> QED
      BY <1>5, <2>1, <2>3, <2>4, <3>1 DEF ReadFrame, CodecBounds, CodecTypes, BufferBounded, writer
  <2> QED
    BY <2>5, <2>6
<1>6. CASE ReadFails \/ Disconnect
  BY <1>6, Zenon DEF ReadFails, Disconnect, CodecBounds, CodecTypes, BufferBounded, writer
<1>7. CASE UNCHANGED codecVars
  BY <1>7, Zenon DEF codecVars, writer, reading, CodecBounds, CodecTypes, BufferBounded
<1> QED
  BY <1>1, <1>2, <1>3, <1>4, <1>5, <1>6, <1>7 DEF CodecNext

\* Writer and reader start within their bounds.
LEMMA InitBounds == CodecInit => CodecBounds
<1>1. << >> \in UpTo(MaxMessageBytes)
  BY EmptyUpTo, CodecAssumption
<1> QED
  BY <1>1, CodecAssumption DEF CodecInit, CodecBounds, CodecTypes, BufferBounded

\* For any frame size, limit and peer, the buffer of ReadMessage and every message it
\* returns stay within maxMessageBytes (codec.go:36-68).
THEOREM BufferBoundedHolds == CodecSpec => []BufferBounded
<1>1. CodecSpec => []CodecBounds
  BY InitBounds, BoundsKept, PTL DEF CodecSpec
<1> QED
  BY <1>1, PTL DEF CodecBounds
-----------------------------------------------------------------------------
\* The messages written so far are byte sequences within the limit.
LEMMA TextType ==
    ASSUME CodecBounds, NEW o \in 1..Len(sent)
    PROVE  /\ Text(o) \in Seq(Bytes) /\ Len(Text(o)) \in Nat /\ Len(Text(o)) <= MaxMessageBytes
           /\ sent[o].sequence \in 0..(SequenceSpan - 1) /\ Len(sent) \in Nat
           /\ sent[o] = [sequence |-> sent[o].sequence, payload |-> Text(o)]
<1>1. sent[o] \in Sent /\ Len(sent) \in Nat
  BY ElementOfSeq, LenProperties DEF CodecBounds
<1>2. Text(o) \in UpTo(MaxMessageBytes) /\ sent[o].sequence \in 0..(SequenceSpan - 1)
      /\ sent[o] = [sequence |-> sent[o].sequence, payload |-> Text(o)]
  BY <1>1 DEF Sent, Text
<1> QED
  BY <1>1, <1>2, UpToElim, CodecAssumption

\* The variables the cut is about, as numbers and sequences.
LEMMA CutTypes ==
    ASSUME CodecBounds
    PROVE  /\ wire \in Seq(Frame) /\ Len(wire) \in Nat /\ frames \in Nat
           /\ sequence \in 0..(SequenceSpan - 1)
           /\ remaining \in Seq(Bytes) /\ Len(remaining) \in Nat
           /\ payload \in Seq(Bytes) /\ Len(payload) \in Nat
           /\ Len(sent) \in Nat /\ Len(received) \in Nat
<1>1. wire \in Seq(Frame) /\ sent \in Seq(Sent) /\ received \in Seq(Sent) /\ payload \in Seq(Bytes)
      /\ frames \in Nat /\ sequence \in 0..(SequenceSpan - 1) /\ remaining \in UpTo(MaxMessageBytes)
  BY Zenon DEF CodecBounds, CodecTypes
<1> QED
  BY <1>1, LenProperties, UpToElim, CodecAssumption

\* A frame of the wire.
LEMMA FrameType ==
    ASSUME CodecBounds, NEW j \in 1..Len(wire)
    PROVE  /\ wire[j] \in Frame /\ wire[j].bytes \in Seq(Bytes) /\ Len(wire[j].bytes) \in Nat
           /\ Len(wire[j].bytes) <= FramePayload
<1>1. wire[j] \in Frame
  BY ElementOfSeq, Zenon DEF CodecBounds, CodecTypes
<1>2. wire[j].bytes \in UpTo(FramePayload)
  BY <1>1 DEF Frame
<1> QED
  BY <1>1, <1>2, UpToElim, CodecAssumption

\* WriteMessage puts the writer at the start of a new message.
LEMMA CutWriteMessage ==
    ASSUME CodecBounds, NEW own, NEW off, Cut(own, off), NEW m \in Payloads, WriteMessage(m)
    PROVE  Cut(own, off)'
<1> DEFINE N == Len(wire)
<1>0. N \in Nat /\ Len(sent) \in Nat /\ sent \in Seq(Sent) /\ Len(received) \in Nat
  BY CutTypes DEF CodecBounds
<1>1. /\ wire' = wire /\ sequence' = sequence /\ remaining' = m /\ writing = "no" /\ writing' = "yes"
      /\ payload' = payload /\ frames' = frames /\ expected' = expected /\ first' = first
      /\ received' = received /\ sent' = Append(sent, [sequence |-> sequence, payload |-> m])
  BY DEF WriteMessage, reading
<1>2. /\ Len(sent') = Len(sent) + 1
      /\ \A i \in 1..Len(sent) : sent'[i] = sent[i]
      /\ sent'[Len(sent) + 1] = [sequence |-> sequence, payload |-> m]
  BY <1>0, <1>1
<1>3. \A f, n, o, p, o2, p2 : FrameIs(f, n, o, p, o2, p2) => FrameIs(f, n, o, p, o2, p2)'
  BY <1>0, <1>2 DEF FrameIs, Text
<1>4. own[N + 1] = Len(sent) + 1 /\ off[N + 1] = 0
  BY <1>1 DEF Cut, WriterAt
<1>5. WriterAt(own[N + 1], off[N + 1])'
  <2>1. m \in Seq(Bytes) /\ SubSeq(m, 1, Len(m)) = m /\ Len(m) \in Nat
    BY CodecAssumption, SubSeqFull, LenProperties
  <2> QED
    BY <1>0, <1>1, <1>2, <1>4, <2>1 DEF WriterAt, Text
<1>6. SeqAt(1)' = SeqAt(1) /\ \A j \in 1..N : SeqAt(j + 1)' = SeqAt(j + 1)
  BY <1>1 DEF SeqAt
<1>7. ReaderAt(own[1], off[1], SeqAt(1))'
  <2>1. ReaderAt(own[1], off[1], SeqAt(1))
    BY DEF Cut
  <2>2. frames # 0 => own[1] \in 1..Len(sent)
    BY <2>1, <1>0 DEF ReaderAt
  <2> QED
    BY <2>1, <2>2, <1>0, <1>1, <1>2, <1>6 DEF ReaderAt, Text
<1>8. \A j \in 1..N : FrameIs(wire[j], SeqAt(j + 1), own[j], off[j], own[j + 1], off[j + 1])'
  BY <1>1, <1>3, <1>6 DEF Cut
<1> QED
  BY <1>1, <1>5, <1>7, <1>8 DEF Cut

\* A frame is added at the writer's end; the frames before it stay what they are.
LEMMA CutAppend ==
    ASSUME CodecBounds, NEW own, NEW off, Cut(own, off), NEW g \in Frame, g.seq = sequence,
           wire' = Append(wire, g), sequence' = Up(sequence),
           UNCHANGED <<sent, reading>>,
           NEW o \in Nat, NEW p \in Nat,
           FrameIs(g, Up(sequence), own[Len(wire) + 1], off[Len(wire) + 1], o, p),
           WriterAt(o, p)'
    PROVE  \E own2, off2 : Cut(own2, off2)'
<1>0. PICK N \in Nat : N = Len(wire)
  BY CutTypes
<1> DEFINE own2 == [j \in 1..(N + 2) |-> IF j = N + 2 THEN o ELSE own[j]]
           off2 == [j \in 1..(N + 2) |-> IF j = N + 2 THEN p ELSE off[j]]
<1>1. Len(wire') = N + 1 /\ wire'[N + 1] = g /\ \A j \in 1..N : wire'[j] = wire[j]
  BY <1>0, CutTypes
<1>2. own2 \in [1..(N + 2) -> Nat] /\ off2 \in [1..(N + 2) -> Nat]
  BY <1>0 DEF Cut
<1>9. own2[N + 2] = o /\ off2[N + 2] = p
  BY <1>0
<1>3. /\ \A j \in 1..(N + 1) : SeqAt(j)' = SeqAt(j)
      /\ SeqAt(N + 2)' = Up(sequence)
  BY <1>0, <1>1 DEF SeqAt
<1>4. \A f, n, a, b, a2, b2 : FrameIs(f, n, a, b, a2, b2) => FrameIs(f, n, a, b, a2, b2)'
  BY DEF FrameIs, Text
<1>5. ASSUME NEW j \in 1..(N + 1)
      PROVE  FrameIs(wire[j], SeqAt(j + 1), own2[j], off2[j], own2[j + 1], off2[j + 1])'
  <2>1. CASE j = N + 1
    <3>1. /\ own2[j] = own[N + 1] /\ off2[j] = off[N + 1] /\ own2[j + 1] = o /\ off2[j + 1] = p
          /\ wire'[j] = g /\ SeqAt(j + 1)' = Up(sequence)
      BY <1>0, <1>1, <1>3, <2>1
    <3>2. FrameIs(g, Up(sequence), own[N + 1], off[N + 1], o, p)
      BY <1>0
    <3> QED
      BY <3>1, <3>2, <1>4
  <2>2. CASE j \in 1..N
    <3>1. /\ own2[j] = own[j] /\ off2[j] = off[j] /\ own2[j + 1] = own[j + 1] /\ off2[j + 1] = off[j + 1]
          /\ wire'[j] = wire[j] /\ SeqAt(j + 1)' = SeqAt(j + 1)
      BY <1>0, <1>1, <1>3, <2>2
    <3>2. FrameIs(wire[j], SeqAt(j + 1), own[j], off[j], own[j + 1], off[j + 1])
      BY <1>0, <2>2 DEF Cut
    <3> QED
      BY <3>1, <3>2, <1>4
  <2> QED
    BY <2>1, <2>2, <1>0
<1>6. WriterAt(own2[N + 2], off2[N + 2])'
  BY <1>9
<1>7. ReaderAt(own2[1], off2[1], SeqAt(1))'
  <2>1. own2[1] = own[1] /\ off2[1] = off[1] /\ SeqAt(1)' = SeqAt(1)
    BY <1>0, <1>3
  <2>2. ReaderAt(own[1], off[1], SeqAt(1))
    BY DEF Cut
  <2> QED
    BY <2>1, <2>2 DEF ReaderAt, Text, reading
<1> HIDE DEF own2, off2
<1>8. Cut(own2, off2)'
  BY <1>0, <1>1, <1>2, <1>5, <1>6, <1>7 DEF Cut
<1> QED
  BY <1>8

\* The elements of a part of a message.
LEMMA PartOf ==
    ASSUME NEW s \in Seq(Bytes), NEW a \in Nat, NEW b \in Nat, a <= b, b <= Len(s)
    PROVE  /\ SubSeq(s, a + 1, b) \in Seq(Bytes) /\ Len(SubSeq(s, a + 1, b)) = b - a
           /\ \A i \in 1..(b - a) : SubSeq(s, a + 1, b)[i] = s[a + i]
BY LenProperties

\* The two parts of what is left of a message after its first p bytes.
LEMMA SubSeqTwice ==
    ASSUME NEW s \in Seq(Bytes), NEW p \in Nat, NEW k \in Nat, p + k <= Len(s),
           NEW t, t = SubSeq(s, p + 1, Len(s))
    PROVE  /\ SubSeq(t, 1, k) = SubSeq(s, p + 1, p + k)
           /\ SubSeq(t, 1, k) \in Seq(Bytes) /\ Len(SubSeq(t, 1, k)) = k
           /\ SubSeq(t, k + 1, Len(t)) = SubSeq(s, p + k + 1, Len(s))
<1>0. Len(s) \in Nat
  BY LenProperties
<1>1. t \in Seq(Bytes) /\ Len(t) = Len(s) - p /\ \A i \in 1..(Len(s) - p) : t[i] = s[p + i]
  <2>1. p <= Len(s)
    BY <1>0
  <2> QED
    BY <1>0, <2>1, PartOf
<1>2. /\ SubSeq(s, p + 1, p + k) \in Seq(Bytes) /\ Len(SubSeq(s, p + 1, p + k)) = k
      /\ \A i \in 1..k : SubSeq(s, p + 1, p + k)[i] = s[p + i]
  <2>1. PICK b \in Nat : b = p + k
    OBVIOUS
  <2> QED
    BY <1>0, <2>1, PartOf
<1>3. /\ SubSeq(t, 1, k) \in Seq(Bytes) /\ Len(SubSeq(t, 1, k)) = k
      /\ \A i \in 1..k : SubSeq(t, 1, k)[i] = s[p + i]
  <2>1. /\ SubSeq(t, 0 + 1, k) \in Seq(Bytes) /\ Len(SubSeq(t, 0 + 1, k)) = k - 0
        /\ \A i \in 1..(k - 0) : SubSeq(t, 0 + 1, k)[i] = t[0 + i]
    BY <1>0, <1>1, PartOf
  <2> QED
    BY <1>0, <1>1, <2>1
<1>4. SubSeq(t, 1, k) = SubSeq(s, p + 1, p + k)
  BY <1>2, <1>3, SeqEqual, Zenon
<1>5. PICK a \in Nat : a = p + k
  OBVIOUS
<1>6. /\ SubSeq(s, a + 1, Len(s)) \in Seq(Bytes) /\ Len(SubSeq(s, a + 1, Len(s))) = Len(s) - a
      /\ \A i \in 1..(Len(s) - a) : SubSeq(s, a + 1, Len(s))[i] = s[a + i]
  <2>1. a <= Len(s) /\ Len(s) <= Len(s)
    BY <1>0, <1>5
  <2> QED
    BY <1>0, <2>1, PartOf, Zenon
<1>7. /\ SubSeq(t, k + 1, Len(t)) \in Seq(Bytes) /\ Len(SubSeq(t, k + 1, Len(t))) = Len(t) - k
      /\ \A i \in 1..(Len(t) - k) : SubSeq(t, k + 1, Len(t))[i] = t[k + i]
  <2>1. Len(t) \in Nat /\ k <= Len(t) /\ Len(t) <= Len(t)
    BY <1>0, <1>1
  <2> QED
    BY <1>1, <2>1, PartOf, Zenon
<1>8. Len(t) - k = Len(s) - a /\ \A i \in 1..(Len(t) - k) : t[k + i] = s[a + i]
  <2>1. ASSUME NEW i \in 1..(Len(t) - k) PROVE t[k + i] = s[a + i]
    <3>1. k + i \in 1..(Len(s) - p)
      BY <1>0, <1>1
    <3>2. t[k + i] = s[p + (k + i)] /\ p + (k + i) = a + i
      BY <1>1, <1>5, <3>1
    <3> QED
      BY <3>2
  <2> QED
    BY <1>0, <1>1, <1>5, <2>1
<1>9. SubSeq(t, k + 1, Len(t)) = SubSeq(s, a + 1, Len(s))
  <2>1. PICK u, v : u = SubSeq(t, k + 1, Len(t)) /\ v = SubSeq(s, a + 1, Len(s))
    BY Zenon
  <2>3. u \in Seq(Bytes) /\ Len(u) = Len(t) - k /\ \A i \in 1..(Len(t) - k) : u[i] = t[k + i]
    BY <1>7, <2>1, Zenon
  <2>4. v \in Seq(Bytes) /\ Len(v) = Len(t) - k /\ \A i \in 1..(Len(t) - k) : v[i] = s[a + i]
    BY <1>6, <1>8, <2>1, Zenon
  <2>2. u \in Seq(Bytes) /\ v \in Seq(Bytes) /\ Len(u) = Len(v) /\ \A i \in 1..Len(u) : u[i] = v[i]
    BY <1>8, <2>3, <2>4, Zenon
  <2> QED
    BY <2>1, <2>2, SeqEqual, Zenon
<1> QED
  BY <1>3, <1>4, <1>5, <1>9

\* Both frames the writer may write are the next part of its message.
LEMMA CutWrite ==
    ASSUME CodecBounds, NEW own, NEW off, Cut(own, off), WriteFrame \/ WriteLast
    PROVE  \E own2, off2 : Cut(own2, off2)'
<1>a. PICK o, p : o = own[Len(wire) + 1] /\ p = off[Len(wire) + 1]
  OBVIOUS
<1>b. WriterAt(o, p) /\ o \in Nat /\ p \in Nat
  <2>1. Len(wire) + 1 \in 1..(Len(wire) + 1)
    BY CutTypes
  <2> QED
    BY <1>a, <2>1 DEF Cut
<1>c. PICK m : m = Text(o)
  OBVIOUS
<1>0. /\ o = Len(sent) /\ o \in 1..Len(sent) /\ p \in Nat /\ p <= Len(m)
      /\ remaining = SubSeq(m, p + 1, Len(m)) /\ (p = 0 => sequence = sent[o].sequence)
  BY <1>b, <1>c, CutTypes DEF WriterAt, WriteFrame, WriteLast
<1>1. m \in Seq(Bytes) /\ Len(m) \in Nat
  BY <1>0, <1>c, TextType, Zenon
<1>2. Len(remaining) = Len(m) - p
  BY <1>0, <1>1
<1>3. CASE WriteFrame
  <2> DEFINE g == [seq |-> sequence, bytes |-> SubSeq(remaining, 1, FramePayload)]
  <2>1. /\ Len(remaining) >= FramePayload /\ wire' = Append(wire, g) /\ sequence' = Up(sequence)
        /\ remaining' = SubSeq(remaining, FramePayload + 1, Len(remaining))
        /\ writing = "yes" /\ UNCHANGED <<sent, writing, reading>>
    BY <1>3 DEF WriteFrame
  <2>2. FramePayload \in Nat \ {0}
    BY CodecAssumption
  <2>3. p + FramePayload <= Len(m)
    BY <1>0, <1>1, <1>2, <2>1, <2>2
  <2>4. g.bytes = SubSeq(m, p + 1, p + FramePayload) /\ Len(g.bytes) = FramePayload /\ g.bytes \in Seq(Bytes)
    BY <1>0, <1>1, <2>2, <2>3, SubSeqTwice
  <2>5. remaining' = SubSeq(m, p + FramePayload + 1, Len(m))
    BY <1>0, <1>1, <2>1, <2>2, <2>3, SubSeqTwice
  <2>6. g \in Frame /\ g.seq = sequence
    <3>1. SubSeq(remaining, 1, FramePayload) \in UpTo(FramePayload)
      <4>1. PICK u : u = SubSeq(remaining, 1, FramePayload)
        BY Zenon
      <4>2. u \in Seq(Bytes) /\ Len(u) = FramePayload
        BY <2>4, <4>1
      <4>3. FramePayload \in Nat /\ Len(u) <= FramePayload
        BY <2>2, <4>2
      <4>4. u \in UpTo(FramePayload)
        BY <4>2, <4>3, UpToIntro
      <4> QED
        BY <4>1, <4>4
    <3> QED
      BY <3>1, CutTypes DEF Frame
  <2>7. FrameIs(g, Up(sequence), o, p, o, p + FramePayload)
    <3> HIDE DEF g
    <3> QED
      BY <1>0, <1>1, <1>c, <2>2, <2>3, <2>4, <2>6 DEF FrameIs
  <2>8. WriterAt(o, p + FramePayload)'
    <3>1. Text(o)' = m /\ Len(sent') = Len(sent) /\ sent' = sent /\ writing' = "yes" /\ p + FramePayload # 0
      BY <1>0, <1>c, <2>1, <2>2 DEF Text
    <3> QED
      BY <1>0, <1>1, <2>2, <2>3, <2>5, <3>1 DEF WriterAt
  <2> HIDE DEF g
  <2>9. o \in Nat /\ p + FramePayload \in Nat
    BY <1>0, <2>2
  <2> QED
    BY <1>a, <2>1, <2>6, <2>7, <2>8, <2>9, CutAppend
<1>4. CASE WriteLast
  <2> DEFINE g == [seq |-> sequence, bytes |-> remaining]
  <2>1. /\ Len(remaining) < FramePayload /\ wire' = Append(wire, g) /\ sequence' = Up(sequence)
        /\ remaining' = << >> /\ writing' = "no" /\ UNCHANGED <<sent, reading>>
    BY <1>4 DEF WriteLast
  <2>2. g \in Frame /\ g.seq = sequence /\ g.bytes = remaining
    BY <2>1, UpToIntro, CutTypes, CodecAssumption DEF Frame
  <2>3. FrameIs(g, Up(sequence), o, p, o + 1, 0)
    <3> HIDE DEF g
    <3>1. p + Len(g.bytes) = Len(m) /\ Len(g.bytes) < FramePayload
      BY <1>0, <1>1, <1>2, <2>1, <2>2
    <3>2. g.bytes = SubSeq(m, p + 1, p + Len(g.bytes))
      BY <1>0, <2>2, <3>1
    <3>3. Up(sequence) = Up(g.seq) /\ (p = 0 => g.seq = sent[o].sequence)
      BY <1>0, <2>2
    <3>4. o \in 1..Len(sent) /\ p \in Nat /\ Text(o) = m /\ Len(m) \in Nat
      BY <1>0, <1>1, <1>c
    <3> QED
      BY <3>1, <3>2, <3>3, <3>4 DEF FrameIs
  <2>4. WriterAt(o + 1, 0)'
    BY <1>0, <2>1 DEF WriterAt
  <2> HIDE DEF g
  <2>5. o + 1 \in Nat /\ 0 \in Nat
    BY <1>0
  <2> QED
    BY <1>a, <2>1, <2>2, <2>3, <2>4, <2>5, CutAppend
<1> QED
  BY <1>3, <1>4

\* The frame at the head of the wire is the one ReadMessage waits for, and with it
\* the buffer is again a beginning of the message.
HeadIs(own, off, o, p, n) ==
    /\ Head(wire).seq = Wanted /\ ~TooLarge(Head(wire).bytes)
    /\ o = Len(received) + 1 /\ o \in 1..Len(sent) /\ p \in Nat /\ n \in Nat /\ n <= FramePayload
    /\ p + n <= Len(Text(o))
    /\ payload \o Head(wire).bytes = SubSeq(Text(o), 1, p + n)
    /\ (IF frames = 0 THEN Head(wire).seq ELSE first) = sent[o].sequence
    /\ SeqAt(2) = Up(Wanted)
    /\ IF n < FramePayload THEN own[2] = o + 1 /\ off[2] = 0 /\ p + n = Len(Text(o))
                           ELSE own[2] = o /\ off[2] = p + n

\* The writer cut the head of the wire from the message the reader is in: this is
\* what makes ReadMessage accept it.
LEMMA CutHead ==
    ASSUME CodecBounds, NEW own, NEW off, Cut(own, off), wire # << >>
    PROVE  HeadIs(own, off, own[1], off[1], Len(Head(wire).bytes))
<1> SUFFICES ASSUME NEW o, NEW p, NEW n, o = own[1], p = off[1], n = Len(Head(wire).bytes)
             PROVE  HeadIs(own, off, o, p, n)
  OBVIOUS
<1>0. Len(wire) \in Nat \ {0} /\ 1 \in 1..Len(wire) /\ Head(wire) = wire[1]
  BY CutTypes
<1>1. FrameIs(wire[1], SeqAt(2), o, p, own[2], off[2]) /\ ReaderAt(o, p, wire[1].seq) /\ o \in Nat /\ p \in Nat
  <2>1. FrameIs(wire[1], SeqAt(1 + 1), own[1], off[1], own[1 + 1], off[1 + 1])
    BY <1>0 DEF Cut
  <2>2. ReaderAt(own[1], off[1], SeqAt(1)) /\ own[1] \in Nat /\ off[1] \in Nat
    BY <1>0 DEF Cut
  <2>3. SeqAt(1) = wire[1].seq
    BY <1>0 DEF SeqAt
  <2> QED
    BY <2>1, <2>2, <2>3
<1>2. o \in 1..Len(sent) /\ wire[1].bytes \in Seq(Bytes) /\ n \in Nat /\ n <= FramePayload
  BY <1>0, <1>1, FrameType DEF FrameIs
<1>3. PICK m : m = Text(o)
  OBVIOUS
<1>4. m \in Seq(Bytes) /\ Len(m) \in Nat /\ Len(m) <= MaxMessageBytes
  BY <1>2, <1>3, TextType, Zenon
<1>5. p + n <= Len(m) /\ wire[1].bytes = SubSeq(m, p + 1, p + n)
  BY <1>0, <1>1, <1>3, Zenon DEF FrameIs
<1>6. payload = SubSeq(m, 1, p) /\ Len(payload) = p
  <2>1. CASE frames = 0
    <3>1. p = 0 /\ payload = << >>
      BY <1>1, <2>1 DEF ReaderAt
    <3> QED
      BY <3>1, SubSeqEmpty
  <2>2. CASE frames # 0
    <3>1. payload = SubSeq(m, 1, p) /\ p > 0 /\ p <= Len(m)
      BY <1>1, <1>3, <2>2 DEF ReaderAt
    <3> QED
      BY <1>1, <1>4, <3>1
  <2> QED
    BY <2>1, <2>2
<1>7. payload \o wire[1].bytes = SubSeq(m, 1, p + n)
  <2>0. p \in Nat /\ n \in Nat /\ Len(m) \in Nat /\ p + n <= Len(m)
    BY <1>1, <1>2, <1>4, <1>5
  <2>1. 1 \in 1..(Len(m) + 1) /\ p \in (1 - 1)..Len(m) /\ p + n \in p..Len(m)
    BY <2>0
  <2> QED
    BY <1>4, <1>5, <1>6, <2>1, ConcatAdjacentSubSeq, Zenon
<1>8. wire[1].seq = Wanted
  BY <1>0, <1>1 DEF Wanted, ReaderAt
<1>9. ~TooLarge(wire[1].bytes)
  <2>1. p \in Nat /\ n \in Nat /\ MaxMessageBytes \in Nat /\ p + n <= MaxMessageBytes
    BY <1>1, <1>2, <1>4, <1>5, CodecAssumption
  <2>2. Len(wire[1].bytes) = n /\ Len(payload) = p
    BY <1>0, <1>6, Zenon
  <2> QED
    BY <2>1, <2>2 DEF TooLarge
<1>10. (IF frames = 0 THEN wire[1].seq ELSE first) = sent[o].sequence /\ o = Len(received) + 1
  BY <1>1, Zenon DEF FrameIs, ReaderAt
<1>11. IF n < FramePayload THEN own[2] = o + 1 /\ off[2] = 0 /\ p + n = Len(m)
                           ELSE own[2] = o /\ off[2] = p + n
  BY <1>0, <1>1, <1>3, Zenon DEF FrameIs
<1>12. SeqAt(2) = Up(wire[1].seq)
  BY <1>1 DEF FrameIs
<1> QED
  BY <1>0, <1>1, <1>2, <1>3, <1>5, <1>7, <1>8, <1>9, <1>10, <1>11, <1>12, Zenon DEF HeadIs

\* Reading a frame moves the reader by that frame; at the end of a message, what
\* ReadMessage returns is the message that was written.
LEMMA CutRead ==
    ASSUME CodecBounds, NEW own, NEW off, Cut(own, off), ReadFrame
    PROVE  /\ \E own2, off2 : Cut(own2, off2)'
           /\ \/ received' = received
              \/ Len(received) < Len(sent) /\ received' = Append(received, sent[Len(received) + 1])
<1>0. PICK N \in Nat : N = Len(wire)
  BY CutTypes
<1>1. wire # << >> /\ wire' = Tail(wire) /\ UNCHANGED <<writer, reader>>
  BY DEF ReadFrame
<1>2. N > 0 /\ Len(wire') = N - 1 /\ \A j \in 1..(N - 1) : wire'[j] = wire[j + 1]
  BY <1>0, <1>1, CutTypes
<1>3. PICK o, p, n : o = own[1] /\ p = off[1] /\ n = Len(Head(wire).bytes)
  BY Zenon
<1>4. /\ o = Len(received) + 1 /\ o \in 1..Len(sent) /\ p \in Nat /\ n \in Nat /\ n <= FramePayload
      /\ p + n <= Len(Text(o))
      /\ payload \o Head(wire).bytes = SubSeq(Text(o), 1, p + n)
      /\ (IF frames = 0 THEN Head(wire).seq ELSE first) = sent[o].sequence
      /\ SeqAt(2) = Up(Wanted)
      /\ IF n < FramePayload THEN own[2] = o + 1 /\ off[2] = 0 /\ p + n = Len(Text(o))
                             ELSE own[2] = o /\ off[2] = p + n
  <2>1. HeadIs(own, off, own[1], off[1], Len(Head(wire).bytes))
    BY <1>1, CutHead
  <2>2. HeadIs(own, off, o, p, n)
    BY <1>3, <2>1
  <2> QED
    BY <2>2 DEF HeadIs
<1>5. PICK m : m = Text(o) /\ m \in Seq(Bytes) /\ Len(m) \in Nat
               /\ sent[o] = [sequence |-> sent[o].sequence, payload |-> m]
  BY <1>4, TextType
<1> DEFINE own2 == [j \in 1..N |-> own[j + 1]]
           off2 == [j \in 1..N |-> off[j + 1]]
<1>6. own2 \in [1..N -> Nat] /\ off2 \in [1..N -> Nat] /\ own2[1] = own[2] /\ off2[1] = off[2]
      /\ own2[N] = own[N + 1] /\ off2[N] = off[N + 1]
  BY <1>0, <1>2 DEF Cut
<1>7. \A j \in 1..N : SeqAt(j)' = SeqAt(j + 1)
  BY <1>0, <1>1, <1>2 DEF SeqAt, writer
<1>8. \A f, x, a, b, a2, b2 : FrameIs(f, x, a, b, a2, b2) => FrameIs(f, x, a, b, a2, b2)'
  BY <1>1 DEF FrameIs, Text, writer
<1>9. ASSUME NEW j \in 1..(N - 1)
      PROVE  FrameIs(wire[j], SeqAt(j + 1), own2[j], off2[j], own2[j + 1], off2[j + 1])'
  <2>1. PICK i \in 1..N : i = j + 1
    BY <1>2
  <2>2. FrameIs(wire[i], SeqAt(i + 1), own[i], off[i], own[i + 1], off[i + 1])
    BY <1>0 DEF Cut
  <2>3. /\ own2[j] = own[i] /\ off2[j] = off[i] /\ own2[j + 1] = own[i + 1] /\ off2[j + 1] = off[i + 1]
        /\ wire'[j] = wire[i] /\ SeqAt(j + 1)' = SeqAt(i + 1)
    BY <1>2, <1>7, <2>1
  <2> QED
    BY <2>2, <2>3, <1>8
<1>10. WriterAt(own2[N], off2[N])'
  <2>1. WriterAt(own[N + 1], off[N + 1])
    BY <1>0 DEF Cut
  <2> QED
    BY <1>1, <1>6, <2>1, Zenon DEF WriterAt, Text, writer
<1>11. SeqAt(1)' = Up(Wanted)
  BY <1>2, <1>4, <1>7
<1>12. CASE n < FramePayload
  <2>1. /\ received' = Append(received, [sequence |-> IF frames = 0 THEN Head(wire).seq ELSE first,
                                         payload |-> payload \o Head(wire).bytes])
        /\ payload' = << >> /\ frames' = 0
    BY <1>3, <1>12 DEF ReadFrame
  <2>2. payload \o Head(wire).bytes = m
    BY <1>4, <1>5, <1>12, SubSeqFull, Zenon
  <2>3. received' = Append(received, sent[Len(received) + 1]) /\ Len(received) < Len(sent)
    <3>1. [sequence |-> IF frames = 0 THEN Head(wire).seq ELSE first, payload |-> payload \o Head(wire).bytes]
             = sent[o]
      BY <1>4, <1>5, <2>2, Zenon
    <3>2. received' = Append(received, sent[o])
      BY <2>1, <3>1
    <3> QED
      BY <1>4, <3>2, CutTypes
  <2>4. Len(received') = Len(received) + 1
    <3>1. received \in Seq(Sent)
      BY DEF CodecBounds
    <3> QED
      BY <2>1, <3>1
  <2>5. ReaderAt(own2[1], off2[1], SeqAt(1))'
    BY <1>4, <1>6, <1>12, <2>1, <2>4 DEF ReaderAt
  <2> HIDE DEF own2, off2
  <2>6. Cut(own2, off2)'
    BY <1>2, <1>6, <1>9, <1>10, <2>5 DEF Cut
  <2> QED
    BY <2>3, <2>6
<1>13. CASE ~(n < FramePayload)
  <2>1. /\ payload' = payload \o Head(wire).bytes /\ frames' = frames + 1 /\ expected' = Up(Wanted)
        /\ first' = (IF frames = 0 THEN Head(wire).seq ELSE first) /\ received' = received
    BY <1>3, <1>13 DEF ReadFrame
  <2>2. frames' # 0 /\ p + n > 0
    BY <1>4, <1>13, <2>1, CutTypes, CodecAssumption
  <2>3. own2[1] = o /\ off2[1] = p + n
    BY <1>4, <1>6, <1>13
  <2>4. ReaderAt(o, p + n, SeqAt(1))'
    <3>1. Text(o)' = Text(o) /\ sent' = sent
      BY <1>1 DEF Text, writer
    <3>2. o = Len(received') + 1 /\ o <= Len(sent') /\ p + n <= Len(Text(o)')
      BY <1>4, <2>1, <3>1, CutTypes
    <3>3. payload' = SubSeq(Text(o)', 1, p + n) /\ first' = sent'[o].sequence /\ expected' = SeqAt(1)'
      BY <1>4, <1>11, <2>1, <3>1, Zenon
    <3> QED
      BY <2>2, <3>2, <3>3 DEF ReaderAt
  <2>5. ReaderAt(own2[1], off2[1], SeqAt(1))'
    BY <2>3, <2>4
  <2> HIDE DEF own2, off2
  <2>6. Cut(own2, off2)'
    BY <1>2, <1>6, <1>9, <1>10, <2>5 DEF Cut
  <2> QED
    BY <2>1, <2>6
<1> QED
  BY <1>12, <1>13

\* What a step does to the messages written and returned: nothing, one more written,
\* or the next one returned.
MessageStep ==
    \/ UNCHANGED <<sent, received>>
    \/ \E m \in Sent : sent' = Append(sent, m) /\ received' = received
    \/ /\ Len(received) < Len(sent) /\ sent' = sent
       /\ received' = Append(received, sent[Len(received) + 1])

\* From a peer with this codec, every step keeps the cut.
LEMMA CutKept ==
    ASSUME CodecBounds, peer = "codec", [CodecNext]_codecVars, \E own, off : Cut(own, off)
    PROVE  (\E own, off : Cut(own, off)') /\ MessageStep /\ peer' = "codec"
<1>0. PICK own, off : Cut(own, off)
  OBVIOUS
<1>1. ASSUME NEW m \in Payloads, WriteMessage(m)
      PROVE  (\E own2, off2 : Cut(own2, off2)') /\ MessageStep /\ peer' = "codec"
  <2>1. Cut(own, off)'
    BY <1>0, <1>1, CutWriteMessage
  <2>2. m \in UpTo(MaxMessageBytes) /\ sequence \in 0..(SequenceSpan - 1)
    BY <1>1, CodecAssumption, UpToIntro, CutTypes DEF WriteMessage
  <2>3. [sequence |-> sequence, payload |-> m] \in Sent
    BY <2>2 DEF Sent
  <2> QED
    BY <1>1, <2>1, <2>3 DEF WriteMessage, MessageStep, reading
<1>2. CASE WriteFrame \/ WriteLast
  <2>1. \E own2, off2 : Cut(own2, off2)'
    BY <1>0, <1>2, CutWrite
  <2> QED
    BY <1>2, <2>1 DEF WriteFrame, WriteLast, MessageStep, reading
<1>3. CASE ReadFrame
  <2>1. /\ \E own2, off2 : Cut(own2, off2)'
        /\ \/ received' = received
           \/ Len(received) < Len(sent) /\ received' = Append(received, sent[Len(received) + 1])
    BY <1>0, <1>3, CutRead
  <2> QED
    BY <1>3, <2>1 DEF ReadFrame, MessageStep, writer
<1>4. CASE ReadFails \/ Disconnect \/ UNCHANGED codecVars
  <2>1. UNCHANGED <<peer, writer, wire, payload, frames, expected, first, received>>
    BY <1>4, Zenon DEF ReadFails, Disconnect, codecVars, reading
  <2>2. Cut(own, off)'
    BY <1>0, <2>1, Zenon DEF Cut, FrameIs, WriterAt, ReaderAt, SeqAt, Text, writer
  <2> QED
    BY <2>1, <2>2 DEF MessageStep, writer
<1>5. ASSUME NEW f \in ForeignFrames, Foreign(f)
      PROVE  FALSE
  BY <1>5 DEF Foreign
<1> QED
  BY <1>1, <1>2, <1>3, <1>4, <1>5 DEF CodecNext

\* Frames of another program leave the writer of this codec alone.
LEMMA OtherPeerStep ==
    ASSUME CodecInv, [CodecNext]_codecVars, peer = "other"
    PROVE  sent' = sent /\ writing' = writing /\ peer' = peer
<1>1. writing = "no"
  BY DEF CodecInv
<1>2. CASE (\E m \in Payloads : WriteMessage(m)) \/ WriteFrame \/ WriteLast
  BY <1>1, <1>2 DEF WriteMessage, WriteFrame, WriteLast
<1>3. CASE ReadFrame
  BY <1>3 DEF ReadFrame, writer
<1>4. CASE ReadFails \/ Disconnect \/ \E f \in ForeignFrames : Foreign(f)
  BY <1>4, Zenon DEF ReadFails, Disconnect, Foreign, writer
<1>5. CASE UNCHANGED codecVars
  BY <1>5 DEF codecVars, writer
<1> QED
  BY <1>2, <1>3, <1>4, <1>5 DEF CodecNext

\* The inductive invariant of the codec.
LEMMA CodecInvKept == CodecInv /\ [CodecNext]_codecVars => CodecInv'
<1> SUFFICES ASSUME CodecInv, [CodecNext]_codecVars PROVE CodecInv'
  OBVIOUS
<1>1. CodecBounds /\ CodecBounds'
  BY BoundsKept DEF CodecInv
<1>2. CASE peer = "codec"
  <2>1. (\E own, off : Cut(own, off)') /\ MessageStep /\ peer' = "codec"
    BY <1>1, <1>2, CutKept DEF CodecInv
  <2>2. Delivered'
    <3>1. Delivered /\ sent \in Seq(Sent) /\ received \in Seq(Sent)
      BY <1>1, <1>2 DEF CodecInv, CodecBounds
    <3>2. CASE UNCHANGED <<sent, received>>
      BY <3>1, <3>2 DEF Delivered
    <3>3. ASSUME NEW m \in Sent, sent' = Append(sent, m), received' = received PROVE Delivered'
      BY <3>1, <3>3 DEF Delivered
    <3>4. CASE /\ Len(received) < Len(sent) /\ sent' = sent
               /\ received' = Append(received, sent[Len(received) + 1])
      <4>1. Len(received') = Len(received) + 1 /\ Len(received) \in Nat /\ Len(sent) \in Nat
        BY <3>1, <3>4
      <4>2. /\ \A i \in 1..Len(received) : received'[i] = received[i]
            /\ received'[Len(received) + 1] = sent[Len(received) + 1]
        BY <3>1, <3>4
      <4> QED
        BY <3>1, <3>4, <4>1, <4>2 DEF Delivered
    <3> QED
      BY <2>1, <3>2, <3>3, <3>4 DEF MessageStep
  <2>3. reader' \in {"reading", "lost"}
    <3>1. ~ReadFails
      <4>1. ASSUME ReadFails PROVE FALSE
        <5>1. PICK own, off : Cut(own, off)
          BY <1>2 DEF CodecInv
        <5>2. HeadIs(own, off, own[1], off[1], Len(Head(wire).bytes))
          BY <1>1, <4>1, <5>1, CutHead, Zenon DEF ReadFails
        <5> QED
          BY <4>1, <5>2, Zenon DEF ReadFails, HeadIs
      <4> QED
        BY <4>1
    <3>2. reader' = reader \/ reader' = "lost"
      BY <3>1, Zenon DEF CodecNext, codecVars, reading, WriteMessage, WriteFrame, WriteLast, ReadFrame, Disconnect, Foreign
    <3> QED
      BY <1>2, <3>2 DEF CodecInv
  <2> QED
    BY <1>1, <2>1, <2>2, <2>3 DEF CodecInv
<1>3. CASE peer = "other"
  <2>1. sent' = sent /\ writing' = writing /\ peer' = peer
    BY <1>3, OtherPeerStep
  <2> QED
    BY <1>1, <1>3, <2>1 DEF CodecInv
<1> QED
  BY <1>1, <1>2, <1>3, Zenon DEF CodecBounds, CodecTypes

\* Nothing sent, nothing on the wire: the invariant holds when the codec starts.
LEMMA InitCodecInv == CodecInit => CodecInv
<1> SUFFICES ASSUME CodecInit PROVE CodecInv
  OBVIOUS
<1>1. CodecBounds
  BY InitBounds
<1>2. Delivered
  BY DEF CodecInit, Delivered
<1>3. Cut([j \in 1..1 |-> 1], [j \in 1..1 |-> 0])
  <2>1. Len(wire) = 0 /\ Len(sent) = 0 /\ Len(received) = 0 /\ writing = "no" /\ frames = 0 /\ payload = << >>
    BY DEF CodecInit
  <2> QED
    BY <2>1 DEF Cut, WriterAt, ReaderAt
<1>4. \E own, off : Cut(own, off)
  BY <1>3
<1> QED
  BY <1>1, <1>2, <1>4 DEF CodecInit, CodecInv

\* Between any two turns of the loops of ReadMessage and WriteMessage.
THEOREM SpecCodecInv == CodecSpec => []CodecInv
BY InitCodecInv, CodecInvKept, PTL DEF CodecSpec

\* ReadMessage refuses no frame that WriteMessage of the same codec wrote, for any
\* frame size, message limit and sequence span (codec.go:36-103).
THEOREM NothingRefused == CodecSpec => [](peer = "codec" => reader \in {"reading", "lost"})
BY SpecCodecInv, PTL DEF CodecInv

\* The codec implements a channel: messages whole, once and in order, however they
\* are fragmented and wherever the sequence wraps.
THEOREM CodecDeliversInOrder == CodecSpec => DeliversInOrder
<1>1. CodecInit => Messages!Init
  BY DEF CodecInit, Messages!Init
<1>2. CodecInv /\ [CodecNext]_codecVars => [Messages!Next]_<<sent, IF peer = "codec" THEN received ELSE << >> >>
  <2> SUFFICES ASSUME CodecInv, [CodecNext]_codecVars
               PROVE  \/ Messages!Next
                      \/ UNCHANGED <<sent, IF peer = "codec" THEN received ELSE << >> >>
    OBVIOUS
  <2>1. CASE peer = "codec"
    <3>1. MessageStep /\ peer' = "codec"
      BY <2>1, CutKept DEF CodecInv
    <3> QED
      BY <2>1, <3>1 DEF MessageStep, Messages!Next, Messages!Send, Messages!Deliver, Sent
  <2>2. CASE peer = "other"
    <3>1. sent' = sent /\ peer' = peer
      BY <2>2, OtherPeerStep
    <3> QED
      BY <2>2, <3>1
  <2> QED
    BY <2>1, <2>2, Zenon DEF CodecInv, CodecBounds, CodecTypes
<1> QED
  BY <1>1, <1>2, SpecCodecInv, PTL DEF CodecSpec, DeliversInOrder, Messages!Spec
=============================================================================
