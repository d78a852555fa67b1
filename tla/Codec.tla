------------------------------- MODULE Codec -------------------------------
(***************************************************************************)
(* The packet codec (internal/protocol/mysql/codec.go): a writer cuts      *)
(* messages into frames, a reader at the other end of the connection puts  *)
(* them together.  The peer may also write frames of its own making.  A    *)
(* byte is a token; a frame is its sequence number and its bytes, written  *)
(* and read whole: a short write or read that fails ends the connection.   *)
(***************************************************************************)
EXTENDS Naturals, Sequences

CONSTANTS Bytes,
          Payloads,         \* the messages that are written
          FramePayload,     \* framePayload: 2^24 - 1
          MaxMessageBytes,
          SequenceSpan,     \* values of the uint8 sequence: 256
          MaxMessages, MaxForeign  \* bounds: messages written, frames of the peer's own

ASSUME CodecAssumption ==
    /\ FramePayload \in Nat \ {0} /\ MaxMessageBytes \in Nat \ {0} /\ SequenceSpan \in Nat \ {0}
    /\ MaxMessages \in Nat /\ MaxForeign \in Nat
    /\ \A m \in Payloads : m \in Seq(Bytes)

VARIABLES peer,                \* "codec": the peer writes with this codec; "other": it does not
          remaining, writing,  \* what the writer has left of the message it is writing
          sequence,            \* the writer's next sequence number
          wire,                \* frames on their way
          payload, frames, expected, first,  \* the locals of ReadMessage
          reader,              \* "reading", or the error that ended the connection
          foreign,             \* frames the other program has written
          sent, received       \* messages written and messages returned

writer == <<remaining, writing, sequence, sent>>
reading == <<payload, frames, expected, first, reader, received>>
codecVars == <<peer, writer, wire, reading, foreign>>

UpTo(n) == UNION {[1..k -> Bytes] : k \in 0..n}
Frame == [seq : 0..(SequenceSpan - 1), bytes : UpTo(FramePayload)]

CodecInit ==
    /\ peer \in {"codec", "other"}
    /\ remaining = << >> /\ writing = "no" /\ wire = << >>
    /\ sequence \in (IF peer = "codec" THEN {0, SequenceSpan - 1} ELSE {0})
    /\ payload = << >> /\ frames = 0 /\ expected = 0 /\ first = 0 /\ reader = "reading"
    /\ foreign = 0 /\ sent = << >> /\ received = << >>

Up(n) == (n + 1) % SequenceSpan

\* WriteMessage: the size check; then a frame per turn of its loop, the last one
\* shorter than framePayload, empty if need be.
WriteMessage(m) ==
    /\ peer = "codec" /\ writing = "no" /\ Len(sent) < MaxMessages /\ Len(m) <= MaxMessageBytes
    /\ remaining' = m /\ writing' = "yes" /\ sent' = Append(sent, [sequence |-> sequence, payload |-> m])
    /\ UNCHANGED <<peer, sequence, wire, reading, foreign>>
MutWriteFrameStrict ==
    /\ writing = "yes" /\ Len(remaining) > FramePayload
    /\ wire' = Append(wire, [seq |-> sequence, bytes |-> SubSeq(remaining, 1, FramePayload)])
    /\ remaining' = SubSeq(remaining, FramePayload + 1, Len(remaining))
    /\ sequence' = Up(sequence)
    /\ UNCHANGED <<peer, writing, sent, reading, foreign>>
WriteFrame ==
    /\ writing = "yes" /\ Len(remaining) >= FramePayload
    /\ wire' = Append(wire, [seq |-> sequence, bytes |-> SubSeq(remaining, 1, FramePayload)])
    /\ remaining' = SubSeq(remaining, FramePayload + 1, Len(remaining))
    /\ sequence' = Up(sequence)
    /\ UNCHANGED <<peer, writing, sent, reading, foreign>>
WriteLast ==
    /\ writing = "yes" /\ Len(remaining) < FramePayload
    /\ wire' = Append(wire, [seq |-> sequence, bytes |-> remaining])
    /\ remaining' = << >> /\ writing' = "no" /\ sequence' = Up(sequence)
    /\ UNCHANGED <<peer, sent, reading, foreign>>

\* A peer that does not use this codec writes any frames.
Foreign(f) ==
    /\ peer = "other" /\ foreign < MaxForeign /\ foreign' = foreign + 1
    /\ wire' = Append(wire, f)
    /\ UNCHANGED <<peer, writer, reading>>

\* ReadMessage, one turn of its loop.
Wanted == IF frames = 0 THEN Head(wire).seq ELSE expected
MutTooLarge(bytes) == Len(bytes) > MaxMessageBytes
TooLarge(bytes) == Len(bytes) > MaxMessageBytes - Len(payload)
ReadFrame ==
    /\ reader = "reading" /\ wire # << >>
    /\ Head(wire).seq = Wanted /\ ~TooLarge(Head(wire).bytes)
    /\ wire' = Tail(wire)
    /\ LET whole == payload \o Head(wire).bytes
           start == IF frames = 0 THEN Head(wire).seq ELSE first IN
       IF Len(Head(wire).bytes) < FramePayload
       THEN /\ received' = Append(received, [sequence |-> start, payload |-> whole])
            /\ payload' = << >> /\ frames' = 0 /\ expected' = 0 /\ first' = 0
       ELSE /\ payload' = whole /\ frames' = frames + 1 /\ expected' = Up(Wanted) /\ first' = start
            /\ UNCHANGED received
    /\ UNCHANGED <<peer, writer, reader, foreign>>
ReadFails ==
    /\ reader = "reading" /\ wire # << >>
    /\ \/ Head(wire).seq # Wanted /\ reader' = "sequence"
       \/ Head(wire).seq = Wanted /\ TooLarge(Head(wire).bytes) /\ reader' = "too large"
    /\ UNCHANGED <<peer, writer, wire, payload, frames, expected, first, received, foreign>>

\* The connection breaks: ReadFull returns an error, a partial message is dropped.
Disconnect ==
    /\ reader = "reading" /\ reader' = "lost"
    /\ UNCHANGED <<peer, writer, wire, payload, frames, expected, first, received, foreign>>

\* ReadMessage looks at no byte, so the other program's are all alike.
ForeignFrames == {f \in Frame : \A i \in DOMAIN f.bytes : f.bytes[i] = CHOOSE b \in Bytes : TRUE}
CodecNext ==
    \/ \E m \in Payloads : WriteMessage(m)
    \/ WriteFrame \/ WriteLast \/ ReadFrame \/ ReadFails \/ Disconnect
    \/ \E f \in ForeignFrames : Foreign(f)

CodecSpec == CodecInit /\ [][CodecNext]_codecVars
\* The handler of a connection keeps writing what it began and reading what came.
CodecFairness == WF_codecVars(WriteFrame \/ WriteLast) /\ WF_codecVars(ReadFrame)

-----------------------------------------------------------------------------
(* Types of the writer's and the reader's variables.                       *)
CodecTypes ==
    /\ peer \in {"codec", "other"} /\ remaining \in UpTo(MaxMessageBytes) /\ writing \in {"yes", "no"}
    /\ sequence \in 0..(SequenceSpan - 1) /\ expected \in 0..(SequenceSpan - 1) /\ first \in 0..(SequenceSpan - 1)
    /\ wire \in Seq(Frame) /\ frames \in Nat /\ foreign \in 0..MaxForeign
    /\ reader \in {"reading", "sequence", "too large", "lost"}

\* The buffer of ReadMessage never holds more than maxMessageBytes, however many
\* full frames the peer sends.
BufferBounded ==
    /\ Len(payload) <= MaxMessageBytes
    /\ \A i \in 1..Len(received) : Len(received[i].payload) <= MaxMessageBytes

Messages == INSTANCE Channel WITH
    Message <- [sequence : 0..(SequenceSpan - 1), payload : UpTo(MaxMessageBytes)],
    received <- IF peer = "codec" THEN received ELSE << >>
\* From a peer with this codec, the messages ReadMessage returns are the
\* messages WriteMessage took: whole, once, in order, across any fragmentation, and
\* none after a loss.
DeliversInOrder == Messages!Spec

\* Every message that WriteMessage took is returned, unless the connection is lost:
\* ReadMessage refuses none, not at the size limit, not at a multiple of the frame
\* size, not when the sequence wraps.
AllDelivered ==
    \A n \in 1..MaxMessages :
        Len(sent) >= n ~> (Len(received) >= n \/ reader = "lost")

\* The codec implements a channel that delivers.
ImplementsChannel == DeliversInOrder /\ AllDelivered
=============================================================================
