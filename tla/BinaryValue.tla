---------------------------- MODULE BinaryValue ----------------------------
(***************************************************************************)
(* The binary protocol's values: decoding of the parameters of an execute  *)
(* and encoding of result rows (internal/gateway/prepared.go), and the     *)
(* rows of a text result (internal/mysql).  A byte has Base values, 256 in *)
(* the code; widths and limits are derived from it so that all the         *)
(* boundaries fit in small numbers.                                        *)
(***************************************************************************)
EXTENDS Integers, Sequences, FiniteSets

CONSTANTS Base, Inputs

Error == [kind |-> "error"]
Done(value, next) == [value |-> value, next |-> next]

\* encoding/binary, little-endian; an int of w bytes holds Base^w values.
LE(w, n) == [i \in 1..w |-> ((n % Base^w) \div Base^(i - 1)) % Base]
Unsigned(b) ==
    LET up[i \in 0..Len(b)] == IF i = 0 THEN 0 ELSE b[Len(b) - i + 1] + Base * up[i - 1] IN up[Len(b)]
Signed(b) == IF Unsigned(b) >= (Base^Len(b)) \div 2 THEN Unsigned(b) - Base^Len(b) ELSE Unsigned(b)

Slice(payload, position, size) == SubSeq(payload, position + 1, position + size)
Room(payload, position) == Len(payload) - position

Width(type) == CASE type = "tiny" -> 1 [] type = "short" -> 2 [] type = "long" -> 4 [] type = "longlong" -> 8

\* encodePreparedResultValue for integers; parseSigned and parseUnsigned accept
\* what fits in the column.
EncodeInteger(x) == LE(Width(x.type), x.n)
DecodeInteger(payload, position, x) ==
    IF Room(payload, position) < Width(x.type) THEN Error
    ELSE LET b == Slice(payload, position, Width(x.type))
         IN Done([x EXCEPT !.n = IF x.unsigned = "yes" THEN Unsigned(b) ELSE Signed(b)], position + Width(x.type))

\* AppendLengthEncodedInteger and AppendLengthEncodedBytes: one byte below 0xfb,
\* then 0xfc, 0xfd and 0xfe with two, three and eight bytes.
AppendLengthEncodedInteger(n) ==
    CASE n < Base - 5          -> <<n>>
      [] n >= Base - 5 /\ n < Base^2 -> <<Base - 4>> \o LE(2, n)
      [] n >= Base^2 /\ n < Base^3   -> <<Base - 3>> \o LE(3, n)
      [] OTHER                 -> <<Base - 2>> \o LE(8, n)
EncodeBytes(x) == AppendLengthEncodedInteger(Len(x.bytes)) \o x.bytes

\* readPreparedLengthEncoded.
MutReadLengthEncoded(payload, position, x) ==
    IF position >= Len(payload) THEN Error
    ELSE LET first == payload[position + 1]
             size == CASE first = Base - 4 -> 2 [] first = Base - 3 -> 3 [] first = Base - 2 -> 8 [] OTHER -> 0
         IN IF Room(payload, position + 1) < size \/ first \in {Base - 5, Base - 1} THEN Error
            ELSE Done([x EXCEPT !.bytes = SubSeq(payload, position + 2 + size, Len(payload))], Len(payload))
ReadLengthEncoded(payload, position, x) ==
    IF position >= Len(payload) THEN Error
    ELSE LET first == payload[position + 1]
             size == CASE first = Base - 4 -> 2 [] first = Base - 3 -> 3 [] first = Base - 2 -> 8 [] OTHER -> 0
             start == position + 1 + size
             length == IF size = 0 THEN first ELSE Unsigned(Slice(payload, position + 1, size))
         IN IF Room(payload, position + 1) < size \/ first \in {Base - 5, Base - 1} THEN Error
            ELSE IF length > Room(payload, start) THEN Error
            ELSE Done([x EXCEPT !.bytes = Slice(payload, start, length)], start + length)

\* time.Date and the calendar it normalises to.
Leap(y) == y % 4 = 0 /\ (y % 100 # 0 \/ y % 400 = 0)
DaysIn(y, m) == CASE m = 2 -> IF Leap(y) THEN 29 ELSE 28 [] m \in {4, 6, 9, 11} -> 30 [] OTHER -> 31
Normalise(t) ==
    LET y == t.year + ((t.month + 11) \div 12) - 1
        m == ((t.month + 11) % 12) + 1
        py == IF m = 1 THEN y - 1 ELSE y
        pm == IF m = 1 THEN 12 ELSE m - 1
    IN CASE t.day = 0 -> [t EXCEPT !.year = py, !.month = pm, !.day = DaysIn(py, pm)]
         [] t.day > DaysIn(y, m) -> [t EXCEPT !.year = IF m = 12 THEN y + 1 ELSE y, !.month = (m % 12) + 1,
                                              !.day = t.day - DaysIn(y, m)]
         [] OTHER -> [t EXCEPT !.year = y, !.month = m]

\* encodePreparedDateTimeResult.
EncodeDateTime(t) ==
    LET date == LE(2, t.year) \o <<t.month, t.day>> IN
    IF t.type = "date" THEN <<4>> \o date
    ELSE <<IF t.micros # 0 THEN 11 ELSE 7>> \o date \o <<t.hour, t.minute, t.second>>
             \o (IF t.micros # 0 THEN LE(4, t.micros) ELSE << >>)
\* decodePreparedDateTime; length 0 is the text 0000-00-00.
ZeroDate(x) == [x EXCEPT !.year = 0, !.month = 0, !.day = 0, !.hour = 0, !.minute = 0, !.second = 0, !.micros = 0]
DecodeDateTime(payload, position, x) ==
    IF position >= Len(payload) THEN Error
    ELSE LET length == payload[position + 1]
             at(i) == payload[position + 1 + i]
         IN IF length = 0 THEN Done(ZeroDate(x), position + 1)
            ELSE IF length \notin {4, 7, 11} \/ Room(payload, position + 1) < length THEN Error
            ELSE Done(Normalise([x EXCEPT
                    !.year = Unsigned(Slice(payload, position + 1, 2)), !.month = at(3), !.day = at(4),
                    !.hour = IF length >= 7 THEN at(5) ELSE 0, !.minute = IF length >= 7 THEN at(6) ELSE 0,
                    !.second = IF length >= 7 THEN at(7) ELSE 0,
                    !.micros = IF length = 11 THEN Unsigned(Slice(payload, position + 8, 4)) ELSE 0]),
                  position + 1 + length)

\* encodePreparedTimeResult, from hours, minutes, seconds and up to six digits of
\* a fraction, padded on the right; decodePreparedTime.
Fraction(digits) ==
    LET padded == [i \in 1..6 |-> IF i <= Len(digits) THEN digits[i] ELSE 0]
        sum[i \in 0..6] == IF i = 0 THEN 0 ELSE 10 * sum[i - 1] + padded[i] IN sum[6]
EncodeTime(x) ==
    LET micros == Fraction(x.digits) IN
    <<IF micros # 0 THEN 12 ELSE 8, IF x.negative = "yes" THEN 1 ELSE 0>> \o LE(4, x.hours \div 24)
        \o <<x.hours % 24, x.minute, x.second>> \o (IF micros # 0 THEN LE(4, micros) ELSE << >>)
DecodeTime(payload, position) ==
    IF position >= Len(payload) THEN Error
    ELSE LET length == payload[position + 1]
             at(i) == payload[position + 1 + i]
         IN IF length = 0
            THEN Done([negative |-> "no", hours |-> 0, minute |-> 0, second |-> 0, micros |-> 0], position + 1)
            ELSE IF length \notin {8, 12} \/ Room(payload, position + 1) < length THEN Error
            ELSE Done([negative |-> IF at(1) # 0 THEN "yes" ELSE "no",
                       hours |-> 24 * Unsigned(Slice(payload, position + 2, 4)) + at(6),
                       minute |-> at(7), second |-> at(8),
                       micros |-> IF length = 12 THEN Unsigned(Slice(payload, position + 9, 4)) ELSE 0],
                      position + 1 + length)

\* encodePreparedResultValue and decodePreparedParameter, by kind.
Encode(x) ==
    CASE x.kind = "integer" -> EncodeInteger(x)   [] x.kind = "bytes" -> EncodeBytes(x)
      [] x.kind = "datetime" -> EncodeDateTime(x) [] x.kind = "time" -> EncodeTime(x)
Decode(payload, position, x) ==
    CASE x.kind = "integer" -> DecodeInteger(payload, position, x)
      [] x.kind = "bytes" -> ReadLengthEncoded(payload, position, x)
      [] x.kind = "datetime" -> DecodeDateTime(payload, position, x)
      [] x.kind = "time" -> DecodeTime(payload, position)
\* The value that was meant.
Meaning(x) ==
    IF x.kind # "time" THEN x
    ELSE [negative |-> x.negative, hours |-> x.hours, minute |-> x.minute, second |-> x.second,
          micros |-> Fraction(x.digits)]

-----------------------------------------------------------------------------
(* A row of the binary protocol: a bitmap of the nulls, two bits off, and the *)
(* other values one after the other.                                          *)
Null == [kind |-> "null"]
Concat(parts) ==
    LET join[i \in 0..Len(parts)] == IF i = 0 THEN << >> ELSE join[i - 1] \o parts[i] IN join[Len(parts)]

NullBytes(n) == (n + 7 + 2) \div 8
\* A byte of the bitmap is the set of its bits.
BinaryPreparedRow(row) ==
    [nulls |-> [b \in 0..(NullBytes(Len(row)) - 1) |->
                   {bit \in 0..7 : \E i \in 1..Len(row) : row[i] = Null /\ i + 1 = 8 * b + bit}],
     body  |-> Concat([i \in 1..Len(row) |-> IF row[i] = Null THEN << >> ELSE Encode(row[i])])]

\* The client at the other end, as the protocol has it: value i is null when bit
\* i + 1 is set, and nothing is left over.
IsNull(row, i) == ((i + 1) % 8) \in row.nulls[(i + 1) \div 8]
Refused == <<Error>>
ReadRow(packet, row) ==
    LET read[i \in 0..Len(row)] ==
            IF i = 0 THEN Done(<< >>, 0)
            ELSE LET before == read[i - 1] IN
                 IF before = Error THEN Error
                 ELSE IF (i + 1) \div 8 \notin DOMAIN packet.nulls THEN Error
                 ELSE IF IsNull(packet, i) THEN Done(Append(before.value, Null), before.next)
                 ELSE LET one == Decode(packet.body, before.next, row[i]) IN
                      IF one = Error THEN Error ELSE Done(Append(before.value, one.value), one.next)
        last == read[Len(row)]
    IN IF last = Error THEN Refused ELSE IF last.next # Len(packet.body) THEN Refused ELSE last.value

VARIABLES pc, input, wire, output
vars == <<pc, input, wire, output>>

InitFrom(inputs) == pc = "encode" /\ input \in inputs /\ wire = << >> /\ output = << >>
Init == InitFrom(Inputs)
EncodeRow ==
    /\ pc = "encode" /\ pc' = "wire" /\ wire' = BinaryPreparedRow(input) /\ UNCHANGED <<input, output>>
\* A packet that ends early.
CutShort ==
    /\ pc = "wire" /\ pc' = "cut"
    /\ \E k \in 0..(Len(wire.body) - 1) : wire' = [wire EXCEPT !.body = SubSeq(wire.body, 1, k)]
    /\ UNCHANGED <<input, output>>
DecodeRow ==
    /\ pc \in {"wire", "cut"} /\ pc' = (IF pc = "wire" THEN "read" ELSE "read cut")
    /\ output' = ReadRow(wire, input) /\ UNCHANGED <<input, wire>>

\* A text result row: 0xfb for a null, and the other cells with their lengths.
TextRowPayload(row) == Concat([i \in 1..Len(row) |-> IF row[i] = Null THEN <<Base - 5>> ELSE EncodeBytes(row[i])])
EncodeTextRow ==
    /\ pc = "encode" /\ \A i \in 1..Len(input) : input[i].kind \in {"null", "bytes"}
    /\ pc' = "text wire" /\ wire' = [body |-> TextRowPayload(input)] /\ UNCHANGED <<input, output>>
ReadTextRow(payload, row) ==
    LET read[i \in 0..Len(row)] ==
            IF i = 0 THEN Done(<< >>, 0)
            ELSE LET before == read[i - 1] IN
                 IF before = Error THEN Error
                 ELSE IF Room(payload, before.next) = 0 THEN Error
                 ELSE IF payload[before.next + 1] = Base - 5 THEN Done(Append(before.value, Null), before.next + 1)
                 ELSE LET one == ReadLengthEncoded(payload, before.next, [kind |-> "bytes", bytes |-> << >>]) IN
                      IF one = Error THEN Error ELSE Done(Append(before.value, one.value), one.next)
    IN IF read[Len(row)] = Error THEN Refused ELSE read[Len(row)].value
DecodeTextRow ==
    /\ pc = "text wire" /\ pc' = "read" /\ output' = ReadTextRow(wire.body, input) /\ UNCHANGED <<input, wire>>

Next == EncodeRow \/ CutShort \/ DecodeRow \/ EncodeTextRow \/ DecodeTextRow
Spec == Init /\ [][Next]_vars

\* Encoding a row and decoding it gives the values back: at every width, sign and
\* length boundary, with nulls in any position, with nothing left over.
RowRoundTrip ==
    pc = "read" => output = [i \in 1..Len(input) |-> IF input[i] = Null THEN Null ELSE Meaning(input[i])]

\* A packet cut short anywhere is refused, and never read as another value.
TruncationRefused == pc = "read cut" => output = Refused

\* What is decoded is what was encoded, or a refusal.
RowsExact == RowRoundTrip /\ TruncationRefused
=============================================================================
