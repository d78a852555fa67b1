----------------------------- MODULE MCProtocol -----------------------------
(* MySQL, TLS required: every kind of packet on two connections of one host.   *)
(* MySQL, TLS disabled: right and wrong passwords on two connections of one    *)
(* host and wrong ones on one of another, with room for one entry in the       *)
(* limiter's table, so that failures race with each other, with successes,     *)
(* with the clock and with evictions.  Admin: two concurrent requests of four  *)
(* clients, with room for two, so that the table overflows, expires and is     *)
(* swept.                                                                      *)
(* Replies: sequence numbers wrap within one reply (two columns and two rows   *)
(* of two frames are past four), and a statement can leave more messages than  *)
(* the field of a packet holds.  Arguments: up to two parameters and a bound   *)
(* of two bytes, which a chunk can fill, pass after another chunk, or leave    *)
(* alone.  Text: every text of up to MaxText symbols after a word, over the    *)
(* symbols the scanners look at, and every statement of up to three words.     *)
(* Values: bytes of six values, integers of every width and sign, strings at   *)
(* the length boundaries, rows of up to eight columns with nulls; and bytes of *)
(* 64 values with dates and times at the boundaries of the calendar.           *)
EXTENDS Protocol, Sequences, TLC

CONSTANTS k1, k2, k3, h1, h2
MCHostOf == k1 :> h1 @@ k2 :> h1 @@ k3 :> h2

MCCaps == {RequiredCaps \cup S : S \in {{}, {"SSL"}, {"MultiStatements"}, {"Compress"}, {"DeprecateEOF"}}}
             \cup {{"Protocol41"}}
AllPackets == [seq : {1, 2}, caps : MCCaps, body : {"none", "malformed", "right", "wrong"}]
GoodAndBad == [seq : {1}, caps : {RequiredCaps}, body : {"right", "wrong"}]
Bad == {p \in GoodAndBad : p.body = "wrong"}
MCScenarios ==
    [tls   |-> [tlsRequired |-> TRUE, sent |-> k1 :> AllPackets @@ k2 :> AllPackets],
     plain |-> [tlsRequired |-> FALSE, sent |-> k1 :> GoodAndBad @@ k2 :> GoodAndBad @@ k3 :> Bad]]

MCSymmetry == Permutations(Clients \ {CHOOSE x \in Clients : TRUE})

MCChunks == {<<>>, <<"a">>, <<"b", "c">>}

CONSTANT MaxText
Symbols == {"a", " ", "nl", ";", "?", "quote", "backquote", "backslash", "--", "/*", "*/"}
Texts(n) == UNION {[1..k -> Symbols] : k \in 0..n}
TextQueries == {<<"SELECT", " ">> \o t : t \in Texts(MaxText)} \cup {<<"INSERT">> \o t : t \in Texts(MaxText - 1)}
                 \cup Texts(MaxText - 1)
Words == {"SELECT", "SHOW", "INSERT", "CREATE", "TEMPORARY", "BEGIN", "START", "TRANSACTION", "COMMIT", "WORK",
          "ROLLBACK", "TO", "SAVEPOINT", "USE", "SET", "SESSION", "@@", "AUTOCOMMIT", "=", "1", "0", "NAMES",
          "UTF8MB4", "COUNT_ALL", "WARNINGS", "GET_LOCK(", "RETURNING", "@", "a"}
Phrases == {<<w>> : w \in Words} \cup {<<v, " ", w>> : v, w \in Words}
             \cup {<<"SHOW", " ", v, " ", w>> : v, w \in Words}
ThreeWords == {<<u, " ", v, " ", w>> : u, v, w \in Words}
Settings == {<<"SET", " ">> \o p \o <<"AUTOCOMMIT", " ", "=", v>> :
                p \in {<< >>, <<"SESSION", " ">>, <<"@@">>, <<"@@", "SESSION", ".">>}, v \in {"0", "1", "a"}}
MCQueries ==
    TextQueries \cup ThreeWords \cup {p \o e : p \in Phrases \cup Settings, e \in {<< >>, <<" ", ";", "nl">>}}

Null == [kind |-> "null"]
Bytes == [tiny |-> 1, short |-> 2, long |-> 4, longlong |-> 8]
Half(t) == (ValueBase^Bytes[t]) \div 2
Integer(t, u, n) == [kind |-> "integer", type |-> t, unsigned |-> u, n |-> n]
Integers8 ==
    UNION {{Integer(t, "no", n) : n \in {-Half(t), -1, 0, Half(t) - 1}} : t \in {"tiny", "short", "long", "longlong"}}
      \cup UNION {{Integer(t, "yes", n) : n \in {0, Half(t), 2 * Half(t) - 1}} : t \in {"tiny", "short", "long", "longlong"}}
String(n) == [kind |-> "bytes", bytes |-> [i \in 1..n |-> i % ValueBase]]
Strings == {String(n) : n \in {0, 1, 2, 35, 36, 215, 216}}
NullRows == UNION {[1..n -> {Null, Integer("tiny", "yes", 1)}] : n \in 1..8}
MCValueInputs ==
    {<<x>> : x \in Integers8 \cup Strings} \cup {<<x, y>> : x \in Strings, y \in Integers8} \cup NullRows
      \cup UNION {[1..n -> {Null, String(0), String(1)}] : n \in 1..4}

DateTime(type, y, m, d, h, us) ==
    [kind |-> "datetime", type |-> type, year |-> y, month |-> m, day |-> d, hour |-> h, minute |-> h, second |-> h,
     micros |-> us]
Dates == {DateTime("date", y, m, 28, 0, 0) : y \in {1, 2000, 4095}, m \in {1, 2, 12}}
           \cup {DateTime("date", 2024, 2, 29, 0, 0), DateTime("date", 1999, 12, 31, 0, 0)}
Stamps == {DateTime("datetime", y, 12, 31, h, us) : y \in {1, 2024}, h \in {0, 23}, us \in {0, 1, 999999}}
Time(neg, h, d) == [kind |-> "time", negative |-> neg, hours |-> h, minute |-> 59, second |-> 0, digits |-> d]
Times == {Time(neg, h, d) : neg \in {"yes", "no"}, h \in {0, 23, 24, 838}, d \in {<< >>, <<0>>, <<5>>, <<0, 0, 0, 0, 0, 1>>}}
MCTimeInputs ==
    {<<x>> : x \in Dates \cup Stamps \cup Times} \cup {<<x, y>> : x \in Times, y \in Stamps}
      \cup {<<Null, String(1)>>}
=============================================================================
