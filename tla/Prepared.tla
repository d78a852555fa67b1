------------------------------ MODULE Prepared ------------------------------
(***************************************************************************)
(* The data path of a prepared statement, stage by stage: the text it is   *)
(* prepared from (Classify), the arguments of an execute (LongData), the   *)
(* values in binary and text rows (BinaryValue, at two byte sizes), and    *)
(* the packets of the replies (Response).  The stages share no variable of *)
(* the code: each behaviour runs one of them, and the others keep their    *)
(* initial state.                                                          *)
(***************************************************************************)
EXTENDS Response, LongData

CONSTANTS Queries,                 \* see Classify
          ValueBase, ValueInputs,  \* see BinaryValue: integers, strings, nulls
          TimeBase, TimeInputs     \* and dates and times

ASSUME PreparedAssumption ==
    \A base \in {ValueBase, TimeBase} : base \in Nat /\ base > 5 /\ base % 2 = 0

VARIABLES stage,
          textAt, query, prepared, count, executed,
          rowAt, input, wire, output
text   == <<textAt, query, prepared, count, executed>>
values == <<rowAt, input, wire, output>>

C == INSTANCE Classify WITH pc <- textAt
V == INSTANCE BinaryValue WITH Base <- ValueBase, Inputs <- ValueInputs, pc <- rowAt
T == INSTANCE BinaryValue WITH Base <- TimeBase, Inputs <- TimeInputs, pc <- rowAt

PreparedInit ==
    /\ stage \in {"text", "arguments", "values", "times", "reply"}
    /\ ResponseInit /\ ArgumentInit
    /\ IF stage = "text" THEN C!Init ELSE C!InitFrom({<< >>})
    /\ CASE stage = "values" -> V!Init
         [] stage = "times"  -> T!Init
         [] OTHER            -> V!InitFrom({<< >>})

PreparedNext ==
    \/ stage = "text"      /\ C!Next /\ UNCHANGED <<stage, responseVars, arguments, values>>
    \/ stage = "arguments" /\ ArgumentNext /\ UNCHANGED <<stage, responseVars, text, values>>
    \/ stage = "values"    /\ V!Next /\ UNCHANGED <<stage, responseVars, text, arguments>>
    \/ stage = "times"     /\ T!Next /\ UNCHANGED <<stage, responseVars, text, arguments>>
    \/ stage = "reply"     /\ ResponseNext /\ UNCHANGED <<stage, text, arguments, values>>
preparedVars == <<stage, responseVars, text, arguments, values>>

-----------------------------------------------------------------------------
\* executePrepared takes the kept text for what prepare accepted; without comments,
\* ClassifySQL refuses a text as several statements exactly when code follows a
\* separator, and the parameter count announced is the number of markers outside
\* quotes; a comment in front of a statement changes nothing.
ClassifierSound == C!ClassifierSound
\* Encoding a row and decoding it gives the values back, for every integer width,
\* string length, null bitmap, date and time; a packet of values cut short anywhere
\* is refused, never read as another value.
RowsExact == IF stage = "times" THEN T!RowsExact ELSE V!RowsExact
=============================================================================
