------------------------------ MODULE LongData ------------------------------
(***************************************************************************)
(* The arguments of one prepared statement handle                          *)
(* (internal/gateway/prepared.go): COM_STMT_SEND_LONG_DATA chunks, the     *)
(* stored parameter types, and decodeArguments, which builds the arguments *)
(* of an execute from the null bitmap, the type array, the long data and   *)
(* the inline values.  Bytes are model values; how an inline value of each *)
(* type is decoded is module BinaryValue's subject.                        *)
(***************************************************************************)
EXTENDS Integers, Sequences, FiniteSets

CONSTANTS MaxParams,    \* most parameters of the statement
          MaxLongData,  \* maxPreparedLongData
          Chunks        \* the byte sequences a client sends as one chunk

ASSUME LongDataAssumption ==
    /\ MaxParams \in Nat /\ MaxLongData \in Nat
    /\ \A bytes \in Chunks : bytes \in Seq({bytes[i] : i \in DOMAIN bytes})

NULL == <<"NULL">>  \* what the driver sends for nil and for a nil byte slice

VARIABLES handle,         \* "open" or "closed"
          parameterCount,
          parameterTypes, \* "zero" until set; DECIMAL is type 0 as well
          longData,       \* a function on the parameters that have long data
          longDataBytes, longDataError,
          last,           \* the last command: what it was and how it ended
          sent, lost      \* history: bytes sent for each parameter since the last
                          \* execute or reset, and whether any was not kept

statement == <<handle, parameterCount, parameterTypes>>
store == <<longData, longDataBytes, longDataError>>
arguments == <<statement, store, last, sent, lost>>

Params == 1..parameterCount
NoData == [p \in {} |-> <<>>]
AddTo(f, p, bytes) == [q \in DOMAIN f \cup {p} |->
                         (IF q \in DOMAIN f THEN f[q] ELSE <<>>) \o (IF q = p THEN bytes ELSE <<>>)]

\* append([]byte(nil), value...): a copy, and nil when value is empty.
Copied(bytes) == IF bytes = <<>> THEN NULL ELSE bytes

ArgumentInit ==
    /\ handle = "closed" /\ parameterCount = 0 /\ parameterTypes = <<>>
    /\ longData = NoData /\ longDataBytes = 0 /\ longDataError = FALSE
    /\ last = [op |-> "none"] /\ sent = NoData /\ lost = FALSE

\* prepare (as far as arguments are concerned) and closePrepared.
PrepareHandle(n) ==
    /\ handle = "closed" /\ handle' = "open"
    /\ parameterCount' = n /\ parameterTypes' = [p \in 1..n |-> "zero"]
    /\ longData' = NoData /\ longDataBytes' = 0 /\ longDataError' = FALSE
    /\ last' = [op |-> "prepare"] /\ sent' = NoData /\ lost' = FALSE
Close ==
    /\ handle = "open" /\ handle' = "closed"
    /\ parameterCount' = 0 /\ parameterTypes' = <<>>
    /\ longData' = NoData /\ longDataBytes' = 0 /\ longDataError' = FALSE
    /\ last' = [op |-> "close"] /\ sent' = NoData /\ lost' = FALSE

\* sendPreparedLongData: refused for an unknown handle or parameter, remembered
\* as an error over the bound, appended otherwise.
SendLongData(p, bytes) ==
    /\ handle = "open" /\ p \in Params
    /\ IF longDataBytes + Len(bytes) > MaxLongData
       THEN longDataError' = TRUE /\ lost' = TRUE /\ UNCHANGED <<longData, longDataBytes, sent>>
       ELSE /\ longData' = AddTo(longData, p, bytes) /\ longDataBytes' = longDataBytes + Len(bytes)
            /\ sent' = AddTo(sent, p, bytes)
            /\ UNCHANGED <<longDataError, lost>>
    /\ last' = [op |-> "send"]
    /\ UNCHANGED statement
SendRefused(p) ==
    /\ handle = "closed" \/ p \notin Params
    /\ last' = [op |-> "refused"]
    /\ UNCHANGED <<statement, store, sent, lost>>

MutClearLongData ==
    longData' = NoData /\ longDataBytes' = 0 /\ UNCHANGED longDataError
ClearLongData ==
    longData' = NoData /\ longDataBytes' = 0 /\ longDataError' = FALSE

Reset ==
    /\ handle = "open" /\ ClearLongData
    /\ last' = [op |-> "reset"] /\ sent' = NoData /\ lost' = FALSE
    /\ UNCHANGED statement

-----------------------------------------------------------------------------
(* decodeArguments.  An execute packet x carries a cursor flag, the set of *)
(* null parameters, its type array (unless it sends "none", or a "short"   *)
(* packet), one inline value per parameter, and whether these parse to the *)
(* last byte.                                                              *)

TypesAfter(x) == IF x.sends = "array" THEN x.types ELSE parameterTypes

DecodeFails(x) ==
    /\ parameterCount > 0
    /\ \/ x.sends = "short"
       \/ x.sends = "none" /\ \E p \in Params : parameterTypes[p] = "zero"
       \/ ~x.parses

Argument(x, p) ==
    IF p \in x.nulls THEN NULL
    ELSE IF p \in DOMAIN longData THEN Copied(longData[p])
    ELSE IF TypesAfter(x)[p] = "null" THEN NULL
    ELSE Copied(x.values[p])

\* What the client means the statement to run with.
Meant(x, p) ==
    IF p \in x.nulls THEN NULL
    ELSE IF p \in DOMAIN sent THEN sent[p]
    ELSE IF TypesAfter(x)[p] = "null" THEN NULL
    ELSE x.values[p]

\* executePrepared up to the moment the statement runs upstream.
Execute(x) ==
    /\ handle = "open"
    /\ IF x.cursor THEN last' = [op |-> "cursor"] /\ UNCHANGED <<parameterTypes, store, sent, lost>>
       ELSE /\ IF longDataError THEN last' = [op |-> "tooLong"] /\ UNCHANGED parameterTypes
               ELSE /\ parameterTypes' = IF parameterCount = 0 THEN parameterTypes ELSE TypesAfter(x)
                    /\ last' = IF DecodeFails(x) THEN [op |-> "malformed"]
                               ELSE [op |-> "run", args |-> [p \in Params |-> Argument(x, p)],
                                     meant |-> [p \in Params |-> Meant(x, p)], lost |-> lost]
            /\ ClearLongData /\ sent' = NoData /\ lost' = FALSE
    /\ UNCHANGED <<handle, parameterCount>>
ExecuteUnknown ==
    /\ handle = "closed"
    /\ last' = [op |-> "refused"]
    /\ UNCHANGED <<statement, store, sent, lost>>

\* A type array that is not sent, and what follows a cursor flag, are not looked at.
Packets ==
    LET Sent(cursors, sends, types) ==
            [cursor : cursors, nulls : SUBSET Params, parses : BOOLEAN, sends : sends, types : types,
             values : [Params -> {<<>>, <<"v">>}]]
    IN Sent({FALSE}, {"array"}, [Params -> {"zero", "null", "other"}])
         \cup Sent(BOOLEAN, {"none", "short"}, {[p \in Params |-> "zero"]})

ArgumentNext ==
    \/ \E n \in 0..MaxParams : PrepareHandle(n)
    \/ Close \/ Reset \/ ExecuteUnknown
    \/ \E p \in 1..(MaxParams + 1) : SendRefused(p) \/ \E bytes \in Chunks : SendLongData(p, bytes)
    \/ \E x \in Packets : Execute(x)

ArgumentSpec == ArgumentInit /\ [][ArgumentNext]_arguments

-----------------------------------------------------------------------------
(* Types of the fields that prepared.go keeps for a statement's arguments. *)
ArgumentTypes ==
    /\ handle \in {"open", "closed"} /\ parameterCount \in 0..MaxParams
    /\ parameterTypes \in [Params -> {"zero", "null", "other"}]
    /\ DOMAIN longData \subseteq Params /\ DOMAIN sent \subseteq Params
    /\ longDataBytes \in Nat /\ longDataError \in BOOLEAN /\ lost \in BOOLEAN

\* The bytes kept, one element for each: byte i of parameter p.
KeptBytes == UNION {{p} \X (1..Len(longData[p])) : p \in DOMAIN longData}
\* The long data kept for one handle is exactly what longDataBytes counts, and
\* never more than maxPreparedLongData.
LongDataBounded ==
    /\ longDataBytes = Cardinality(KeptBytes)
    /\ longDataBytes <= MaxLongData

\* A statement runs with exactly the arguments the client meant: every chunk
\* since the last execute or reset and none from before it, in order, with the
\* null bitmap first; it does not run at all when a chunk was dropped.  (An
\* empty value is left open: Copied turns it into a nil slice.)
ArgumentsExact ==
    last.op = "run" =>
        /\ ~last.lost
        /\ \A p \in Params : last.args[p] = last.meant[p] \/ last.meant[p] = <<>>

\* An execute that was answered, with success or with an error, leaves neither
\* long data nor a pending error behind for the next one.
ExecuteClears ==
    last.op \in {"run", "tooLong", "malformed", "reset"} => longData = NoData /\ longDataBytes = 0 /\ ~longDataError

\* The long data kept for a handle is what longDataBytes counts and at most
\* maxPreparedLongData; decodeArguments gives a statement exactly the arguments the
\* client meant, or refuses to run it when a chunk was dropped; an execute that was
\* answered leaves nothing behind for the next one.
LongDataSound == LongDataBounded /\ ArgumentsExact /\ ExecuteClears
=============================================================================
