------------------------------ MODULE Response ------------------------------
(***************************************************************************)
(* What a pooled session writes for each command: the packets of a result  *)
(* set (rows, queryPrepared), of a prepare, of an OK or an error, with the *)
(* sequence number each carries, and the warning count that the session    *)
(* records and later answers SHOW COUNT WARNINGS from.  The client is a    *)
(* reader of the MySQL protocol that knows which packet may come next.     *)
(***************************************************************************)
EXTENDS Integers

CONSTANTS MaxColumns, MaxRows,   \* bounds: columns or parameters, rows written at a time
          MaxFrames,             \* bound: frames a row takes
          SequenceSpan,          \* values of the uint8 sequence: 256
          MaxWarnings,           \* bound: messages a statement leaves upstream
          MaxUint16              \* the largest count a packet can carry

ASSUME ResponseAssumption ==
    /\ MaxColumns \in Nat \ {0} /\ MaxRows \in Nat /\ MaxFrames \in Nat \ {0}
    /\ SequenceSpan \in Nat \ {0, 1} /\ MaxWarnings \in Nat /\ MaxUint16 \in Nat

VARIABLES at,           \* where the session is in the reply it writes
          todo,         \* definitions it still has to write
          sequence,     \* its local of that name
          row,          \* "text" or "binary": whether rows or queryPrepared runs
          written,      \* rows written (bounded)
          warnings,     \* state.Warnings
          diagnostics,  \* messages the statement left upstream; None when none ran
          client,       \* the client's reader
          stray         \* "yes" once the client was sent a packet it does not wait for
responseVars == <<at, todo, sequence, row, written, warnings, diagnostics, client, stray>>

None == -1
Reader == [at : {"ready", "reply", "definitions", "rows", "parameters", "lost"},
           asked : {"query", "execute", "prepare", "warnings", "other"}, todo : 0..MaxColumns,
           next : 0..(SequenceSpan - 1), warnings : 0..MaxUint16, outcome : {"done", "error"}]
\* Types of the variables of the session and of the reader.
ResponseTypes ==
    /\ at \in {"loop", "definitions", "rows", "parameters", "ended"} /\ todo \in 0..MaxColumns
    /\ sequence \in 0..(SequenceSpan - 1) /\ row \in {"text", "binary"} /\ written \in 0..MaxRows
    /\ warnings \in 0..MaxUint16 /\ diagnostics \in None..MaxWarnings /\ client \in Reader
    /\ stray \in {"no", "yes"}

ResponseInit ==
    /\ at = "loop" /\ todo = 0 /\ sequence = 0 /\ row = "text" /\ written = 0
    /\ warnings = 0 /\ diagnostics = None /\ stray = "no"
    /\ client = [at |-> "ready", asked |-> "other", todo |-> 0, next |-> 0, warnings |-> 0,
               outcome |-> "done"]

Packet(kind, seq, n, w) == [kind |-> kind, seq |-> seq, n |-> n, warnings |-> w, frames |-> 1]
OKPayload(seq, w)     == Packet("OK", seq, 0, w)
ErrorPayload(seq)     == Packet("ERR", seq, 0, 0)
EOFPayload(seq, w)    == Packet("EOF", seq, 0, w)
ColumnCountPayload(seq, n)   == Packet("count", seq, n, 0)
ColumnDefinitionPayload(seq) == Packet("definition", seq, 0, 0)
PrepareOKPayload(seq, n)     == Packet("prepared", seq, n, 0)
RowPayload(kind, seq, f)     == [Packet(kind, seq, 0, 0) EXCEPT !.frames = f]

\* The packets a client can make sense of, and where each takes it.
Follows(c, p) ==
    CASE c.at = "reply" /\ p.kind = "ERR" -> "ready"
      [] c.at = "reply" /\ p.kind = "OK" /\ c.asked # "prepare" -> "ready"
      [] c.at = "reply" /\ p.kind = "count" /\ p.n > 0 /\ c.asked \in {"query", "execute", "warnings"} -> "definitions"
      [] c.at = "reply" /\ p.kind = "prepared" /\ c.asked = "prepare" -> IF p.n = 0 THEN "ready" ELSE "parameters"
      [] c.at \in {"definitions", "parameters"} /\ p.kind = "definition" /\ c.todo > 0 -> c.at
      [] c.at = "definitions" /\ p.kind = "EOF" /\ c.todo = 0 -> "rows"
      [] c.at = "parameters" /\ p.kind = "EOF" /\ c.todo = 0 -> "ready"
      [] c.at = "rows" /\ p.kind = (IF c.asked = "execute" THEN "binary" ELSE "text") -> "rows"
      [] c.at = "rows" /\ p.kind \in {"EOF", "ERR"} -> "ready"
      [] OTHER -> "lost"
Reads(c, p) ==
    [c EXCEPT !.at = IF p.seq = c.next THEN Follows(c, p) ELSE "lost",
              !.todo = IF p.kind \in {"count", "prepared"} THEN p.n ELSE IF @ > 0 THEN @ - 1 ELSE 0,
              !.next = (p.seq + p.frames) % SequenceSpan,
              !.warnings = IF p.kind \in {"OK", "EOF"} THEN p.warnings ELSE @,
              !.outcome = IF p.kind = "ERR" THEN "error" ELSE "done"]
\* The client once it has sent a command.
Waiting(asked) == [client EXCEPT !.at = "reply", !.asked = asked, !.next = 1, !.todo = 0]

\* readWarningCount: the count, as far as a uint16 holds it.
Capped(count) == IF count < MaxUint16 THEN count ELSE MaxUint16

CommandRead == at = "loop" /\ client.at = "ready"
Replies(asked, p) == client' = Reads(Waiting(asked), p)
\* Client.WriteMessage: the packet, and the sequence after its last frame.
Send(p) == client' = Reads(client, p) /\ sequence' = (p.seq + p.frames) % SequenceSpan

-----------------------------------------------------------------------------
\* Commands answered without a statement upstream: ping, use, begin and the other
\* session statements (OK), and everything that is refused (an error).
Local(asked) ==
    /\ CommandRead /\ diagnostics' = None
    /\ \/ asked = "other" /\ Replies(asked, OKPayload(1, 0))
       \/ Replies(asked, ErrorPayload(1))
    /\ UNCHANGED <<at, todo, sequence, row, written, warnings, stray>>
\* exec and execPrepared; the statement, or the count after it, may fail.
Exec(asked, count) ==
    /\ CommandRead /\ diagnostics' = count
    /\ warnings' = Capped(count) /\ Replies(asked, OKPayload(1, Capped(count)))
    /\ UNCHANGED <<at, todo, sequence, row, written, stray>>
ExecFails(asked, count) ==
    /\ CommandRead /\ count > 0 /\ diagnostics' = count /\ Replies(asked, ErrorPayload(1))
    /\ UNCHANGED <<at, todo, sequence, row, written, warnings, stray>>

\* rows and queryPrepared, up to the column count.
Rows(n) ==
    /\ CommandRead /\ row' = "text" /\ Replies("query", ColumnCountPayload(1, n))
    /\ sequence' = 2 % SequenceSpan /\ at' = "definitions" /\ todo' = n /\ written' = 0
    /\ UNCHANGED <<warnings, diagnostics, stray>>
QueryPrepared(n) ==
    /\ CommandRead /\ row' = "binary" /\ Replies("execute", ColumnCountPayload(1, n))
    /\ sequence' = 2 % SequenceSpan /\ at' = "definitions" /\ todo' = n /\ written' = 0
    /\ UNCHANGED <<warnings, diagnostics, stray>>
Definition ==
    /\ at \in {"definitions", "parameters"} /\ todo > 0
    /\ Send(ColumnDefinitionPayload(sequence)) /\ todo' = todo - 1
    /\ UNCHANGED <<at, row, written, warnings, diagnostics, stray>>
DefinitionsEnd ==
    /\ at = "definitions" /\ todo = 0
    /\ Send(EOFPayload(sequence, 0)) /\ at' = "rows"
    /\ UNCHANGED <<todo, row, written, warnings, diagnostics, stray>>
TextRow(f) ==
    /\ at = "rows" /\ row = "text" /\ written < MaxRows /\ written' = written + 1
    /\ Send(RowPayload("text", sequence, f))
    /\ UNCHANGED <<at, todo, row, warnings, diagnostics, stray>>
PreparedRow(f) ==
    /\ at = "rows" /\ row = "binary" /\ written < MaxRows /\ written' = written + 1
    /\ Send(RowPayload("binary", sequence, f))
    /\ UNCHANGED <<at, todo, row, warnings, diagnostics, stray>>
\* A mutated form: the error starts a reply of its own.
MutRowsFail(count) ==
    /\ at = "rows" /\ count > 0 /\ diagnostics' = count
    /\ Send(ErrorPayload(1)) /\ at' = "loop"
    /\ UNCHANGED <<todo, row, written, warnings, stray>>
\* A row that cannot be fetched or encoded, or a count that cannot be read:
\* writeSQLErrorAt puts the error where the next row would be.
RowsFail(count) ==
    /\ at = "rows" /\ count > 0 /\ diagnostics' = count
    /\ Send(ErrorPayload(sequence)) /\ at' = "loop"
    /\ UNCHANGED <<todo, row, written, warnings, stray>>
RowsEnd(count) ==
    /\ at = "rows" /\ diagnostics' = count /\ warnings' = Capped(count)
    /\ Send(EOFPayload(sequence, Capped(count))) /\ at' = "loop"
    /\ UNCHANGED <<todo, row, written, stray>>

\* warningCount: a result set of one row, made from the record.
WarningCount ==
    /\ CommandRead
    /\ LET count      == Reads(Waiting("warnings"), ColumnCountPayload(1 % SequenceSpan, 1))
           definition == Reads(count, ColumnDefinitionPayload(2 % SequenceSpan))
           columns    == Reads(definition, EOFPayload(3 % SequenceSpan, 0))
           value      == Reads(columns, RowPayload("text", 4 % SequenceSpan, 1))
       IN client' = Reads(value, EOFPayload(5 % SequenceSpan, 0))
    /\ UNCHANGED <<at, todo, sequence, row, written, warnings, diagnostics, stray>>

\* prepare, once the statement is prepared upstream.
Prepare(n) ==
    /\ CommandRead /\ Replies("prepare", PrepareOKPayload(1, n)) /\ sequence' = 2 % SequenceSpan
    /\ todo' = n /\ at' = (IF n = 0 THEN "loop" ELSE "parameters") /\ diagnostics' = None
    /\ UNCHANGED <<row, written, warnings, stray>>
ParametersEnd ==
    /\ at = "parameters" /\ todo = 0
    /\ Send(EOFPayload(sequence, 0)) /\ at' = "loop"
    /\ UNCHANGED <<todo, row, written, warnings, diagnostics, stray>>
\* Long data has no reply, and the client waits for none, but long data for a
\* handle that is not there gets an error.
SendLongDataUnknown ==
    /\ CommandRead /\ stray' = "yes" /\ client' = Reads(client, ErrorPayload(1))
    /\ UNCHANGED <<at, todo, sequence, row, written, warnings, diagnostics>>
\* The client quits, or a write fails.
End ==
    /\ at # "ended" /\ at' = "ended"
    /\ UNCHANGED <<todo, sequence, row, written, warnings, diagnostics, client, stray>>

ResponseNext ==
    \/ \E asked \in {"query", "execute", "prepare", "other"} : Local(asked)
    \/ \E asked \in {"query", "execute"}, count \in 0..MaxWarnings : Exec(asked, count) \/ ExecFails(asked, count)
    \/ \E n \in 1..MaxColumns : Rows(n) \/ QueryPrepared(n)
    \/ Definition \/ DefinitionsEnd
    \/ \E f \in 1..MaxFrames : TextRow(f) \/ PreparedRow(f)
    \/ \E count \in 0..MaxWarnings : RowsFail(count) \/ RowsEnd(count)
    \/ WarningCount \/ \E n \in 0..MaxColumns : Prepare(n)
    \/ ParametersEnd \/ SendLongDataUnknown \/ End
ResponseSpec == ResponseInit /\ [][ResponseNext]_responseVars

-----------------------------------------------------------------------------
\* No packet of a reply is one the client cannot take there: rows, queryPrepared,
\* prepare and their error paths keep to the protocol, sequence numbers included,
\* however many frames the rows took and wherever the statement failed.
RepliesUnderstood == stray = "no" => client.at # "lost"

\* The session waits for a command only when the client has read a whole reply,
\* and writes only while the client still reads: writeSQLErrorAt ends a result set.
RepliesComplete == (at # "ended" /\ stray = "no") => (at = "loop" <=> client.at = "ready")

\* A statement that succeeds reports the number of its own messages, as far as a
\* uint16 holds it, and SetResult records the number that was reported.
WarningsReported ==
    (client.at = "ready" /\ client.asked \in {"query", "execute"} /\ client.outcome = "done" /\ diagnostics # None)
        => /\ client.warnings = warnings
           /\ IF diagnostics > MaxUint16 THEN warnings = MaxUint16 ELSE warnings = diagnostics

\* Each command gets one whole reply, which the client understands and which counts
\* the warnings of its own statement.
RepliesSound == RepliesUnderstood /\ RepliesComplete /\ WarningsReported
=============================================================================
