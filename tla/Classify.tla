------------------------------ MODULE Classify ------------------------------
(***************************************************************************)
(* The SQL classifier (internal/engine/classify.go) and its use by the     *)
(* prepared path, which classifies the client's text at prepare and what   *)
(* it kept of that text at each execute.  A query is a sequence of symbols *)
(* (words, upper-cased, and punctuation); a blank is a space or a newline. *)
(***************************************************************************)
EXTENDS Integers, Sequences, FiniteSets

CONSTANT Queries

Blanks == {" ", "nl"}
Quotes == {"quote", "backquote"}
From(s, i) == SubSeq(s, i, Len(s))
Least(S) == CHOOSE i \in S : \A j \in S : i <= j
Kept(s) == {i \in 1..Len(s) : s[i] \notin Blanks}
TrimSpace(s) ==
    IF Kept(s) = {} THEN << >>
    ELSE SubSeq(s, Least(Kept(s)), CHOOSE i \in Kept(s) : \A j \in Kept(s) : j <= i)
TrimPrefix(s, p) == IF Len(s) >= Len(p) /\ SubSeq(s, 1, Len(p)) = p THEN From(s, Len(p) + 1) ELSE s
TrimSemicolon(s) == IF s # << >> /\ s[Len(s)] = ";" THEN SubSeq(s, 1, Len(s) - 1) ELSE s
Contains(s, f) == \E i \in 1..Len(s) : TrimPrefix(From(s, i), f) # From(s, i)
\* The position after the first c from i on, or the end.
After(s, i, c) ==
    LET found == {j \in i..Len(s) : s[j] = c} IN IF found = {} THEN Len(s) + 1 ELSE Least(found) + 1

LineComment(s, i) == s[i] = "#" \/ (s[i] = "--" /\ (i = Len(s) \/ s[i + 1] \in Blanks))

StripLeadingComments(s) ==
    LET visible[i \in 1..(Len(s) + 1)] ==
            CASE i > Len(s)                            -> i
              [] i <= Len(s) /\ s[i] \in Blanks        -> visible[i + 1]
              [] i <= Len(s) /\ s[i] = "/*"            -> visible[After(s, i + 1, "*/")]
              [] i <= Len(s) /\ LineComment(s, i)      -> visible[After(s, i + 1, "nl")]
              [] OTHER                                 -> i
    IN TrimSpace(From(s, visible[1]))

\* The quote automaton of hasMultipleStatements and countPreparedParameters: the
\* open quote and whether the next symbol is escaped, after each symbol.
Unquoted == <<"none", "plain">>
MutQuoteAfter(p, c) ==
    CASE p = Unquoted               -> IF c \in Quotes THEN <<c, "plain">> ELSE p
      [] p # Unquoted /\ c = "backslash"   -> <<p[1], "plain">>
      [] p # Unquoted /\ c = p[1]   -> Unquoted
      [] OTHER                      -> p
QuoteAfter(p, c) ==
    CASE p = Unquoted                                       -> IF c \in Quotes THEN <<c, "plain">> ELSE p
      [] p[2] = "escaped"                                   -> <<p[1], "plain">>
      [] p[2] = "plain" /\ c = "backslash" /\ p[1] \in Quotes \ {"backquote"} -> <<p[1], "escaped">>
      [] p[2] = "plain" /\ c = p[1]                         -> Unquoted
      [] OTHER                                              -> p
Scan(s) ==
    LET after[i \in 0..Len(s)] == IF i = 0 THEN Unquoted ELSE QuoteAfter(after[i - 1], s[i]) IN after
HasMultipleStatements(s) ==
    \E i \in 1..Len(s) : s[i] = ";" /\ Scan(s)[i - 1] = Unquoted /\ StripLeadingComments(From(s, i + 1)) # << >>
CountPreparedParameters(s) == Cardinality({i \in 1..Len(s) : s[i] = "?" /\ Scan(s)[i - 1] = Unquoted})

\* strings.Fields, for the fields that are one word.
Fields(s) ==
    LET starts == {i \in Kept(s) : i = 1 \/ s[i - 1] \in Blanks}
        nth[n \in 1..Cardinality(starts)] == CHOOSE i \in starts : Cardinality({j \in starts : j <= i}) = n
        ends(i) == LET b == {j \in i..Len(s) : s[j] \in Blanks} IN IF b = {} THEN Len(s) ELSE Least(b) - 1
    IN [n \in 1..Cardinality(starts) |-> IF ends(nth[n]) = nth[n] THEN s[nth[n]] ELSE "other"]

ReadWords == {"SELECT", "SHOW", "DESCRIBE", "EXPLAIN"}
UnsafeFragments == {<<"GET_LOCK(">>, <<"LAST_INSERT_ID(">>, <<" ", "INTO OUTFILE">>}
UnsafeRead(s) ==
    \/ \E f \in UnsafeFragments : Contains(s, f)
    \/ Contains(s, <<"@">>)
    \/ \E w \in {"WARNINGS", "STATUS"} : TrimPrefix(s, <<"SHOW", " ", w>>) # s

\* SET: the blanks are dropped, then the scope.
Assignment(s) ==
    LET compact == SelectSeq(s, LAMBDA c : c \notin Blanks)
    IN TrimPrefix(TrimPrefix(TrimPrefix(TrimPrefix(compact, <<"SET", "SESSION">>), <<"SET", "@@", "SESSION", ".">>),
                             <<"SET", "@@">>), <<"SET">>)
SetKind(s, fields) ==
    CASE Assignment(s) = <<"AUTOCOMMIT", "=", "1">> -> "autocommit_on"
      [] Assignment(s) = <<"AUTOCOMMIT", "=", "0">> -> "autocommit_off"
      [] fields = <<"SET", "NAMES", "UTF8MB4">>     -> "set_names"
      [] OTHER                                      -> "unsupported"
Plainly(fields, kind) ==
    IF Len(fields) = 1 \/ (Len(fields) = 2 /\ fields[2] = "WORK") THEN kind ELSE "unsupported"
RollbackTo(fields) ==
    Len(fields) > 1 /\ (fields[2] = "TO" \/ (fields[2] = "WORK" /\ Len(fields) > 2 /\ fields[3] = "TO"))
Kind(s, fields) ==
    CASE fields[1] \in ReadWords ->
            IF fields = <<"SHOW", "COUNT_ALL", "WARNINGS">> THEN "warning_count"
            ELSE IF UnsafeRead(s) THEN "unsupported" ELSE "read"
      [] fields[1] \in {"INSERT", "UPDATE"} -> IF Contains(s, <<" ", "RETURNING">>) THEN "unsupported" ELSE "write"
      [] fields[1] \in {"CREATE", "DROP"} ->
            IF Len(fields) > 1 /\ fields[2] = "TEMPORARY" THEN "unsupported" ELSE "ddl"
      [] fields[1] = "BEGIN"    -> Plainly(fields, "begin")
      [] fields[1] = "START"    -> IF fields = <<"START", "TRANSACTION">> THEN "begin" ELSE "unsupported"
      [] fields[1] = "COMMIT"   -> Plainly(fields, "commit")
      [] fields[1] = "ROLLBACK" -> IF RollbackTo(fields) THEN "savepoint" ELSE Plainly(fields, "rollback")
      [] fields[1] = "SAVEPOINT" -> "savepoint"
      [] fields[1] = "USE"      -> "use_database"
      [] fields[1] = "SET"      -> SetKind(s, fields)
      [] OTHER                  -> "unsupported"

\* Unsupported for being several statements is a kind of its own here.
Statement(kind, sql) == [kind |-> kind, SQL |-> sql]
ClassifySQL(query) ==
    LET trimmed == TrimSpace(query)
        kept    == TrimSpace(TrimSemicolon(trimmed))
        visible == StripLeadingComments(kept)
    IN CASE trimmed = << >>                -> Statement("empty", query)
         [] trimmed # << >> /\ HasMultipleStatements(trimmed) -> Statement("multiple", query)
         [] trimmed # << >> /\ ~HasMultipleStatements(trimmed) /\ visible = << >> -> Statement("empty", query)
         [] OTHER                          -> Statement(Kind(visible, Fields(visible)), kept)

-----------------------------------------------------------------------------
VARIABLES pc, query, prepared, count, executed
vars == <<pc, query, prepared, count, executed>>

NoStatement == Statement("none", << >>)
InitFrom(queries) ==
    pc = "prepare" /\ query \in queries /\ prepared = NoStatement /\ count = 0 /\ executed = NoStatement
Init == InitFrom(Queries)
\* prepare classifies the query, prepares the kept text and counts its parameters.
Prepare ==
    /\ pc = "prepare"
    /\ prepared' = ClassifySQL(query)
    /\ IF prepared'.kind \in {"read", "write", "ddl"}
       THEN pc' = "execute" /\ count' = CountPreparedParameters(prepared'.SQL)
       ELSE pc' = "refused" /\ UNCHANGED count
    /\ UNCHANGED <<query, executed>>
\* executePrepared classifies the kept text.
Execute ==
    /\ pc = "execute" /\ pc' = "executed"
    /\ executed' = ClassifySQL(prepared.SQL) /\ UNCHANGED <<query, prepared, count>>
Next == Prepare \/ Execute
Spec == Init /\ [][Next]_vars

-----------------------------------------------------------------------------
(* A reading of the text that does not use the automaton: from each start of  *)
(* a token jump to its end.                                                   *)
Backslashes(s, i, j) == Cardinality({k \in i..j : \A l \in k..j : s[l] = "backslash"})
CloseOf(s, i) ==
    LET ends == {j \in (i + 1)..Len(s) : s[j] = s[i] /\ (s[i] = "backquote" \/ Backslashes(s, i + 1, j - 1) % 2 = 0)}
    IN IF ends = {} THEN Len(s) + 1 ELSE Least(ends) + 1
Code(s) ==
    LET code[i \in 1..(Len(s) + 1)] ==
            CASE i > Len(s)                                    -> {}
              [] i <= Len(s) /\ s[i] \in Quotes                -> code[CloseOf(s, i)]
              [] i <= Len(s) /\ s[i] = "/*"                    -> code[After(s, i + 1, "*/")]
              [] i <= Len(s) /\ LineComment(s, i)              -> code[After(s, i + 1, "nl")]
              [] OTHER                                         -> {i} \cup code[i + 1]
    IN code[1]
CommentFree(s) == \A i \in 1..Len(s) : s[i] \notin {"/*", "#", "--"}

\* What the execute path takes the kept text for is what prepare accepted: a read
\* is executed as a query and everything else as an exec.
KindStable == pc = "executed" => executed.kind = prepared.kind

\* Without comments, a text is refused as several statements exactly when some code
\* follows a separator, however the quotes and the escapes fall.
MultipleExact ==
    pc # "prepare" /\ CommentFree(query) =>
        (prepared.kind = "multiple" <=>
            \E i \in Code(query) : query[i] = ";" /\ \E j \in (i + 1)..Len(query) : query[j] \notin Blanks)

\* Without comments, the parameter count announced to the client is the number of
\* markers outside quotes in the text it sent.
ParametersExact ==
    pc \in {"execute", "executed"} /\ CommentFree(query) =>
        count = Cardinality({i \in Code(query) : query[i] = "?"})

LeadingComments == {<<"/*", "a", "*/">>, <<"#", "a", "nl">>, <<"--", " ", "nl", "/*", "*/", " ">>}
\* A comment in front of a statement does not change what it is classified as.
LeadingCommentIgnored ==
    pc # "prepare" => \A c \in LeadingComments : ClassifySQL(c \o query).kind = prepared.kind

\* The scanners agree with the reference, with one another and with themselves.
ClassifierSound == KindStable /\ MultipleExact /\ ParametersExact /\ LeadingCommentIgnored
=============================================================================
