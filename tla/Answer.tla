------------------------------- MODULE Answer -------------------------------
(* One answer of a tool, from the rows the server sends to the text: what the   *)
(* readers of internal/source/postgres keep (query.go, catalog.go), which       *)
(* databases they list (resolveDatabase, lease.go), the status of the core, and *)
(* Markdown on what they hand over.                                             *)
EXTENDS Render

CONSTANTS
    Outputs,    \* output of the config: sets of maxRows, maxBytes and maxCellChars
    Sources,    \* what the server, or the process, has for a tool
    Lists       \* databases of the config: include and exclude, as sets of patterns

\* source: the tool, its results in order, and whether a script ended the transaction.
\* A result has columns or not, and rows; a row has one value, of characters that take
\* width bytes and are written as so many. A pattern is the set of names it matches.
VARIABLES source, output, lists, got, read, failed

reading == <<source, output, lists, got, read, failed>>

Tools == {"query", "tables", "databases", "script", "explain", "status"}

Values  == [name : STRING, runes : Nat, width : 1..4, written : Nat]
Results == [columns : BOOLEAN, rows : {rs \in Seq(Values) : Len(rs) <= MaxInt}]

\* Only a script has more results than one, and every database has a name.
ASSUME AnswerAssumption ==
    /\ Outputs \subseteq Budgets
    /\ Sources \subseteq [tool : Tools, results : Seq(Results), ended : BOOLEAN]
    /\ \A s \in Sources : s.tool # "script" => Len(s.results) = 1
    /\ \A s \in Sources : s.tool = "databases" => \A n \in DOMAIN s.results[1].rows : s.results[1].rows[n].name # ""

------------------------------------------------------------------------------
(* What a reader keeps *)

\* Mistake: no more than the characters of the budget are kept.
CellBytesExact == output.cells * 4

\* cellBytes: one character past the budget, of the longest encoding.
CellBytes == (output.cells + 1) * 4

\* textRow: a value is cut to so many bytes when it is copied; the bytes of a character
\* that is cut count as one each.
TextRow(v) ==
    IF output.cells > 0 /\ v.runes * v.width > CellBytes
    THEN [v EXCEPT !.runes = (CellBytes \div v.width) + (CellBytes % v.width)]
    ELSE v

\* tableRow, with one cell between bars.
TableRow(v) == [fixed |-> 3, runes |-> v.runes, written |-> v.written]

TableRows(rows) == [n \in DOMAIN rows |-> TableRow(rows[n])]

\* A table of one column, named by one letter.
Table(rows, total, more) ==
    [kind |-> "table", frame |-> 8, lines |-> TableRows(rows), total |-> total, more |-> more]

PlainLines(sizes) == [n \in DOMAIN sizes |-> [fixed |-> sizes[n], runes |-> 0, written |-> 0]]

Text(sizes) ==
    [kind |-> "text", frame |-> 0, lines |-> PlainLines(sizes), total |-> 0, more |-> FALSE]

\* What is left of a sequence, after each of its members, if only those in a set are kept.
Passing(s, S) ==
    LET left[n \in 0..Len(s)] ==
          IF n = 0 THEN <<>> ELSE IF s[n] \in S THEN Append(left[n - 1], s[n]) ELSE left[n - 1]
    IN  left

Those(s, S) == Passing(s, S)[Len(s)]

MembersOf(s) == {s[n] : n \in DOMAIN s}

Upto(n, rows) == SubSeq(rows, 1, IF Len(rows) < n THEN Len(rows) ELSE n)

\* One row past the budget is fetched, so that "there is more" is a fact.
Fetched(rows) == IF output.rows > 0 THEN Upto(output.rows + 1, rows) ELSE rows

\* Table.Cap: a full answer knows its total, a cut one only that there is more.
Cap(rows) ==
    IF output.rows > 0 /\ Len(rows) > output.rows
    THEN Table(Upto(output.rows, rows), 0, TRUE)
    ELSE Table(rows, Len(rows), FALSE)

TextRows(rows) == [n \in DOMAIN rows |-> TextRow(rows[n])]

Result == source.results[1]

\* runQuery: a cursor and a plain query hand over the same rows.
Queried ==
    IF Result.columns THEN <<Cap(TextRows(Fetched(Result.rows)))>> ELSE <<Text(<<34>>)>>

\* listTables: the budget is the LIMIT of the statement.
Tabled == <<Cap(Fetched(Result.rows))>>

Matches(patterns, name) == \E pattern \in patterns : name \in pattern

\* resolveDatabase: a database the call names is checked against both lists, also the
\* default one; a call that names none connects to the default unchecked.
ResolveDatabase(name, named) ==
    ~named \/ (/\ name # ""
               /\ lists.include # {} => Matches(lists.include, name)
               /\ ~Matches(lists.exclude, name))

Accepted(rows) == {v \in MembersOf(rows) : ResolveDatabase(v.name, TRUE)}

\* Mistake: the budget is a LIMIT of the statement, and the filter comes after it.
ListedOfFirst(rows) == Those(Fetched(rows), Accepted(rows))

\* The loop of listDatabases: the budget is spent after the filter.
Listed(rows) == Fetched(Those(rows, Accepted(rows)))

\* The bytes of the first so many lines of a plan, with their line ends.
PlanLines(rows) == [n \in DOMAIN rows |-> rows[n].runes * rows[n].width + 1]
PlanBytes(rows) == Sums(PlanLines(rows))

\* explain keeps lines until it holds maxBytes, and counts them all.
Planned ==
    LET within == {n \in DOMAIN Result.rows : output.bytes = 0 \/ PlanBytes(Result.rows)[n - 1] < output.bytes}
    IN  <<[kind |-> "code", frame |-> 12, more |-> FALSE, total |-> Len(Result.rows),
           lines |-> PlainLines(PlanLines(Upto(Cardinality(within), Result.rows)))]>>

\* Mistake: a result counts the rows it kept.
ReturnedOfKept(r) ==
    IF ~r.columns THEN <<>> ELSE LET rows == TextRows(Fetched(r.rows)) IN <<Table(rows, Len(rows), FALSE)>>

\* returnedRows: every row is read and counted, one past the budget is kept.
Returned(r) == IF ~r.columns THEN <<>> ELSE <<Table(TextRows(Fetched(r.rows)), Len(r.rows), FALSE)>>

\* What execute adds behind the results: that the script ended the transaction, and a
\* command tag of each statement.
Tags == [n \in DOMAIN source.results |-> 11]
Closing == (IF source.ended THEN <<Text(<<177>>)>> ELSE <<>>) \o <<Text(Tags)>>

\* The status of the core: pairs, then the clusters if there is one.
Status ==
    <<[kind |-> "pairs", frame |-> 0, total |-> 0, more |-> FALSE,
       lines |-> PlainLines(<<17, 24, 12, 17, 15, 9, 24, 12, 16, 18>>)]>>
    \o (IF Result.rows = <<>> THEN <<>> ELSE <<Table(Result.rows, Len(Result.rows), FALSE)>>)

------------------------------------------------------------------------------
(* Reading, then rendering *)

AnswerInit ==
    /\ Init
    /\ source \in Sources /\ output \in Outputs
    /\ lists \in (IF source.tool = "databases" THEN Lists ELSE {[include |-> {}, exclude |-> {}]})
    /\ got = <<>> /\ read = 0 /\ failed = FALSE

\* A handler returns its blocks, and register renders them in the budget of the config.
Respond(tool, bs) ==
    /\ source.tool = tool
    /\ Markdown(bs, output)
    /\ UNCHANGED reading

RunQuery      == Respond("query", Queried)
ListTables    == Respond("tables", Tabled)
ListDatabases == Respond("databases", <<Cap(Listed(Result.rows))>>)
Explain       == Respond("explain", Planned)
ReadStatus    == Respond("status", Status)

\* execute reads one result of the script after the other.
ReadResult ==
    /\ phase = "idle" /\ source.tool = "script" /\ read < Len(source.results)
    /\ got' = got \o Returned(source.results[read + 1])
    /\ read' = read + 1
    /\ UNCHANGED <<vars, source, output, lists, failed>>

Execute == read = Len(source.results) /\ Respond("script", got \o Closing)

\* A statement fails, at any result: the blocks read so far are given up, and the failure
\* is rendered in the same budget.
Fails ==
    /\ source.tool # "status"
    /\ failed' = TRUE
    /\ Markdown(<<Text(<<60, 90>>)>>, output)
    /\ UNCHANGED <<source, output, lists, got, read>>

AnswerNext ==
    \/ RunQuery \/ ListTables \/ ListDatabases \/ Explain \/ ReadStatus
    \/ ReadResult \/ Execute
    \/ Fails
    \/ Rendering /\ UNCHANGED reading

AnswerSpec == AnswerInit /\ [][AnswerNext]_<<vars, reading>>

------------------------------------------------------------------------------
(* What a reader without budgets would have handed over *)

\* A database is reachable if a call may name it: the lists decide, not the reader.
Reachable(name) ==
    /\ lists.include = {} \/ \E p \in lists.include : name \in p
    /\ \A p \in lists.exclude : name \notin p

Everything(rows) ==
    [n \in DOMAIN rows |-> IF source.tool = "explain"
                           THEN [fixed |-> rows[n].runes * rows[n].width + 1, runes |-> 0, written |-> 0]
                           ELSE TableRow(rows[n])]

\* For each block of the answer, all the lines there are.
Available ==
    IF source.tool = "query" /\ ~Result.columns THEN <<blocks[1].lines>>
    ELSE IF source.tool = "databases"
    THEN <<Everything(Those(Result.rows, {v \in MembersOf(Result.rows) : Reachable(v.name)}))>>
    ELSE IF source.tool = "script"
    THEN LET tables == Those(source.results, {r \in MembersOf(source.results) : r.columns})
         IN  [n \in DOMAIN blocks |-> IF n <= Len(tables) THEN Everything(tables[n].rows) ELSE blocks[n].lines]
    ELSE IF source.tool = "status"
    THEN [n \in DOMAIN blocks |-> IF n = 1 THEN blocks[1].lines ELSE Everything(Result.rows)]
    ELSE <<Everything(Result.rows)>>

Answered == phase = "done" /\ ~failed

\* A block of the answer does not show all there is.
Short(j) == j > Len(shown) \/ (j <= Len(shown) /\ shown[j].lines < Len(Available[j]))

\* An answer without a notice is whole: every row, line and pair there is, no value
\* cut - whether the reader, MaxRows, MaxBytes or MaxCellChars would have cut it
\* (query.go:39, :197-203, markdown.go:91, docs/adr/0004).
SilenceMeansWhole ==
    Answered /\ HeadBytes = 0 =>
      \A j \in DOMAIN Available : ~Short(j) /\ \A n \in DOMAIN Available[j] : ~Cut(blocks[j], Available[j][n])

\* The notice is true of the first block cut: how many of how many it shows, that
\* there is more, and which budget stopped it; and it speaks of later blocks exactly
\* when one of them is cut or dropped (markdown.go:74-85, :119, :223).
NoticeIsTrue ==
    Answered =>
      LET cutBlocks == {j \in DOMAIN Available : Short(j)}
          first     == CHOOSE j \in cutBlocks : \A i \in cutBlocks : j <= i
          n         == notices[1]
      IN  /\ notices # <<>> =>
               /\ cutBlocks # {} /\ first <= Len(shown)
               /\ n.shown = shown[first].lines
               /\ n.total \in {Unknown, Len(Available[first])}
               /\ IF n.cap = "maxRows" THEN n.shown = output.rows
                  ELSE /\ output.bytes > 0
                       /\ shown[first].text + Bytes(blocks[first], Available[first][n.shown + 1]) > shown[first].room
               /\ (Len(notices) > 1 \/ dropped > 0) <=> Cardinality(cutBlocks) > 1
          /\ notices = <<>> => dropped = Cardinality(cutBlocks)

\* Nothing is left out but at a budget, and what is there is what a reader that keeps
\* everything would have shown, byte for byte: a block ends at MaxRows, or where its next
\* line, as it is at the source, would not fit; blocks are dropped when no room is left
\* (docs/adr/0004: the rendered answer does not change by a byte).
CutOnlyAtABudget ==
    Answered =>
      /\ Len(Available) = Len(blocks)
      /\ \A j \in DOMAIN shown :
           /\ \A n \in 1..shown[j].lines :
                Bytes(blocks[j], Available[j][n]) = Bytes(blocks[j], blocks[j].lines[n])
           /\ shown[j].lines < Len(Available[j]) =>
                \/ blocks[j].kind = "table" /\ output.rows > 0 /\ shown[j].lines = output.rows
                \/ output.bytes > 0
                   /\ shown[j].text + Bytes(blocks[j], Available[j][shown[j].lines + 1]) > shown[j].room
      /\ dropped > 0 => output.bytes > 0 /\ rem <= 0
=============================================================================
