------------------------------- MODULE Render -------------------------------
(* block.Markdown of internal/mcpsrv/block/markdown.go: blocks become one text  *)
(* inside a byte budget, and what was left out is said in a notice on top.      *)
(*                                                                              *)
(* A step is one turn of a loop: a block begins, one of its lines is kept, the  *)
(* block ends. Text is its length in bytes; the words of the notices are too.   *)
EXTENDS Integers, Sequences, FiniteSets

CONSTANTS
    MaxInt,     \* math.MaxInt
    Powers      \* the powers of ten from 10 to MaxInt

ASSUME RenderAssumption == MaxInt \in Nat /\ Powers \subseteq Nat /\ IsFiniteSet(Powers)

VARIABLES
    phase,      \* "idle", "blocks": between two blocks, "lines": inside one, "done"
    blocks, bud,
    rem,        \* the bytes left for blocks
    text,       \* the bytes of the current block so far
    kept,       \* how many of its lines are in
    width,      \* the bytes of the finished blocks and the separators between them
    shown,      \* of each finished block: its lines, its bytes, and the room it had
    notices,
    cellsCut,
    dropped     \* how many blocks were not begun

vars == <<phase, blocks, bud, rem, text, kept, width, shown, notices, cellsCut, dropped>>

------------------------------------------------------------------------------
(* Blocks and budgets *)

Budgets == [rows : Nat, bytes : Nat, cells : Nat]

\* A line is a value of some characters between fixed bytes; each character is
\* written as so many bytes, escaped where it has to be.
Lines == [fixed : Nat \ {0}, runes : Nat, written : Nat]

\* frame: the bytes of a table head or of both fences. total: what the source says it
\* counted, zero if it did not. A table has a column: no source makes one without.
Blocks == [kind : {"table", "code", "pairs", "text"}, frame : Nat,
           lines : {ls \in Seq(Lines) : Len(ls) <= MaxInt}, total : 0..MaxInt, more : BOOLEAN]

\* What a handler returns: blocks that fit in a slice.
Responses == {bs \in Seq(Blocks) : Len(bs) <= MaxInt}

\* What the first so many of some numbers add up to.
Sums(w) == LET sum[n \in 0..Len(w)] == IF n = 0 THEN 0 ELSE sum[n - 1] + w[n] IN sum

\* Memory enough for a line, cut or not, and for a block and what parts it from the next.
LineSize(l)    == l.fixed + l.runes * l.written + 3
LineSizes(b)   == [n \in DOMAIN b.lines |-> LineSize(b.lines[n])]
BlockSize(b)   == b.frame + Sums(LineSizes(b))[Len(b.lines)] + 1
BlockSizes(bs) == [n \in DOMAIN bs |-> BlockSize(bs[n])]

\* A response and the text of all of it are in memory, so an int counts their bytes: that
\* is why math.MaxInt is no budget.
InMemory(bs) == Sums(BlockSizes(bs))[Len(bs)] <= MaxInt

Unknown == -1

LargerOf(a, b) == IF a >= b THEN a ELSE b

\* capCell: longer than the cap, counted in characters.
Cut(b, l) == b.kind = "table" /\ bud.cells > 0 /\ l.runes > bud.cells

\* The bytes of a line: a cut cell ends with an ellipsis of three.
Bytes(b, l) ==
    IF Cut(b, l) THEN l.fixed + bud.cells * l.written + 3 ELSE l.fixed + l.runes * l.written

\* The lines MaxRows leaves of a block.
Rows(b) ==
    IF b.kind = "table" /\ bud.rows > 0 /\ Len(b.lines) > bud.rows THEN bud.rows ELSE Len(b.lines)

\* What the notice of a block calls all of it.
Total(b) ==
    IF b.kind = "table" /\ b.total = 0 /\ b.more THEN Unknown ELSE LargerOf(b.total, Len(b.lines))

------------------------------------------------------------------------------
(* Notices *)

Digits(n) == 1 + Cardinality({p \in Powers : p <= n})

\* The words of a notice, without its numbers.
Words(kind, known, cap) ==
    IF kind = "table"
    THEN (IF known THEN 131 ELSE 156) + (IF cap = "maxBytes" THEN 19 ELSE 0)
    ELSE IF kind = "pairs" THEN 64 ELSE 128

\* rowsNotice, linesNotice and entriesNotice.
NoticeBytes(n) ==
    Words(n.kind, n.total # Unknown, n.cap) + Digits(n.shown) + (IF n.total = Unknown THEN 0 ELSE Digits(n.total))

MoreTruncated    == 71
DroppedBytes(n)  == 89 + Digits(n)
CellClause       == 118 + Digits(bud.cells)

\* Mistake: the reserve forgets the sentence about later blocks.
ReserveOneNotice(b) ==
    LargerOf(Words("table", TRUE, "maxBytes") + 2 * Digits(MaxInt), Words("table", FALSE, "maxBytes") + Digits(MaxInt))
      + (IF b.cells > 0 THEN 118 + Digits(b.cells) ELSE 0) + 2

\* noticeReserve: the widest notice of a budget, and the blank line under it.
Reserve(b) ==
    LargerOf(LargerOf(Words("table", TRUE, "maxBytes") + 2 * Digits(MaxInt) + MoreTruncated,
                      Words("table", FALSE, "maxBytes") + Digits(MaxInt) + MoreTruncated),
             DroppedBytes(MaxInt))
      + (IF b.cells > 0 THEN 118 + Digits(b.cells) ELSE 0) + 2

\* The notice of a block of which n lines were kept: lines did not fit, or rows were
\* taken off it, or its source had stopped reading it.
NoticeOf(b, n) ==
    IF n < Rows(b) \/ Rows(b) < Len(b.lines) \/ b.more \/ (b.kind = "code" /\ Total(b) > Len(b.lines))
    THEN <<[kind |-> b.kind, shown |-> n, total |-> Total(b),
            cap |-> IF n < Rows(b) \/ b.kind # "table" THEN "maxBytes" ELSE "maxRows"]>>
    ELSE <<>>

\* noticeHead: one notice speaks for the whole response.
Truncation ==
    IF notices # <<>>
    THEN NoticeBytes(notices[1]) + (IF Len(notices) > 1 \/ dropped > 0 THEN MoreTruncated ELSE 0)
    ELSE IF dropped > 0 THEN DroppedBytes(dropped) ELSE 0

HeadBytes ==
    IF cellsCut THEN (IF Truncation = 0 THEN CellClause - 1 ELSE Truncation + CellClause) ELSE Truncation

\* The whole response: the notice, a blank line, the blocks.
Response == IF HeadBytes = 0 THEN width ELSE HeadBytes + 2 + width

------------------------------------------------------------------------------
(* Markdown *)

Init ==
    /\ phase = "idle"
    /\ blocks = <<>> /\ bud = [rows |-> 0, bytes |-> 0, cells |-> 0]
    /\ rem = 0 /\ text = 0 /\ kept = 0 /\ width = 0
    /\ shown = <<>> /\ notices = <<>> /\ cellsCut = FALSE /\ dropped = 0

\* Markdown is called: the notice has to fit inside the budget it reports on.
Markdown(bs, b) ==
    /\ phase = "idle" /\ InMemory(bs)
    /\ phase' = "blocks"
    /\ blocks' = bs /\ bud' = b
    /\ rem' = IF b.bytes = 0 THEN MaxInt ELSE b.bytes - Reserve(b)
    /\ UNCHANGED <<text, kept, width, shown, notices, cellsCut, dropped>>

Current == blocks[Len(shown) + 1]
Left    == Len(blocks) - Len(shown)

\* The frame of a block goes out whether or not it fits.
BeginBlock ==
    /\ phase = "blocks" /\ Left > 0 /\ rem > 0
    /\ phase' = "lines"
    /\ rem' = IF width > 0 THEN rem - 1 ELSE rem
    /\ text' = Current.frame
    /\ kept' = 0
    /\ UNCHANGED <<blocks, bud, width, shown, notices, cellsCut, dropped>>

\* fit: the next line is within the room of the block.
Fits == kept < Rows(Current) /\ text + Bytes(Current, Current.lines[kept + 1]) <= rem

KeepLine ==
    /\ phase = "lines" /\ Fits
    /\ text' = text + Bytes(Current, Current.lines[kept + 1])
    /\ kept' = kept + 1
    /\ UNCHANGED <<phase, blocks, bud, rem, width, shown, notices, cellsCut, dropped>>

\* The block ends; every row MaxRows left of it was rendered, kept or not.
EndBlock ==
    /\ phase = "lines" /\ ~Fits
    /\ phase' = "blocks"
    /\ rem' = rem - text
    /\ width' = IF text = 0 THEN width ELSE width + text + (IF width > 0 THEN 1 ELSE 0)
    /\ shown' = Append(shown, [lines |-> kept, text |-> text, room |-> rem])
    /\ notices' = notices \o NoticeOf(Current, kept)
    /\ cellsCut' = (cellsCut \/ \E n \in 1..Rows(Current) : Cut(Current, Current.lines[n]))
    /\ UNCHANGED <<blocks, bud, text, kept, dropped>>

\* Mistake: the blocks left are counted from the wrong end.
DropRestBackwards ==
    /\ phase = "blocks" /\ Left > 0 /\ rem <= 0
    /\ phase' = "done"
    /\ dropped' = -Left
    /\ UNCHANGED <<blocks, bud, rem, text, kept, width, shown, notices, cellsCut>>

\* No room is left: the rest of the blocks is not begun.
DropRest ==
    /\ phase = "blocks" /\ Left > 0 /\ rem <= 0
    /\ phase' = "done"
    /\ dropped' = Left
    /\ UNCHANGED <<blocks, bud, rem, text, kept, width, shown, notices, cellsCut>>

Finish ==
    /\ phase = "blocks" /\ Left = 0
    /\ phase' = "done"
    /\ UNCHANGED <<blocks, bud, rem, text, kept, width, shown, notices, cellsCut, dropped>>

Rendering == BeginBlock \/ KeepLine \/ EndBlock \/ DropRest \/ Finish

Next == (\E bs \in Responses, b \in Budgets : Markdown(bs, b)) \/ Rendering

Spec == Init /\ [][Next]_vars

------------------------------------------------------------------------------
(* Safety *)

Notices == [kind : {"table", "code", "pairs", "text"}, shown : 0..MaxInt, total : Unknown..MaxInt,
            cap : {"maxRows", "maxBytes"}]

TypeOK ==
    /\ phase \in {"idle", "blocks", "lines", "done"}
    /\ blocks \in Responses /\ bud \in Budgets
    /\ rem \in Int
    /\ text \in Nat /\ kept \in 0..MaxInt /\ width \in Nat
    /\ shown \in Seq([lines : 0..MaxInt, text : Nat, room : Int])
    /\ notices \in Seq(Notices)
    /\ cellsCut \in BOOLEAN
    /\ dropped \in 0..MaxInt

\* The frame of the last block, if there was no room under it for a line.
BareFrame ==
    IF shown = <<>> \/ (shown # <<>> /\ shown[Len(shown)].lines > 0) THEN 0 ELSE blocks[Len(shown)].frame

\* The response, with every notice it can end in, is within maxBytes but for a table
\* head or a code fence that did not fit (markdown.go:15); a budget the notices alone
\* would fill leaves them alone.
WithinBudget ==
    phase = "done" /\ bud.bytes > 0 =>
      IF bud.bytes > Reserve(bud) THEN Response <= bud.bytes + BareFrame ELSE Response <= Reserve(bud)
=============================================================================
