------------------------------ MODULE MCAnswer ------------------------------
(* Answer on small inputs: up to four rows against a budget of two, values on   *)
(* both sides of two characters and of the twelve bytes textRow keeps for them. *)
EXTENDS Answer

PowersOfTen == {10, 100, 1000, 10000, 100000, 1000000, 10000000, 100000000}

Value(d, n, w, e) == [name |-> d, runes |-> n, width |-> w, written |-> e]

Null    == Value("", 0, 1, 1)
Short1  == Value("", 1, 1, 1)
Whole   == Value("", 2, 4, 4)       \* as many characters as the cap, of four bytes
Over    == Value("", 3, 4, 4)       \* one more: twelve bytes
Longer  == Value("", 4, 3, 3)       \* twelve bytes of four characters
Emojis  == Value("", 5, 4, 4)
Mixed   == Value("", 9, 3, 3)       \* twenty-seven bytes, of which twelve are read
Bars    == Value("", 3, 1, 2)       \* each escaped
Wide    == Value("", 60, 1, 1)

Samples == {Null, Short1, Whole, Over, Longer, Emojis, Mixed, Bars, Wide}

Copies(n, v) == [i \in 1..n |-> v]

\* Rows of one value, and rows of which one differs.
RowSets ==
    {Copies(n, v) : n \in 0..4, v \in Samples}
      \cup {[Copies(4, Short1) EXCEPT ![n] = v] : n \in 1..4, v \in {Over, Wide}}

SmallSets == {<<>>} \cup {Copies(n, v) : n \in {1, 2, 3, 4}, v \in {Short1, Wide}} \cup {<<Over>>}

Result_(columns, rows) == [columns |-> columns, rows |-> rows]
Source(tool, results, ended) == [tool |-> tool, results |-> results, ended |-> ended]

Databases == <<Value("a", 1, 1, 1), Value("b", 1, 1, 1), Value("c", 1, 1, 1), Value("dd", 2, 1, 1)>>

Scripts ==
    {<<Result_(FALSE, <<>>)>>}
      \cup {<<Result_(TRUE, r), Result_(FALSE, <<>>)>> : r \in SmallSets}
      \cup {<<Result_(TRUE, r), Result_(TRUE, s)>> : r \in SmallSets, s \in SmallSets}

AllSources ==
    {Source("query", <<Result_(TRUE, r)>>, FALSE) : r \in RowSets}
      \cup {Source("query", <<Result_(FALSE, <<>>)>>, FALSE)}
      \cup {Source(t, <<Result_(TRUE, r)>>, FALSE) : t \in {"tables", "explain", "status"}, r \in SmallSets}
      \cup {Source("databases", <<Result_(TRUE, SubSeq(Databases, 1, n))>>, FALSE) : n \in 0..4}
      \cup {Source("script", s, e) : s \in Scripts, e \in BOOLEAN}

\* The notices and their reserve take 257 bytes of a budget, 376 with the clause on cells.
AllOutputs ==
    [rows : {0, 2}, bytes : {0}, cells : {0, 2}]
      \cup [rows : {0, 2}, bytes : {100, 270, 275, 320, 400}, cells : {0}]
      \cup [rows : {0, 2}, bytes : {390, 400, 500}, cells : {2}]

AllLists == [include : {{}, {{"dd"}}, {{"a", "b", "c"}, {"dd"}}}, exclude : {{}, {{"a"}}, {{"dd", "b"}}}]
=============================================================================
