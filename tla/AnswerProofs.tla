---------------------------- MODULE AnswerProofs ----------------------------
(***************************************************************************)
(* Proofs about Render and Answer. The reserve is wide enough for every     *)
(* notice, and the blocks stay inside what it leaves, for every response    *)
(* and budget; every reader hands over blocks Markdown takes, and each      *)
(* block is faithful to all the source has, so that an answer is whole or   *)
(* says truly what it lacks.                                                *)
(***************************************************************************)
EXTENDS Answer, FiniteSetTheorems, WellFoundedInduction, TLAPS

\* What the reserve leaves for blocks.
Room == bud.bytes - Reserve(bud)

\* How far the rendering is.
Progress ==
    /\ phase = "idle" => width = 0 /\ shown = <<>> /\ ~cellsCut
    /\ Len(shown) <= Len(blocks)
    /\ phase = "lines" => Len(shown) < Len(blocks) /\ kept <= Rows(Current)
    /\ cellsCut => bud.cells > 0

\* What is spent and what is left make up the room; only the frame of a block that got no
\* line is overspent, and without room no block is begun.
Accounts ==
    phase # "idle" /\ bud.bytes > 0 =>
      /\ Room <= 0 => shown = <<>> /\ width = 0 /\ phase # "lines"
      /\ width + rem + (IF phase = "lines" /\ width > 0 THEN 1 ELSE 0) <= Room
      /\ phase = "lines" => rem >= 0 /\ (text <= rem \/ (kept = 0 /\ text = Current.frame))
      /\ phase \in {"blocks", "done"} /\ Room > 0 => rem >= -BareFrame

\* The memory of the first so many blocks.
Size(n) == Sums(BlockSizes(blocks))[n]

\* Without a budget of bytes, what is written stays below what the response takes in memory.
Memory ==
    /\ InMemory(blocks)
    /\ bud.bytes = 0 /\ phase = "blocks" => rem >= MaxInt - Size(Len(shown)) + (IF width > 0 THEN 1 ELSE 0)
    /\ bud.bytes = 0 /\ phase = "lines" => rem >= MaxInt - Size(Len(shown))
    /\ phase = "lines" => text <= Current.frame + Sums(LineSizes(Current))[kept]

\* A block that ended kept its lines up to the last, or to one that did not fit.
Ended ==
    \A j \in DOMAIN shown :
      /\ shown[j].lines \in 0..Rows(blocks[j])
      /\ shown[j].lines < Rows(blocks[j]) =>
           /\ bud.bytes > 0
           /\ shown[j].text + Bytes(blocks[j], blocks[j].lines[shown[j].lines + 1]) > shown[j].room
      /\ bud.bytes > 0 => shown[j].room <= bud.bytes

\* The blocks that ended with a notice.
Noted == {j \in DOMAIN shown : NoticeOf(blocks[j], shown[j].lines) # <<>>}

CellsCut(b) == \E n \in 1..Rows(b) : Cut(b, b.lines[n])

\* The notices are those of the blocks that ended, in order, and the rest was dropped.
Reported ==
    /\ IsFiniteSet(Noted) /\ Len(notices) = Cardinality(Noted)
    /\ notices # <<>> => \E f \in Noted : /\ \A i \in Noted : f <= i
                                          /\ NoticeOf(blocks[f], shown[f].lines) = <<notices[1]>>
    /\ cellsCut <=> \E j \in DOMAIN shown : CellsCut(blocks[j])
    /\ phase # "done" => dropped = 0
    /\ phase = "done" => dropped = Left /\ (dropped > 0 => bud.bytes > 0 /\ rem <= 0)

RenderInv == TypeOK /\ Progress /\ Accounts

------------------------------------------------------------------------------
(* Sums, and members in order *)

\* What holds of zero, and of each number up to k if of the one before it, holds up to k.
LEMMA UpTo ==
    ASSUME NEW k \in Nat, NEW T, 0 \in T, \A n \in 1..k : n - 1 \in T => n \in T
    PROVE  \A n \in 0..k : n \in T
<1> DEFINE Rest == (0..k) \ T
<1>1. Rest \subseteq Nat
  OBVIOUS
<1>2. ASSUME Rest # {} PROVE FALSE
  <2>1. \E n \in Rest : \A m \in Rest : ~(<<m, n>> \in OpToRel(<, Nat))
    <3> HIDE DEF Rest
    <3> QED BY <1>1, <1>2, NatLessThanWellFounded, WFMin
  <2>2. PICK n \in Rest : \A m \in Rest : ~(<<m, n>> \in OpToRel(<, Nat))
    BY <2>1
  <2>3. n \in 0..k /\ n \notin T
    BY <2>2
  <2>6. n # 0
    BY <2>3
  <2>7. n \in 1..k /\ n - 1 \in Nat /\ n - 1 \in 0..k
    BY <2>3, <2>6
  <2>4. <<n - 1, n>> \in OpToRel(<, Nat)
    BY <2>7 DEF OpToRel
  <2>5. n - 1 \notin Rest
    BY <2>2, <2>4
  <2> QED BY <2>3, <2>5, <2>7
<1> QED BY <1>2

\* Sums adds up, one number at a time.
LEMMA SumsLaw ==
    ASSUME NEW w \in Seq(Nat)
    PROVE  /\ Sums(w) \in [0..Len(w) -> Nat]
           /\ Sums(w)[0] = 0
           /\ \A n \in 1..Len(w) : Sums(w)[n] = Sums(w)[n - 1] + w[n]
<1> DEFINE k == Len(w)
           Adds(g, n) == /\ g \in [0..n -> Nat] /\ g[0] = 0
                         /\ \A i \in 1..n : g[i] = g[i - 1] + w[i]
           Able == {n \in 0..k : \E g : Adds(g, n)}
<1>0. k \in Nat /\ \A n \in 1..k : n \in Nat /\ n \in 0..k /\ n - 1 \in 0..k /\ w[n] \in Nat
  OBVIOUS
<1>1. 0 \in Able
  <2> DEFINE g == [i \in 0..0 |-> 0]
  <2>1. g \in [0..0 -> Nat] /\ g[0] = 0
    OBVIOUS
  <2> HIDE DEF g, k
  <2>2. Adds(g, 0)
    BY <2>1
  <2> HIDE DEF Adds
  <2> QED BY <1>0, <2>2
<1> HIDE DEF k
<1>2. \A n \in 1..k : n - 1 \in Able => n \in Able
  <2> SUFFICES ASSUME NEW n \in 1..k, n - 1 \in Able PROVE n \in Able
    OBVIOUS
  <2>1. PICK g : Adds(g, n - 1)
    OBVIOUS
  <2> DEFINE h == [i \in 0..n |-> IF i = n THEN g[n - 1] + w[n] ELSE g[i]]
  <2>2. w[n] \in Nat /\ n \in Nat /\ n > 0 /\ n - 1 \in 0..(n - 1)
    BY <1>0
  <2>3. h \in [0..n -> Nat] /\ h[0] = 0
    BY <2>1, <2>2
  <2>4. \A i \in 1..n : h[i] = h[i - 1] + w[i]
    <3> SUFFICES ASSUME NEW i \in 1..n PROVE h[i] = h[i - 1] + w[i]
      OBVIOUS
    <3>1. h[i - 1] = g[i - 1]
      BY <2>2
    <3>2. CASE i = n
      BY <2>2, <3>1, <3>2
    <3>3. CASE i # n
      <4>1. i \in 1..(n - 1) /\ h[i] = g[i]
        BY <2>2, <3>3
      <4> HIDE DEF h
      <4> QED BY <2>1, <3>1, <4>1
    <3> QED BY <3>2, <3>3
  <2> HIDE DEF h
  <2>5. Adds(h, n)
    BY <2>3, <2>4
  <2> HIDE DEF Adds
  <2> QED BY <1>0, <2>5
<1>3. k \in Able
  <2> HIDE DEF Able
  <2>1. \A n \in 0..k : n \in Able
    BY <1>0, <1>1, <1>2, UpTo
  <2> QED BY <1>0, <2>1
<1>4. PICK g : Adds(g, k)
  BY <1>3
<1>5. g = [n \in 0..k |-> IF n = 0 THEN 0 ELSE g[n - 1] + w[n]]
  BY <1>0, <1>4
<1>6. Sums(w) = [n \in 0..k |-> IF n = 0 THEN 0 ELSE Sums(w)[n - 1] + w[n]]
  BY <1>5 DEF Sums, k
<1>7. Sums(w)[0] = 0 /\ \A n \in 1..k : Sums(w)[n] = Sums(w)[n - 1] + w[n]
  BY <1>0, <1>6
<1> DEFINE Typed == {n \in 0..k : Sums(w)[n] \in Nat}
<1>8. \A n \in 0..k : n \in Typed
  <2>1. 0 \in Typed
    BY <1>0, <1>7
  <2>2. \A n \in 1..k : n - 1 \in Typed => n \in Typed
    BY <1>0, <1>7
  <2> HIDE DEF Typed
  <2> QED BY <1>0, <2>1, <2>2, UpTo
<1> QED BY <1>6, <1>7, <1>8 DEF k

\* A sum never falls, and of numbers above zero it is at least their count.
LEMMA SumsGrow ==
    ASSUME NEW w \in Seq(Nat), NEW m \in 0..Len(w), NEW n \in m..Len(w)
    PROVE  /\ Sums(w)[m] <= Sums(w)[n]
           /\ (\A i \in 1..Len(w) : w[i] > 0) => n <= Sums(w)[n]
<1> DEFINE k == Len(w)
           sum == Sums(w)
<1>1. k \in Nat /\ m \in 0..k /\ n \in 0..k /\ m <= n
  OBVIOUS
<1>2. sum \in [0..k -> Nat] /\ sum[0] = 0 /\ \A i \in 1..k : sum[i] = sum[i - 1] + w[i]
  BY SumsLaw
<1>3. \A i \in 1..k : w[i] \in Nat
  OBVIOUS
<1> HIDE DEF k, sum
<1>4. \A i \in 1..k : i \in 0..k /\ i - 1 \in 0..k /\ sum[i] \in Nat /\ sum[i - 1] \in Nat
  BY <1>1, <1>2
<1>5. sum[m] <= sum[n]
  <2> DEFINE Above == {i \in 0..k : i >= m => sum[m] <= sum[i]}
  <2>1. 0 \in Above
    BY <1>1, <1>2
  <2>2. \A i \in 1..k : i - 1 \in Above => i \in Above
    <3> SUFFICES ASSUME NEW i \in 1..k, i - 1 \in Above PROVE i \in Above
      OBVIOUS
    <3>1. /\ i \in 0..k /\ sum[i] \in Nat /\ sum[i - 1] \in Nat /\ w[i] \in Nat
          /\ sum[m] \in Nat /\ sum[i] = sum[i - 1] + w[i]
      BY <1>1, <1>2, <1>3, <1>4
    <3>2. i = m \/ i - 1 >= m \/ i < m
      BY <1>1, <3>1
    <3> QED BY <1>1, <3>1, <3>2
  <2>3. \A i \in 0..k : i \in Above
    <3> HIDE DEF Above
    <3> QED BY <1>1, <2>1, <2>2, UpTo
  <2> QED BY <1>1, <2>3
<1>6. (\A i \in 1..k : w[i] > 0) => n <= sum[n]
  <2> DEFINE Many == {i \in 0..k : i <= sum[i]}
  <2> SUFFICES ASSUME \A i \in 1..k : w[i] > 0 PROVE n <= sum[n]
    OBVIOUS
  <2>1. 0 \in Many
    BY <1>1, <1>2
  <2>2. \A i \in 1..k : i - 1 \in Many => i \in Many
    <3> SUFFICES ASSUME NEW i \in 1..k, i - 1 \in Many PROVE i \in Many
      OBVIOUS
    <3>1. /\ i \in 0..k /\ sum[i] \in Nat /\ sum[i - 1] \in Nat /\ w[i] \in Nat
          /\ w[i] > 0 /\ sum[i] = sum[i - 1] + w[i]
      BY <1>1, <1>2, <1>3, <1>4
    <3> QED BY <3>1
  <2>3. \A i \in 0..k : i \in Many
    <3> HIDE DEF Many
    <3> QED BY <1>1, <2>1, <2>2, UpTo
  <2> QED BY <1>1, <2>3
<1> QED BY <1>5, <1>6 DEF k, sum

\* Passing keeps what is in the set, one member at a time.
LEMMA PassingLaw ==
    ASSUME NEW U, NEW s \in Seq(U), NEW S
    PROVE  /\ Passing(s, S) \in [0..Len(s) -> Seq(U)]
           /\ Passing(s, S)[0] = <<>>
           /\ \A n \in 1..Len(s) :
                Passing(s, S)[n] = IF s[n] \in S THEN Append(Passing(s, S)[n - 1], s[n]) ELSE Passing(s, S)[n - 1]
<1> DEFINE k == Len(s)
           After(p, n) == IF s[n] \in S THEN Append(p, s[n]) ELSE p
           Passes(g, n) == /\ g \in [0..n -> Seq(U)] /\ g[0] = <<>>
                           /\ \A i \in 1..n : g[i] = After(g[i - 1], i)
           Able == {n \in 0..k : \E g : Passes(g, n)}
<1>0. /\ k \in Nat /\ 0 \in 0..k /\ <<>> \in Seq(U)
      /\ \A n \in 1..k : n \in Nat /\ n > 0 /\ n \in 0..k /\ n - 1 \in 0..k /\ s[n] \in U
  OBVIOUS
<1> HIDE DEF k
<1>9. \A n \in 1..k : \A p \in Seq(U) : After(p, n) \in Seq(U)
  BY <1>0
<1> HIDE DEF After
<1>1. 0 \in Able
  <2> DEFINE g == [i \in 0..0 |-> <<>>]
  <2>1. g \in [0..0 -> Seq(U)] /\ g[0] = <<>>
    BY <1>0
  <2> HIDE DEF g
  <2>2. Passes(g, 0)
    BY <2>1
  <2> HIDE DEF Passes
  <2> QED BY <1>0, <2>2
<1>2. \A n \in 1..k : n - 1 \in Able => n \in Able
  <2> SUFFICES ASSUME NEW n \in 1..k, n - 1 \in Able PROVE n \in Able
    OBVIOUS
  <2>1. PICK g : Passes(g, n - 1)
    OBVIOUS
  <2>2. n \in Nat /\ n > 0 /\ n - 1 \in 0..(n - 1)
    BY <1>0
  <2>3. g[n - 1] \in Seq(U)
    BY <2>1, <2>2
  <2> DEFINE x == After(g[n - 1], n)
             h == [i \in 0..n |-> IF i = n THEN x ELSE g[i]]
  <2>4. x \in Seq(U)
    BY <1>9, <2>3
  <2> HIDE DEF x
  <2>5. h \in [0..n -> Seq(U)] /\ h[0] = <<>>
    <3>1. \A i \in 0..n : h[i] \in Seq(U)
      BY <2>1, <2>2, <2>4
    <3>2. h[0] = <<>>
      BY <2>1, <2>2
    <3> QED BY <3>1, <3>2
  <2>6. \A i \in 1..n : h[i] = After(h[i - 1], i)
    <3> SUFFICES ASSUME NEW i \in 1..n PROVE h[i] = After(h[i - 1], i)
      OBVIOUS
    <3>1. h[i - 1] = g[i - 1]
      BY <2>2
    <3>2. CASE i = n
      BY <2>2, <3>1, <3>2 DEF x
    <3>3. CASE i # n
      <4>1. i \in 1..(n - 1) /\ h[i] = g[i]
        BY <2>2, <3>3
      <4> HIDE DEF h
      <4> QED BY <2>1, <3>1, <4>1
    <3> QED BY <3>2, <3>3
  <2> HIDE DEF h
  <2>7. Passes(h, n)
    BY <2>5, <2>6
  <2> HIDE DEF Passes
  <2> QED BY <1>0, <2>7
<1>3. k \in Able
  <2> HIDE DEF Able
  <2>1. \A n \in 0..k : n \in Able
    BY <1>0, <1>1, <1>2, UpTo
  <2> QED BY <1>0, <2>1
<1>4. PICK g : Passes(g, k)
  BY <1>3
<1>5. g = [n \in 0..k |-> IF n = 0 THEN <<>> ELSE IF s[n] \in S THEN Append(g[n - 1], s[n]) ELSE g[n - 1]]
  <2>1. \A n \in 0..k : g[n] = IF n = 0 THEN <<>> ELSE IF s[n] \in S THEN Append(g[n - 1], s[n]) ELSE g[n - 1]
    <3>1. \A n \in 1..k : g[n] = IF s[n] \in S THEN Append(g[n - 1], s[n]) ELSE g[n - 1]
      BY <1>4 DEF After
    <3>2. g[0] = <<>>
      BY <1>4
    <3>3. \A n \in 0..k : n = 0 \/ n \in 1..k
      BY <1>0
    <3> HIDE DEF Passes
    <3> QED BY <3>1, <3>2, <3>3
  <2>2. g \in [0..k -> Seq(U)]
    BY <1>4
  <2> QED BY <2>1, <2>2
<1>6. Passing(s, S) = [n \in 0..k |-> IF n = 0 THEN <<>>
                          ELSE IF s[n] \in S THEN Append(Passing(s, S)[n - 1], s[n]) ELSE Passing(s, S)[n - 1]]
  BY <1>5 DEF Passing, k
<1> DEFINE left == Passing(s, S)
<1>7. left[0] = <<>> /\ \A n \in 1..k : left[n] = After(left[n - 1], n)
  <2> HIDE DEF left
  <2>1. left = [n \in 0..k |-> IF n = 0 THEN <<>>
                    ELSE IF s[n] \in S THEN Append(left[n - 1], s[n]) ELSE left[n - 1]]
    BY <1>6 DEF left
  <2>2. left[0] = <<>>
    BY <1>0, <2>1
  <2>3. \A n \in 1..k : left[n] = IF s[n] \in S THEN Append(left[n - 1], s[n]) ELSE left[n - 1]
    <3> SUFFICES ASSUME NEW n \in 1..k
                 PROVE  left[n] = IF s[n] \in S THEN Append(left[n - 1], s[n]) ELSE left[n - 1]
      OBVIOUS
    <3>1. n \in 0..k /\ n # 0
      BY <1>0
    <3> QED BY <2>1, <3>1
  <2> QED BY <2>2, <2>3 DEF After
<1>8. DOMAIN left = 0..k /\ left = [n \in DOMAIN left |-> left[n]]
  BY <1>6
<1> HIDE DEF left
<1> DEFINE Typed == {n \in 0..k : left[n] \in Seq(U)}
<1>10. \A n \in 0..k : n \in Typed
  <2>1. 0 \in Typed
    BY <1>0, <1>7
  <2>2. \A n \in 1..k : n - 1 \in Typed => n \in Typed
    BY <1>0, <1>7, <1>9
  <2> HIDE DEF Typed
  <2> QED BY <1>0, <2>1, <2>2, UpTo
<1>11. left \in [0..k -> Seq(U)]
  BY <1>8, <1>10
<1> QED BY <1>7, <1>11 DEF After, k, left

------------------------------------------------------------------------------
(* Numbers *)

\* A larger number has no fewer digits.
LEMMA DigitsMonotone ==
    ASSUME NEW n \in Nat, NEW m \in Nat, n <= m
    PROVE  Digits(n) \in Nat /\ Digits(m) \in Nat /\ 1 <= Digits(n) /\ Digits(n) <= Digits(m)
<1> DEFINE S == {p \in Powers : p <= n}
           T == {p \in Powers : p <= m}
<1>1. S \subseteq T
  <2>1. \A p \in Powers : p \in Nat
    BY RenderAssumption
  <2>2. \A p \in Powers : p <= n => p <= m
    BY <2>1
  <2> QED BY <2>2
<1>2. IsFiniteSet(T)
  BY RenderAssumption, FS_Subset
<1>3. IsFiniteSet(S) /\ Cardinality(S) <= Cardinality(T)
  BY <1>1, <1>2, FS_Subset
<1>4. Cardinality(S) \in Nat /\ Cardinality(T) \in Nat
  BY <1>2, <1>3, FS_CardinalityType
<1> QED BY <1>3, <1>4 DEF Digits

\* The larger of two numbers is one of them and bounds both.
LEMMA LargerOfBounds ==
    ASSUME NEW a \in Int, NEW b \in Int
    PROVE  LargerOf(a, b) \in {a, b} /\ LargerOf(a, b) >= a /\ LargerOf(a, b) >= b
  BY DEF LargerOf

\* The widest truncation there is, as noticeReserve takes it.
Widest ==
    LargerOf(LargerOf(Words("table", TRUE, "maxBytes") + 2 * Digits(MaxInt) + MoreTruncated,
                      Words("table", FALSE, "maxBytes") + Digits(MaxInt) + MoreTruncated),
             DroppedBytes(MaxInt))

\* It is as wide as each kind of notice.
LEMMA WidestBounds ==
    /\ Widest \in Nat
    /\ Widest >= 221 + 2 * Digits(MaxInt)
    /\ Widest >= 246 + Digits(MaxInt)
    /\ Widest >= 89 + Digits(MaxInt)
<1>1. Digits(MaxInt) \in Nat
  BY RenderAssumption, DigitsMonotone
<1> QED BY <1>1 DEF Widest, LargerOf, Words, MoreTruncated, DroppedBytes

\* What is set aside for notices, as a function of the budget.
LEMMA ReserveOfBudget ==
    ASSUME NEW b \in Budgets
    PROVE  Reserve(b) \in Nat /\ Reserve(b) = Widest + (IF b.cells > 0 THEN 118 + Digits(b.cells) ELSE 0) + 2
<1>1. Reserve(b) = Widest + (IF b.cells > 0 THEN 118 + Digits(b.cells) ELSE 0) + 2
  BY DEF Reserve, Widest
<1>2. Digits(b.cells) \in Nat
  BY DigitsMonotone DEF Budgets
<1> QED BY <1>1, <1>2, WidestBounds

\* No notice is wider than what was set aside for it.
LEMMA NoticeNarrow ==
    ASSUME NEW n \in Notices
    PROVE  NoticeBytes(n) \in Nat /\ NoticeBytes(n) > 0 /\ NoticeBytes(n) + MoreTruncated <= Widest
<1>1. /\ Digits(n.shown) \in Nat /\ Digits(n.shown) <= Digits(MaxInt) /\ Digits(MaxInt) \in Nat
      /\ n.total # Unknown => Digits(n.total) \in Nat /\ Digits(n.total) <= Digits(MaxInt)
  BY RenderAssumption, DigitsMonotone DEF Notices, Unknown
<1> QED BY <1>1, WidestBounds DEF NoticeBytes, Words, MoreTruncated

\* Whatever notice a response ends in, it and its blank line fit in the reserve.
LEMMA HeadFits ==
    ASSUME TypeOK, Progress
    PROVE  HeadBytes \in Nat /\ (HeadBytes # 0 => HeadBytes + 2 <= Reserve(bud))
<1>1. Truncation \in Nat /\ Truncation <= Widest
  <2>1. notices # <<>> => notices[1] \in Notices
    BY DEF TypeOK
  <2>2. Digits(dropped) \in Nat /\ Digits(dropped) <= Digits(MaxInt) /\ Digits(MaxInt) \in Nat
    BY RenderAssumption, DigitsMonotone DEF TypeOK
  <2> QED BY <2>1, <2>2, NoticeNarrow, WidestBounds DEF Truncation, MoreTruncated, DroppedBytes
<1>2. bud \in Budgets /\ Digits(bud.cells) \in Nat
  BY DigitsMonotone DEF TypeOK, Budgets
<1>3. cellsCut => bud.cells > 0
  BY DEF Progress
<1> QED BY <1>1, <1>2, <1>3, ReserveOfBudget, WidestBounds DEF HeadBytes, CellClause

------------------------------------------------------------------------------
(* Blocks *)

\* The block in hand, and what is left of it.
LEMMA BlockInHand ==
    ASSUME TypeOK, Len(shown) < Len(blocks)
    PROVE  /\ Current \in Blocks
           /\ Rows(Current) \in 0..Len(Current.lines) /\ Len(Current.lines) \in 0..MaxInt
           /\ \A n \in 1..Rows(Current) : Current.lines[n] \in Lines
<1>1. blocks \in Seq(Blocks) /\ Len(shown) \in Nat
  BY DEF TypeOK, Responses
<1>2. Current \in Blocks
  BY <1>1 DEF Current
<1>3. Current.lines \in Seq(Lines) /\ Len(Current.lines) <= MaxInt
  BY <1>2 DEF Blocks
<1>4. bud.rows \in Nat
  BY DEF TypeOK, Budgets
<1>5. Rows(Current) \in 0..Len(Current.lines)
  BY <1>3, <1>4 DEF Rows
<1>6. Len(Current.lines) \in 0..MaxInt
  BY <1>3, RenderAssumption
<1>7. \A n \in 1..Rows(Current) : Current.lines[n] \in Lines
  BY <1>3, <1>5
<1> QED BY <1>2, <1>5, <1>6, <1>7

\* A line takes a number of bytes.
LEMMA BytesType ==
    ASSUME TypeOK, NEW b, NEW l \in Lines
    PROVE  Bytes(b, l) \in Nat
<1>1. l.fixed \in Nat /\ l.runes \in Nat /\ l.written \in Nat /\ bud.cells \in Nat
  BY DEF TypeOK, Lines, Budgets
<1>2. \A x, y \in Nat : x * y \in Nat
  OBVIOUS
<1>3. bud.cells * l.written \in Nat /\ l.runes * l.written \in Nat
  BY <1>1, <1>2
<1> QED BY <1>1, <1>3 DEF Bytes

\* At most one notice of a block, and its numbers are counts.
LEMMA NoticeOfType ==
    ASSUME TypeOK, Len(shown) < Len(blocks), NEW n \in 0..MaxInt
    PROVE  NoticeOf(Current, n) \in Seq(Notices)
<1>1. Current \in Blocks /\ Len(Current.lines) \in 0..MaxInt
  BY BlockInHand
<1>2. Total(Current) \in Unknown..MaxInt
  BY <1>1, RenderAssumption DEF Total, LargerOf, Blocks, Unknown
<1> DEFINE m == [kind |-> Current.kind, shown |-> n, total |-> Total(Current),
                 cap |-> IF n < Rows(Current) \/ Current.kind # "table" THEN "maxBytes" ELSE "maxRows"]
<1>3. m \in Notices
  BY <1>1, <1>2 DEF Notices, Blocks
<1>4. NoticeOf(Current, n) = <<m>> \/ NoticeOf(Current, n) = <<>>
  BY DEF NoticeOf
<1> HIDE DEF m
<1>5. <<m>> \in Seq(Notices) /\ <<>> \in Seq(Notices)
  BY <1>3
<1> QED BY <1>4, <1>5

------------------------------------------------------------------------------
(* Each action *)

\* The handler's blocks arrive: the accounts are opened.
LEMMA MarkdownKeeps ==
    ASSUME RenderInv, NEW bs \in Responses, NEW b \in Budgets, Markdown(bs, b)
    PROVE  RenderInv'
<1> USE DEF RenderInv, Markdown
<1>1. b.bytes \in Nat /\ Reserve(b) \in Nat
  BY ReserveOfBudget DEF Budgets
<1>2. TypeOK'
  BY <1>1, RenderAssumption DEF TypeOK
<1>3. Progress'
  <2>1. bs \in Seq(Blocks) /\ Len(bs) \in Nat
    BY DEF Responses
  <2> QED BY <2>1 DEF Progress
<1>4. Reserve(bud') = Reserve(b) /\ Room' = b.bytes - Reserve(b) /\ (b.bytes > 0 => rem' = b.bytes - Reserve(b))
  BY <1>1 DEF Room
<1>5. Accounts'
  BY <1>1, <1>4 DEF Accounts, Progress, BareFrame
<1> QED BY <1>2, <1>3, <1>5

\* The room is settled when Markdown is called.
LEMMA RoomStays ==
    ASSUME TypeOK, bud' = bud
    PROVE  Room' = Room /\ Room \in Int
<1>1. bud \in Budgets /\ bud.bytes \in Nat
  BY DEF TypeOK, Budgets
<1>2. Reserve(bud) \in Nat
  BY <1>1, ReserveOfBudget
<1>3. Reserve(bud') = Reserve(bud)
  OBVIOUS
<1> QED BY <1>1, <1>2, <1>3 DEF Room

\* The accounts hold when a block begins ...
LEMMA BeginBlockKeeps == ASSUME RenderInv, BeginBlock PROVE RenderInv'
<1> USE DEF RenderInv, BeginBlock
<1>1. Len(shown) < Len(blocks) /\ Len(shown) \in Nat /\ Len(blocks) \in Nat /\ rem \in Int /\ rem > 0 /\ width \in Nat
  BY DEF Progress, TypeOK, Responses, Left
<1>2. Current \in Blocks /\ Current' = Current /\ Rows(Current)' = Rows(Current) /\ Rows(Current) \in Nat
  BY <1>1, BlockInHand DEF Current, Rows
<1>3. text' = Current.frame /\ Current.frame \in Nat /\ kept' = 0
  BY <1>2 DEF Blocks
<1>4. TypeOK'
  BY <1>1, <1>3, RenderAssumption DEF TypeOK
<1>5. Progress'
  BY <1>1, <1>2, <1>3 DEF Progress
<1>6. Accounts'
  <2> SUFFICES ASSUME bud.bytes > 0 PROVE Accounts'
    BY DEF Accounts
  <2>1. Room' = Room /\ Room \in Int
    BY RoomStays
  <2>2. width + rem <= Room
    BY <1>1 DEF Accounts
  <2> QED BY <1>1, <1>2, <1>3, <2>1, <2>2 DEF Accounts
<1> QED BY <1>4, <1>5, <1>6

\* ... when one of its lines is kept ...
LEMMA KeepLineKeeps == ASSUME RenderInv, KeepLine PROVE RenderInv'
<1> USE DEF RenderInv, KeepLine
<1> DEFINE size == Bytes(Current, Current.lines[kept + 1])
<1>1. Len(shown) < Len(blocks)
  BY DEF Progress
<1>2. kept \in Nat /\ kept + 1 \in 1..Rows(Current) /\ Rows(Current) \in 0..MaxInt
  BY <1>1, BlockInHand, RenderAssumption DEF TypeOK, Fits
<1>3. size \in Nat
  BY <1>1, <1>2, BlockInHand, BytesType
<1>4. text' = text + size /\ text + size <= rem /\ kept' = kept + 1 /\ text \in Nat
  BY DEF Fits, TypeOK
<1> HIDE DEF size
<1>5. TypeOK'
  <2>1. text' \in Nat /\ kept' \in 0..MaxInt
    BY <1>2, <1>3, <1>4, RenderAssumption
  <2> QED BY <2>1 DEF TypeOK
<1>6. Progress'
  <2>1. Rows(Current)' = Rows(Current)
    BY DEF Rows, Current
  <2> QED BY <1>2, <1>4, <2>1 DEF Progress
<1>7. Accounts'
  <2>1. Room' = Room
    BY RoomStays
  <2> QED BY <1>4, <2>1 DEF Accounts
<1> QED BY <1>5, <1>6, <1>7

\* ... when it ends ...
LEMMA EndBlockKeeps == ASSUME RenderInv, EndBlock PROVE RenderInv'
<1> USE DEF RenderInv, EndBlock
<1> DEFINE done == [lines |-> kept, text |-> text, room |-> rem]
<1>1. Len(shown) < Len(blocks) /\ Len(shown) \in Nat /\ Len(blocks) \in Nat /\ blocks \in Seq(Blocks)
  BY DEF Progress, TypeOK, Responses
<1>2. text \in Nat /\ rem \in Int /\ width \in Nat /\ kept \in 0..MaxInt /\ bud \in Budgets
  BY DEF TypeOK
<1>3. done \in [lines : 0..MaxInt, text : Nat, room : Int] /\ done.lines = kept
  BY <1>2
<1>4. shown' = Append(shown, done)
  OBVIOUS
<1> HIDE DEF done
<1>5. /\ shown' \in Seq([lines : 0..MaxInt, text : Nat, room : Int])
      /\ Len(shown') = Len(shown) + 1 /\ shown'[Len(shown')] = done /\ shown' # <<>>
  <2>1. shown \in Seq([lines : 0..MaxInt, text : Nat, room : Int])
    BY DEF TypeOK
  <2> QED BY <1>3, <1>4, <2>1
<1>6. width' \in Nat /\ rem' \in Int /\ rem' = rem - text
  BY <1>2
<1>7. TypeOK'
  <2>1. notices' \in Seq(Notices)
    <3>1. notices \in Seq(Notices) /\ NoticeOf(Current, kept) \in Seq(Notices)
      BY <1>1, <1>2, NoticeOfType DEF TypeOK
    <3> QED BY <3>1
  <2>2. cellsCut' \in BOOLEAN
    BY DEF TypeOK
  <2> QED BY <1>5, <1>6, <2>1, <2>2 DEF TypeOK
<1>8. Progress'
  <2>1. cellsCut' => bud'.cells > 0
    BY DEF Progress, Cut
  <2>2. Len(shown') <= Len(blocks') /\ phase' = "blocks"
    BY <1>1, <1>5
  <2> QED BY <2>1, <2>2 DEF Progress
<1>9. Accounts'
  <2> SUFFICES ASSUME bud.bytes > 0 PROVE Accounts'
    BY DEF Accounts
  <2>1. Room' = Room /\ Room \in Int
    BY RoomStays
  <2>2. /\ ~(Room <= 0)
        /\ width + rem + (IF width > 0 THEN 1 ELSE 0) <= Room
        /\ rem >= 0 /\ (text <= rem \/ (kept = 0 /\ text = Current.frame))
    BY DEF Accounts
  <2>3. width' + rem' <= Room
    BY <1>2, <2>1, <2>2
  <2>4. rem' >= -BareFrame'
    <3>1. BareFrame' = IF kept > 0 THEN 0 ELSE blocks[Len(shown) + 1].frame
      BY <1>3, <1>5 DEF BareFrame
    <3>2. blocks[Len(shown) + 1].frame \in Nat /\ Current = blocks[Len(shown) + 1]
      <4>1. blocks[Len(shown) + 1] \in Blocks
        BY <1>1
      <4> QED BY <4>1 DEF Blocks, Current
    <3>3. CASE kept > 0
      BY <1>2, <1>6, <2>2, <3>1, <3>3
    <3>4. CASE kept = 0
      BY <1>2, <1>6, <2>2, <3>1, <3>2, <3>4
    <3> QED BY <1>2, <3>3, <3>4
  <2> QED BY <1>2, <2>1, <2>2, <2>3, <2>4 DEF Accounts
<1> QED BY <1>7, <1>8, <1>9

\* ... and when the response ends.
LEMMA EndKeeps == ASSUME RenderInv, DropRest \/ Finish PROVE RenderInv'
<1> USE DEF RenderInv, DropRest, Finish
<1>1. blocks \in Seq(Blocks) /\ Len(blocks) \in 0..MaxInt /\ Len(shown) \in Nat
  BY RenderAssumption DEF TypeOK, Responses
<1>2. dropped' \in 0..MaxInt
  BY <1>1, RenderAssumption DEF Left, TypeOK, Progress
<1>3. TypeOK'
  BY <1>2 DEF TypeOK
<1>4. Progress'
  BY DEF Progress
<1>5. Room' = Room /\ BareFrame' = BareFrame
  BY RoomStays DEF BareFrame
<1>6. Accounts'
  BY <1>5 DEF Accounts
<1> QED BY <1>3, <1>4, <1>6

------------------------------------------------------------------------------
(* Theorems *)

\* The accounts hold at the start and are kept by every step.
LEMMA InvInit == Init => RenderInv
<1> SUFFICES ASSUME Init PROVE RenderInv
  OBVIOUS
<1>1. TypeOK
  <2>1. <<>> \in Seq(Blocks) /\ <<>> \in Seq([lines : 0..MaxInt, text : Nat, room : Int]) /\ <<>> \in Seq(Notices)
    OBVIOUS
  <2>2. 0 \in 0..MaxInt /\ Len(<<>>) = 0
    BY RenderAssumption
  <2>3. blocks \in Responses
    BY <2>1, <2>2, RenderAssumption DEF Init, Responses
  <2>4. bud \in Budgets
    BY DEF Init, Budgets
  <2>5. shown \in Seq([lines : 0..MaxInt, text : Nat, room : Int]) /\ notices \in Seq(Notices)
    BY <2>1 DEF Init
  <2>6. cellsCut \in BOOLEAN /\ phase \in {"idle", "blocks", "lines", "done"}
    BY DEF Init
  <2>7. rem \in Int /\ text \in Nat /\ kept \in 0..MaxInt /\ width \in Nat /\ dropped \in 0..MaxInt
    BY <2>2 DEF Init
  <2> QED BY <2>3, <2>4, <2>5, <2>6, <2>7 DEF TypeOK
<1>2. Progress /\ Accounts
  BY DEF Init, Progress, Accounts
<1> QED BY <1>1, <1>2 DEF RenderInv

LEMMA InvNext == RenderInv /\ [Next]_vars => RenderInv'
<1> SUFFICES ASSUME RenderInv, [Next]_vars PROVE RenderInv'
  OBVIOUS
<1>1. ASSUME NEW bs \in Responses, NEW b \in Budgets, Markdown(bs, b) PROVE RenderInv'
  BY <1>1, MarkdownKeeps
<1>2. CASE BeginBlock
  BY <1>2, BeginBlockKeeps
<1>3. CASE KeepLine
  BY <1>3, KeepLineKeeps
<1>4. CASE EndBlock
  BY <1>4, EndBlockKeeps
<1>5. CASE DropRest \/ Finish
  BY <1>5, EndKeeps
<1>6. CASE UNCHANGED vars
  <2> USE <1>6 DEF vars, RenderInv
  <2>1. TypeOK'
    BY DEF TypeOK
  <2>2. Progress'
    BY DEF Progress, Rows, Current
  <2>3. Accounts'
    BY RoomStays DEF Accounts, BareFrame, Current
  <2> QED BY <2>1, <2>2, <2>3
<1> QED BY <1>1, <1>2, <1>3, <1>4, <1>5, <1>6 DEF Next, Rendering

\* The invariant of a rendering holds in every behaviour.
THEOREM SpecInv == Spec => []RenderInv
  BY InvInit, InvNext, PTL DEF Spec

\* Every variable keeps its type, for any blocks a handler can return and any budget.
THEOREM TypeCorrect == Spec => []TypeOK
<1>1. RenderInv => TypeOK
  BY DEF RenderInv
<1> QED BY SpecInv, <1>1, PTL

\* A response with all its notices is within maxBytes, but for the frame of its last block,
\* for any blocks and any budget.
THEOREM AnswersFitTheBudget == Spec => []WithinBudget
<1>1. RenderInv => WithinBudget
  <2> SUFFICES ASSUME RenderInv, phase = "done", bud.bytes > 0
               PROVE  IF bud.bytes > Reserve(bud) THEN Response <= bud.bytes + BareFrame ELSE Response <= Reserve(bud)
    BY DEF WithinBudget
  <2> USE DEF RenderInv
  <2>1. HeadBytes \in Nat /\ (HeadBytes # 0 => HeadBytes + 2 <= Reserve(bud))
    BY HeadFits
  <2>2. Reserve(bud) \in Nat /\ bud.bytes \in Nat /\ width \in Nat /\ rem \in Int
    BY ReserveOfBudget DEF TypeOK, Budgets
  <2>3. BareFrame \in Nat
    <3>1. blocks \in Seq(Blocks) /\ Len(shown) \in Nat /\ (shown # <<>> => Len(shown) \in 1..Len(blocks))
      BY DEF TypeOK, Responses, Progress
    <3>2. shown # <<>> => blocks[Len(shown)] \in Blocks
      BY <3>1
    <3> QED BY <3>2 DEF BareFrame, Blocks
  <2>4. CASE bud.bytes > Reserve(bud)
    <3>1. width + rem <= Room /\ rem >= -BareFrame /\ Room = bud.bytes - Reserve(bud)
      BY <2>2, <2>4 DEF Accounts, Room
    <3> QED BY <2>1, <2>2, <2>3, <2>4, <3>1 DEF Response
  <2>5. CASE ~(bud.bytes > Reserve(bud))
    <3>1. width = 0
      BY <2>2, <2>5 DEF Accounts, Room
    <3> QED BY <2>1, <2>2, <2>5, <3>1 DEF Response
  <2> QED BY <2>4, <2>5
<1> QED BY SpecInv, <1>1, PTL

------------------------------------------------------------------------------
(* What a response takes in memory *)

\* A block of any length.
Shapes == [kind : {"table", "code", "pairs", "text"}, frame : Nat, lines : Seq(Lines),
           total : 0..MaxInt, more : BOOLEAN]

LEMMA Product ==
    ASSUME NEW a \in Nat, NEW b \in Nat, NEW c \in Nat
    PROVE  a * c \in Nat /\ (a <= b => a * c <= b * c)
<1>1. a * c \in Nat
  OBVIOUS
<1>2. ASSUME a <= b PROVE a * c <= b * c
  <2>1. b - a \in Nat
    BY <1>2
  <2>2. \A d \in Nat : d * c \in Nat /\ (a + d) * c = a * c + d * c
    OBVIOUS
  <2>3. a + (b - a) = b
    OBVIOUS
  <2> QED BY <1>1, <2>1, <2>2, <2>3
<1> QED BY <1>1, <1>2

\* The blocks the sources make are among the shapes the proofs speak of.
LEMMA BlocksAreShapes == Blocks \subseteq Shapes
  BY DEF Blocks, Shapes

LEMMA LineSizesType ==
    ASSUME NEW b \in Shapes
    PROVE  /\ LineSizes(b) \in Seq(Nat) /\ Len(LineSizes(b)) = Len(b.lines) /\ Len(b.lines) \in Nat
           /\ \A n \in 1..Len(b.lines) : LineSizes(b)[n] = LineSize(b.lines[n]) /\ LineSizes(b)[n] > 0
           /\ Sums(LineSizes(b))[Len(b.lines)] \in Nat /\ BlockSize(b) \in Nat
           /\ BlockSize(b) = b.frame + Sums(LineSizes(b))[Len(b.lines)] + 1 /\ b.frame \in Nat
<1>1. b.lines \in Seq(Lines) /\ b.frame \in Nat /\ Len(b.lines) \in Nat /\ DOMAIN b.lines = 1..Len(b.lines)
  BY DEF Shapes
<1>2. ASSUME NEW n \in 1..Len(b.lines) PROVE LineSize(b.lines[n]) \in Nat /\ LineSize(b.lines[n]) > 0
  <2>1. b.lines[n] \in Lines
    BY <1>1
  <2>2. b.lines[n].fixed \in Nat /\ b.lines[n].runes * b.lines[n].written \in Nat
    BY <2>1, Product DEF Lines
  <2> QED BY <2>2 DEF LineSize
<1>3. LineSizes(b) = [n \in 1..Len(b.lines) |-> LineSize(b.lines[n])]
  BY <1>1 DEF LineSizes
<1>4. LineSizes(b) \in Seq(Nat) /\ Len(LineSizes(b)) = Len(b.lines)
  BY <1>1, <1>2, <1>3
<1>5. \A n \in 1..Len(b.lines) : LineSizes(b)[n] = LineSize(b.lines[n]) /\ LineSizes(b)[n] > 0
  BY <1>2, <1>3
<1>6. Sums(LineSizes(b))[Len(b.lines)] \in Nat
  <2>1. Len(b.lines) \in 0..Len(b.lines)
    BY <1>1
  <2> QED BY <1>4, <2>1, SumsLaw
<1> QED BY <1>1, <1>4, <1>5, <1>6 DEF BlockSize

LEMMA BlockSizesType ==
    ASSUME NEW bs \in Seq(Shapes)
    PROVE  /\ BlockSizes(bs) \in Seq(Nat) /\ Len(BlockSizes(bs)) = Len(bs) /\ Len(bs) \in Nat
           /\ \A n \in 1..Len(bs) : BlockSizes(bs)[n] = BlockSize(bs[n]) /\ BlockSizes(bs)[n] > 0
<1>1. Len(bs) \in Nat /\ DOMAIN bs = 1..Len(bs)
  OBVIOUS
<1>2. \A n \in 1..Len(bs) : BlockSize(bs[n]) \in Nat /\ BlockSize(bs[n]) > 0
  <2> SUFFICES ASSUME NEW n \in 1..Len(bs) PROVE BlockSize(bs[n]) \in Nat /\ BlockSize(bs[n]) > 0
    OBVIOUS
  <2>1. bs[n] \in Shapes
    OBVIOUS
  <2>2. /\ BlockSize(bs[n]) = bs[n].frame + Sums(LineSizes(bs[n]))[Len(bs[n].lines)] + 1
        /\ bs[n].frame \in Nat /\ Sums(LineSizes(bs[n]))[Len(bs[n].lines)] \in Nat
    BY <2>1, LineSizesType
  <2> QED BY <2>2
<1>3. BlockSizes(bs) = [n \in 1..Len(bs) |-> BlockSize(bs[n])]
  BY <1>1 DEF BlockSizes
<1>4. BlockSizes(bs) \in Seq(Nat) /\ Len(BlockSizes(bs)) = Len(bs)
  BY <1>1, <1>2, <1>3
<1> QED BY <1>1, <1>2, <1>3, <1>4

\* Blocks that are in memory fit in a slice, and so do the lines of each.
LEMMA InMemoryFits ==
    ASSUME NEW bs \in Seq(Shapes), InMemory(bs)
    PROVE  bs \in Responses
<1> DEFINE w == BlockSizes(bs)
<1>1. w \in Seq(Nat) /\ Len(w) = Len(bs) /\ Len(bs) \in Nat /\ Sums(w)[Len(w)] <= MaxInt /\ MaxInt \in Nat
  BY BlockSizesType, RenderAssumption DEF InMemory
<1>2. \A n \in 1..Len(bs) : w[n] = BlockSize(bs[n]) /\ w[n] > 0
  BY BlockSizesType
<1> HIDE DEF w
<1>3. Len(bs) <= MaxInt
  <2>1. Len(w) \in 0..Len(w) /\ Len(w) \in Len(w)..Len(w) /\ Sums(w)[Len(w)] \in Nat
    BY <1>1, SumsLaw
  <2>2. Len(w) <= Sums(w)[Len(w)]
    BY <1>1, <1>2, <2>1, SumsGrow
  <2> QED BY <1>1, <2>1, <2>2
<1>4. ASSUME NEW n \in 1..Len(bs) PROVE bs[n] \in Blocks
  <2>1. bs[n] \in Shapes
    OBVIOUS
  <2> DEFINE b == bs[n]
             v == LineSizes(b)
  <2>2. /\ v \in Seq(Nat) /\ Len(v) = Len(b.lines) /\ Len(b.lines) \in Nat
        /\ \A i \in 1..Len(v) : v[i] > 0
        /\ BlockSize(b) = b.frame + Sums(v)[Len(v)] + 1 /\ b.frame \in Nat
    BY <2>1, LineSizesType
  <2> HIDE DEF v
  <2>3. Len(v) \in 0..Len(v) /\ Len(v) \in Len(v)..Len(v) /\ Sums(v)[Len(v)] \in Nat
    BY <2>2, SumsLaw
  <2>4. Len(v) <= Sums(v)[Len(v)]
    BY <2>2, <2>3, SumsGrow
  <2>5. n \in 0..Len(w) /\ Len(w) \in n..Len(w) /\ n - 1 \in 0..Len(w) /\ n \in 1..Len(w)
    BY <1>1, <1>4
  <2>6. Sums(w)[n] <= Sums(w)[Len(w)]
    BY <1>1, <2>5, SumsGrow
  <2>7. Sums(w)[n] = Sums(w)[n - 1] + w[n] /\ Sums(w)[n - 1] \in Nat /\ Sums(w)[Len(w)] \in Nat
    <3>1. Sums(w) \in [0..Len(w) -> Nat] /\ \A i \in 1..Len(w) : Sums(w)[i] = Sums(w)[i - 1] + w[i]
      BY <1>1, SumsLaw
    <3>2. Len(w) \in 0..Len(w)
      BY <1>1
    <3> QED BY <2>5, <3>1, <3>2
  <2>8. w[n] = BlockSize(b)
    BY <1>2
  <2> HIDE DEF b
  <2>10. Sums(v)[Len(v)] <= w[n]
    BY <2>2, <2>3, <2>8
  <2>11. w[n] <= MaxInt
    BY <1>1, <2>6, <2>7
  <2>9. Len(b.lines) <= MaxInt
    BY <1>1, <1>2, <2>2, <2>3, <2>4, <2>10, <2>11
  <2> QED BY <2>1, <2>9 DEF Shapes, Blocks, b
<1>5. bs \in Seq(Blocks)
  BY <1>1, <1>4
<1> QED BY <1>3, <1>5 DEF Responses

\* Room for what a line is written as: a cut cell is no longer than the whole one, but for
\* its ellipsis.
LEMMA BytesWithin ==
    ASSUME TypeOK, NEW b, NEW l \in Lines
    PROVE  Bytes(b, l) \in Nat /\ Bytes(b, l) >= 1 /\ Bytes(b, l) <= LineSize(l) /\ LineSize(l) \in Nat
<1>1. l.fixed \in Nat /\ l.fixed > 0 /\ l.runes \in Nat /\ l.written \in Nat /\ bud.cells \in Nat
  BY DEF TypeOK, Lines, Budgets
<1>2. l.runes * l.written \in Nat /\ bud.cells * l.written \in Nat
  BY <1>1, Product
<1>3. bud.cells <= l.runes => bud.cells * l.written <= l.runes * l.written
  BY <1>1, Product
<1> QED BY <1>1, <1>2, <1>3 DEF Bytes, Cut, LineSize

\* The memory of a response, block by block.
LEMMA SizeOfBlocks ==
    ASSUME TypeOK, InMemory(blocks)
    PROVE  /\ Len(blocks) \in Nat /\ \A n \in 0..Len(blocks) : Size(n) \in Nat /\ Size(n) <= MaxInt
           /\ Size(0) = 0
           /\ \A n \in 1..Len(blocks) : Size(n) = Size(n - 1) + BlockSize(blocks[n])
<1> DEFINE w == BlockSizes(blocks)
<1>1. blocks \in Seq(Shapes)
  BY BlocksAreShapes DEF TypeOK, Responses
<1>2. w \in Seq(Nat) /\ Len(w) = Len(blocks) /\ Len(blocks) \in Nat /\ Sums(w)[Len(w)] <= MaxInt
  BY <1>1, BlockSizesType DEF InMemory
<1>3. \A n \in 1..Len(w) : w[n] = BlockSize(blocks[n])
  BY <1>1, BlockSizesType
<1>4. \A n \in 0..Len(w) : Size(n) = Sums(w)[n]
  BY DEF Size
<1> HIDE DEF w
<1>5. /\ Sums(w) \in [0..Len(w) -> Nat] /\ Sums(w)[0] = 0
      /\ \A n \in 1..Len(w) : Sums(w)[n] = Sums(w)[n - 1] + w[n]
  BY <1>2, SumsLaw
<1>6. \A n \in 0..Len(w) : Sums(w)[n] <= Sums(w)[Len(w)] /\ Sums(w)[n] \in Nat /\ Sums(w)[Len(w)] \in Nat
  <2> SUFFICES ASSUME NEW n \in 0..Len(w)
               PROVE  Sums(w)[n] <= Sums(w)[Len(w)] /\ Sums(w)[n] \in Nat /\ Sums(w)[Len(w)] \in Nat
    OBVIOUS
  <2>1. Len(w) \in n..Len(w) /\ Len(w) \in 0..Len(w)
    BY <1>2
  <2> QED BY <1>2, <1>5, <2>1, SumsGrow
<1>7. \A n \in 0..Len(w) : Size(n) \in Nat /\ Size(n) <= MaxInt
  BY <1>2, <1>4, <1>6, RenderAssumption
<1>8. 0 \in 0..Len(w) /\ \A n \in 1..Len(w) : n \in 0..Len(w) /\ n - 1 \in 0..Len(w)
  BY <1>2
<1>9. \A n \in 1..Len(w) : Size(n) = Size(n - 1) + BlockSize(blocks[n])
  BY <1>3, <1>4, <1>5, <1>8
<1>10. Size(0) = 0
  BY <1>4, <1>5, <1>8
<1> QED BY <1>2, <1>7, <1>9, <1>10

\* The memory of a block, line by line.
LEMMA SizeOfLines ==
    ASSUME NEW b \in Shapes
    PROVE  /\ Sums(LineSizes(b))[0] = 0
           /\ \A n \in 0..Len(b.lines) : /\ Sums(LineSizes(b))[n] \in Nat
                                         /\ b.frame + Sums(LineSizes(b))[n] < BlockSize(b)
           /\ \A n \in 1..Len(b.lines) :
                Sums(LineSizes(b))[n] = Sums(LineSizes(b))[n - 1] + LineSize(b.lines[n])
<1> DEFINE w == LineSizes(b)
<1>1. /\ w \in Seq(Nat) /\ Len(w) = Len(b.lines) /\ Len(b.lines) \in Nat
      /\ \A n \in 1..Len(w) : w[n] = LineSize(b.lines[n])
      /\ Sums(w)[Len(w)] \in Nat /\ BlockSize(b) = b.frame + Sums(w)[Len(w)] + 1 /\ b.frame \in Nat
  BY LineSizesType
<1> HIDE DEF w
<1>2. /\ Sums(w) \in [0..Len(w) -> Nat] /\ Sums(w)[0] = 0
      /\ \A n \in 1..Len(w) : Sums(w)[n] = Sums(w)[n - 1] + w[n]
  BY <1>1, SumsLaw
<1>3. \A n \in 0..Len(w) : Sums(w)[n] \in Nat /\ b.frame + Sums(w)[n] < BlockSize(b)
  <2> SUFFICES ASSUME NEW n \in 0..Len(w) PROVE Sums(w)[n] \in Nat /\ b.frame + Sums(w)[n] < BlockSize(b)
    OBVIOUS
  <2>1. Len(w) \in n..Len(w)
    BY <1>1
  <2>2. Sums(w)[n] <= Sums(w)[Len(w)]
    BY <1>1, <2>1, SumsGrow
  <2>3. Sums(w)[n] \in Nat
    BY <1>2
  <2> QED BY <1>1, <2>2, <2>3
<1> QED BY <1>1, <1>2, <1>3 DEF w

------------------------------------------------------------------------------
(* What was written, and what the notices say of it *)

WrittenInv == RenderInv /\ Memory /\ Ended /\ Reported

\* Without a budget of bytes every line fits.
LEMMA EveryLineFits ==
    ASSUME RenderInv, Memory, phase = "lines", bud.bytes = 0, kept < Rows(Current)
    PROVE  Fits
<1> USE DEF RenderInv
<1> DEFINE n == Len(shown) + 1
           l == Current.lines[kept + 1]
<1>1. n \in 1..Len(blocks) /\ Current = blocks[n] /\ n - 1 = Len(shown) /\ n \in 0..Len(blocks) /\ n - 1 \in 0..Len(blocks)
  BY DEF Progress, TypeOK, Responses, Current
<1>2. Current \in Shapes /\ Rows(Current) \in 0..Len(Current.lines) /\ kept + 1 \in 1..Len(Current.lines) /\ l \in Lines
      /\ kept + 1 \in 0..Len(Current.lines)
  <2>1. /\ Current \in Blocks /\ Rows(Current) \in 0..Len(Current.lines) /\ Len(Current.lines) \in 0..MaxInt
        /\ \A i \in 1..Rows(Current) : Current.lines[i] \in Lines
    BY BlockInHand DEF Progress
  <2>2. kept + 1 \in 1..Rows(Current) /\ kept \in Nat
    BY <2>1, RenderAssumption DEF TypeOK
  <2> QED BY <2>1, <2>2, BlocksAreShapes
<1> HIDE DEF n, l
<1>3. Bytes(Current, l) \in Nat /\ Bytes(Current, l) <= LineSize(l) /\ LineSize(l) \in Nat
  BY <1>2, BytesWithin
<1>4. /\ Sums(LineSizes(Current))[kept] \in Nat /\ Sums(LineSizes(Current))[kept + 1] \in Nat
      /\ Sums(LineSizes(Current))[kept + 1] = Sums(LineSizes(Current))[kept] + LineSize(l)
      /\ Current.frame + Sums(LineSizes(Current))[kept + 1] < BlockSize(Current)
  <2>1. kept \in 0..Len(Current.lines) /\ (kept + 1) - 1 = kept
    BY <1>2 DEF TypeOK
  <2> QED BY <1>2, <2>1, SizeOfLines DEF l
<1>5. Size(n) = Size(n - 1) + BlockSize(blocks[n]) /\ Size(n) \in Nat /\ Size(n - 1) \in Nat /\ Size(n) <= MaxInt
  BY <1>1, SizeOfBlocks DEF Memory
<1>6. text <= Current.frame + Sums(LineSizes(Current))[kept] /\ rem >= MaxInt - Size(n - 1)
  BY <1>1 DEF Memory
<1>7. text \in Nat /\ rem \in Int /\ Current.frame \in Nat /\ MaxInt \in Nat /\ BlockSize(Current) \in Nat
  BY <1>2, RenderAssumption, LineSizesType DEF TypeOK
<1>8. text + Bytes(Current, l) <= rem
  <2>1. rem >= BlockSize(Current)
    BY <1>1, <1>5, <1>6, <1>7
  <2>2. text + Bytes(Current, l) <= Current.frame + Sums(LineSizes(Current))[kept + 1]
    BY <1>3, <1>4, <1>6, <1>7
  <2> QED BY <1>3, <1>4, <1>7, <2>1, <2>2
<1> QED BY <1>8 DEF Fits, l

\* The stronger invariant, action by action.
LEMMA MarkdownWrites ==
    ASSUME WrittenInv, NEW bs \in Responses, NEW b \in Budgets, Markdown(bs, b)
    PROVE  WrittenInv'
<1> USE DEF Markdown
<1>1. RenderInv'
  BY MarkdownKeeps DEF WrittenInv
<1>2. shown' = <<>> /\ DOMAIN shown' = {} /\ Len(shown') = 0 /\ width' = 0 /\ cellsCut' = FALSE
  BY DEF WrittenInv, RenderInv, Progress, TypeOK
<1>3. Memory'
  <2>1. TypeOK' /\ InMemory(blocks)'
    BY <1>1 DEF RenderInv, InMemory, BlockSizes
  <2>2. Size(0)' = 0
    <3>1. BlockSizes(bs) \in Seq(Nat)
      BY BlocksAreShapes, BlockSizesType DEF Responses
    <3>2. Sums(BlockSizes(bs))[0] = 0
      BY <3>1, SumsLaw
    <3> QED BY <3>2 DEF Size
  <2>3. b.bytes = 0 => rem' = MaxInt
    OBVIOUS
  <2> QED BY <1>2, <2>1, <2>2, <2>3, RenderAssumption DEF Memory
<1>4. Ended'
  BY <1>2 DEF Ended
<1>5. Reported'
  <2>1. Noted' = {}
    BY <1>2 DEF Noted
  <2>2. Noted = {}
    BY <1>2 DEF Noted
  <2>3. Len(notices') = Cardinality(Noted') /\ notices' = <<>>
    <3>1. notices \in Seq(Notices) /\ Len(notices) = Cardinality({})
      BY <2>2 DEF WrittenInv, Reported, RenderInv, TypeOK
    <3>2. Len(notices) = 0
      BY <3>1, FS_EmptySet
    <3> QED BY <2>1, <3>1, <3>2
  <2>4. IsFiniteSet(Noted') /\ ~(\E j \in DOMAIN shown' : CellsCut(blocks[j])') /\ phase' = "blocks"
    BY <1>2, <2>1, FS_EmptySet
  <2>5. dropped' = 0
    BY DEF Reported, WrittenInv
  <2> QED BY <1>2, <2>3, <2>4, <2>5 DEF Reported
<1> QED BY <1>1, <1>3, <1>4, <1>5 DEF WrittenInv

\* What is said of the blocks that ended does not change while another one is written.
LEMMA EndedStay ==
    ASSUME bud' = bud, blocks' = blocks, shown' = shown
    PROVE  /\ (Ended => Ended') /\ Noted' = Noted
           /\ \A j : (NoticeOf(blocks[j], shown[j].lines))' = NoticeOf(blocks[j], shown[j].lines)
           /\ \A j : CellsCut(blocks[j])' = CellsCut(blocks[j])
<1>1. \A j : Rows(blocks[j])' = Rows(blocks[j])
  BY DEF Rows
<1>2. \A j : (NoticeOf(blocks[j], shown[j].lines))' = NoticeOf(blocks[j], shown[j].lines)
  BY DEF NoticeOf, Total, Rows
<1>3. \A j : CellsCut(blocks[j])' = CellsCut(blocks[j])
  BY DEF CellsCut, Cut, Rows
<1>4. \A j, n : Bytes(blocks[j], blocks[j].lines[n])' = Bytes(blocks[j], blocks[j].lines[n])
  BY DEF Bytes, Cut
<1>5. Noted' = Noted
  BY <1>2 DEF Noted
<1>6. Ended => Ended'
  <2> SUFFICES ASSUME Ended, NEW j \in DOMAIN shown
               PROVE  (/\ shown[j].lines \in 0..Rows(blocks[j])
                       /\ shown[j].lines < Rows(blocks[j]) =>
                            /\ bud.bytes > 0
                            /\ shown[j].text + Bytes(blocks[j], blocks[j].lines[shown[j].lines + 1]) > shown[j].room
                       /\ bud.bytes > 0 => shown[j].room <= bud.bytes)'
    BY DEF Ended
  <2> QED BY <1>1, <1>4 DEF Ended
<1> QED BY <1>2, <1>3, <1>5, <1>6

\* The sizes of a response depend on its blocks alone.
LEMMA SizesStay ==
    ASSUME blocks' = blocks, shown' = shown
    PROVE  /\ \A n : Size(n)' = Size(n)
           /\ Current' = Current /\ Left' = Left /\ InMemory(blocks)' = InMemory(blocks)
           /\ LineSizes(Current)' = LineSizes(Current)
  BY DEF Size, BlockSizes, BlockSize, LineSizes, Current, Left, InMemory

LEMMA BeginBlockWrites == ASSUME WrittenInv, BeginBlock PROVE WrittenInv'
<1> USE DEF WrittenInv, BeginBlock
<1>1. RenderInv'
  BY BeginBlockKeeps
<1>2. bud' = bud /\ blocks' = blocks /\ shown' = shown
  OBVIOUS
<1>3. Memory'
  <2>1. /\ Len(shown) < Len(blocks) /\ Len(shown) \in Nat /\ Len(blocks) \in Nat /\ rem \in Int /\ width \in Nat
        /\ TypeOK /\ InMemory(blocks)
    BY DEF RenderInv, Progress, TypeOK, Responses, Left, Memory
  <2>2. Current \in Shapes /\ Current.frame \in Nat /\ Sums(LineSizes(Current))[0] = 0
    BY <2>1, BlockInHand, BlocksAreShapes, SizeOfLines, LineSizesType
  <2>3. Len(shown) \in 0..Len(blocks) /\ Size(Len(shown)) \in Nat
    BY <2>1, SizeOfBlocks
  <2>4. text' <= Current.frame + Sums(LineSizes(Current))[kept']
    BY <2>2
  <2>5. bud.bytes = 0 => rem' >= MaxInt - Size(Len(shown))
    BY <2>1, <2>3, RenderAssumption DEF Memory
  <2> QED BY <1>2, <2>1, <2>4, <2>5, SizesStay DEF Memory
<1>4. Ended'
  BY <1>2, EndedStay
<1>5. Reported'
  <2>1. /\ Noted' = Noted /\ \A j : CellsCut(blocks[j])' = CellsCut(blocks[j])
        /\ \A j : (NoticeOf(blocks[j], shown[j].lines))' = NoticeOf(blocks[j], shown[j].lines)
    BY <1>2, EndedStay
  <2> QED BY <1>2, <2>1 DEF Reported
<1> QED BY <1>1, <1>3, <1>4, <1>5

LEMMA KeepLineWrites == ASSUME WrittenInv, KeepLine PROVE WrittenInv'
<1> USE DEF WrittenInv, KeepLine
<1>1. RenderInv'
  BY KeepLineKeeps
<1>2. bud' = bud /\ blocks' = blocks /\ shown' = shown
  OBVIOUS
<1>3. Memory'
  <2> DEFINE l == Current.lines[kept + 1]
  <2>1. Len(shown) < Len(blocks) /\ TypeOK /\ kept \in Nat
    BY DEF RenderInv, Progress, TypeOK
  <2>2. Current \in Shapes /\ kept + 1 \in 1..Len(Current.lines) /\ l \in Lines
    <3>1. /\ Current \in Blocks /\ Rows(Current) \in 0..Len(Current.lines) /\ Len(Current.lines) \in 0..MaxInt
          /\ \A i \in 1..Rows(Current) : Current.lines[i] \in Lines
      BY <2>1, BlockInHand
    <3>2. kept + 1 \in 1..Rows(Current)
      BY <2>1, <3>1, RenderAssumption DEF Fits
    <3> QED BY <3>1, <3>2, RenderAssumption, BlocksAreShapes
  <2> HIDE DEF l
  <2>3. Bytes(Current, l) \in Nat /\ Bytes(Current, l) <= LineSize(l) /\ LineSize(l) \in Nat
    BY <2>1, <2>2, BytesWithin
  <2>4. /\ Sums(LineSizes(Current))[kept] \in Nat /\ Current.frame \in Nat
        /\ Sums(LineSizes(Current))[kept + 1] = Sums(LineSizes(Current))[kept] + LineSize(l)
    <3>1. kept \in 0..Len(Current.lines) /\ (kept + 1) - 1 = kept
      BY <2>1, <2>2
    <3> QED BY <2>2, <3>1, SizeOfLines, LineSizesType DEF l
  <2>5. text' = text + Bytes(Current, l) /\ kept' = kept + 1 /\ text \in Nat
    BY <2>1 DEF TypeOK, l
  <2>6. text' <= Current.frame + Sums(LineSizes(Current))[kept']
    <3>1. text <= Current.frame + Sums(LineSizes(Current))[kept]
      BY DEF Memory
    <3> QED BY <2>3, <2>4, <2>5, <3>1
  <2> QED BY <1>2, <2>6, SizesStay DEF Memory
<1>4. Ended'
  BY <1>2, EndedStay
<1>5. Reported'
  <2>1. /\ Noted' = Noted /\ \A j : CellsCut(blocks[j])' = CellsCut(blocks[j])
        /\ \A j : (NoticeOf(blocks[j], shown[j].lines))' = NoticeOf(blocks[j], shown[j].lines)
    BY <1>2, EndedStay
  <2> QED BY <1>2, <2>1 DEF Reported
<1> QED BY <1>1, <1>3, <1>4, <1>5

LEMMA EndWrites == ASSUME WrittenInv, DropRest \/ Finish PROVE WrittenInv'
<1> USE DEF WrittenInv, DropRest, Finish
<1>1. RenderInv'
  BY EndKeeps
<1>2. bud' = bud /\ blocks' = blocks /\ shown' = shown
  OBVIOUS
<1>3. Memory'
  BY <1>2, SizesStay DEF Memory
<1>4. Ended'
  BY <1>2, EndedStay
<1>5. Left' = Left /\ Left \in Nat
  BY <1>2, SizesStay DEF RenderInv, Progress, TypeOK, Responses, Left
<1>6. Left > 0 /\ rem <= 0 => bud.bytes > 0
  <2> SUFFICES ASSUME Left > 0, rem <= 0, bud.bytes = 0 PROVE FALSE
    BY DEF RenderInv, TypeOK, Budgets
  <2> DEFINE n == Len(shown) + 1
  <2>1. n \in 1..Len(blocks) /\ n \in 0..Len(blocks) /\ n - 1 \in 0..Len(blocks) /\ n - 1 = Len(shown) /\ TypeOK
    BY DEF RenderInv, TypeOK, Responses, Left
  <2> HIDE DEF n
  <2>2. Size(n) = Size(n - 1) + BlockSize(blocks[n]) /\ Size(n) \in Nat /\ Size(n - 1) \in Nat /\ Size(n) <= MaxInt
    BY <2>1, SizeOfBlocks DEF Memory
  <2>3. BlockSize(blocks[n]) \in Nat /\ BlockSize(blocks[n]) > 0
    <3>1. blocks \in Seq(Shapes)
      BY <2>1, BlocksAreShapes DEF TypeOK, Responses
    <3>2. BlockSizes(blocks)[n] = BlockSize(blocks[n]) /\ BlockSizes(blocks)[n] > 0 /\ blocks[n] \in Shapes
      BY <2>1, <3>1, BlockSizesType
    <3> QED BY <3>2, LineSizesType
  <2>4. rem >= MaxInt - Size(n - 1) /\ rem \in Int /\ width \in Nat
    BY <2>1, <2>2, RenderAssumption DEF Memory, TypeOK
  <2> QED BY <2>2, <2>3, <2>4, RenderAssumption
<1>7. Reported'
  <2>1. /\ Noted' = Noted /\ \A j : CellsCut(blocks[j])' = CellsCut(blocks[j])
        /\ \A j : (NoticeOf(blocks[j], shown[j].lines))' = NoticeOf(blocks[j], shown[j].lines)
    BY <1>2, EndedStay
  <2> QED BY <1>2, <1>5, <1>6, <2>1 DEF Reported
<1> QED BY <1>1, <1>3, <1>4, <1>7

LEMMA EndBlockWrites == ASSUME WrittenInv, EndBlock PROVE WrittenInv'
<1> USE DEF WrittenInv, EndBlock
<1>0. PICK k \in Nat : k = Len(shown) + 1
  BY DEF RenderInv, TypeOK
<1> DEFINE done == [lines |-> kept, text |-> text, room |-> rem]
<1>1. RenderInv'
  BY EndBlockKeeps
<1>2. /\ Len(shown) < Len(blocks) /\ Len(shown) \in Nat /\ Len(blocks) \in Nat /\ TypeOK
      /\ text \in Nat /\ rem \in Int /\ width \in Nat /\ kept \in 0..MaxInt /\ MaxInt \in Nat
      /\ bud' = bud /\ blocks' = blocks
  BY RenderAssumption DEF RenderInv, Progress, TypeOK, Responses
<1>3. k \in 1..Len(blocks) /\ k \in 0..Len(blocks) /\ k - 1 = Len(shown) /\ Current = blocks[k]
  BY <1>0, <1>2 DEF Current
<1>4. /\ DOMAIN shown = 1..(k - 1) /\ DOMAIN shown' = 1..k /\ Len(shown') = k
      /\ shown'[k] = done /\ \A j \in 1..(k - 1) : shown'[j] = shown[j]
  <2>1. shown \in Seq([lines : 0..MaxInt, text : Nat, room : Int])
    BY <1>2 DEF TypeOK
  <2>2. shown' = Append(shown, done)
    OBVIOUS
  <2> HIDE DEF done
  <2> QED BY <1>0, <1>2, <2>1, <2>2
<1>5. done.lines = kept /\ done.text = text /\ done.room = rem
  OBVIOUS
<1> HIDE DEF done
<1>6. k \in Nat /\ 1..k = (1..(k - 1)) \cup {k} /\ k \notin 1..(k - 1)
  BY <1>2, <1>3
<1>7. /\ Current \in Blocks /\ Rows(Current) \in 0..Len(Current.lines) /\ Len(Current.lines) \in 0..MaxInt
      /\ \A i \in 1..Rows(Current) : Current.lines[i] \in Lines
  BY <1>2, BlockInHand
<1>8. kept \in 0..Rows(Current)
  <2>1. kept <= Rows(Current)
    BY DEF RenderInv, Progress
  <2> QED BY <1>2, <1>7, <2>1
<1>9. kept < Rows(Current) => bud.bytes > 0 /\ text + Bytes(Current, Current.lines[kept + 1]) > rem
  <2> SUFFICES ASSUME kept < Rows(Current)
               PROVE  bud.bytes > 0 /\ text + Bytes(Current, Current.lines[kept + 1]) > rem
    OBVIOUS
  <2>1. bud.bytes # 0
    BY EveryLineFits
  <2>2. bud.bytes \in Nat
    BY <1>2 DEF TypeOK, Budgets
  <2>3. Bytes(Current, Current.lines[kept + 1]) \in Nat
    <3>1. kept + 1 \in 1..Rows(Current)
      BY <1>2, <1>7
    <3> QED BY <1>2, <1>7, <3>1, BytesWithin
  <2>4. ~(text + Bytes(Current, Current.lines[kept + 1]) <= rem)
    BY DEF Fits
  <2> QED BY <1>2, <2>1, <2>2, <2>3, <2>4
<1>10. bud.bytes > 0 => rem <= bud.bytes
  <2> SUFFICES ASSUME bud.bytes > 0 PROVE rem <= bud.bytes
    OBVIOUS
  <2>1. width + rem + (IF width > 0 THEN 1 ELSE 0) <= Room /\ Room = bud.bytes - Reserve(bud)
    BY DEF RenderInv, Accounts, Room
  <2>2. Reserve(bud) \in Nat /\ bud.bytes \in Nat
    BY <1>2, ReserveOfBudget DEF TypeOK, Budgets
  <2> QED BY <1>2, <2>1, <2>2
<1>11. Memory'
  <2>1. blocks \in Seq(Shapes) /\ Current \in Shapes
    BY <1>2, <1>7, BlocksAreShapes DEF TypeOK, Responses
  <2>2. Size(k) = Size(k - 1) + BlockSize(Current) /\ Size(k) \in Nat /\ Size(k - 1) \in Nat
    <3>1. k - 1 \in 0..Len(blocks)
      BY <1>2, <1>3
    <3> QED BY <1>2, <1>3, <3>1, SizeOfBlocks DEF Memory
  <2>3. text + 1 <= BlockSize(Current) /\ BlockSize(Current) \in Nat
    <3>1. kept \in 0..Len(Current.lines)
      BY <1>2, <1>7, <1>8
    <3>2. text <= Current.frame + Sums(LineSizes(Current))[kept]
      BY DEF Memory
    <3>3. Current.frame + Sums(LineSizes(Current))[kept] < BlockSize(Current) /\ Sums(LineSizes(Current))[kept] \in Nat
      BY <2>1, <3>1, SizeOfLines
    <3>4. BlockSize(Current) \in Nat /\ Current.frame \in Nat
      BY <2>1, LineSizesType
    <3> QED BY <1>2, <3>2, <3>3, <3>4
  <2>4. bud.bytes = 0 => rem' >= MaxInt - Size(k) + 1
    <3>1. bud.bytes = 0 => rem >= MaxInt - Size(k - 1)
      BY <1>3 DEF Memory
    <3>2. rem' = rem - text
      OBVIOUS
    <3> QED BY <1>2, <2>2, <2>3, <3>1, <3>2
  <2>5. (\A n : Size(n)' = Size(n)) /\ InMemory(blocks)' = InMemory(blocks)
    BY <1>2 DEF Size, BlockSizes, BlockSize, LineSizes, InMemory
  <2>6. Size(Len(shown))' = Size(k)
    BY <1>2, <1>4 DEF Size
  <2>7. width' \in Nat /\ rem' \in Int
    BY <1>1 DEF RenderInv, TypeOK
  <2> QED BY <1>2, <2>2, <2>4, <2>5, <2>6, <2>7 DEF Memory
<1>12. \A j \in 1..(k - 1) : (NoticeOf(blocks[j], shown[j].lines))' = NoticeOf(blocks[j], shown[j].lines)
  BY <1>2, <1>4 DEF NoticeOf, Total, Rows
<1>13. (NoticeOf(blocks[k], shown[k].lines))' = NoticeOf(Current, kept)
  BY <1>2, <1>3, <1>4, <1>5 DEF NoticeOf, Total, Rows
<1>14. \A j : Rows(blocks[j])' = Rows(blocks[j]) /\ CellsCut(blocks[j])' = CellsCut(blocks[j])
  BY <1>2 DEF Rows, CellsCut, Cut
<1>15. \A j, n : Bytes(blocks[j], blocks[j].lines[n])' = Bytes(blocks[j], blocks[j].lines[n])
  BY <1>2 DEF Bytes, Cut
<1>16. Ended'
  <2> SUFFICES ASSUME NEW j \in 1..k
               PROVE  (/\ shown[j].lines \in 0..Rows(blocks[j])
                       /\ shown[j].lines < Rows(blocks[j]) =>
                            /\ bud.bytes > 0
                            /\ shown[j].text + Bytes(blocks[j], blocks[j].lines[shown[j].lines + 1]) > shown[j].room
                       /\ bud.bytes > 0 => shown[j].room <= bud.bytes)'
    BY <1>4 DEF Ended
  <2>1. CASE j = k
    BY <1>2, <1>3, <1>4, <1>5, <1>8, <1>9, <1>10, <1>14, <1>15, <2>1
  <2>2. CASE j \in 1..(k - 1)
    <3>1. /\ shown[j].lines \in 0..Rows(blocks[j])
          /\ shown[j].lines < Rows(blocks[j]) =>
               /\ bud.bytes > 0
               /\ shown[j].text + Bytes(blocks[j], blocks[j].lines[shown[j].lines + 1]) > shown[j].room
          /\ bud.bytes > 0 => shown[j].room <= bud.bytes
      BY <1>4, <2>2 DEF Ended
    <3>2. shown'[j] = shown[j] /\ Rows(blocks[j])' = Rows(blocks[j])
      BY <1>4, <1>14, <2>2
    <3>3. Bytes(blocks[j], blocks[j].lines[shown[j].lines + 1])' = Bytes(blocks[j], blocks[j].lines[shown[j].lines + 1])
      BY <1>2, <3>2 DEF Bytes, Cut
    <3> QED BY <1>2, <3>1, <3>2, <3>3
  <2> QED BY <1>6, <2>1, <2>2
<1>17. cellsCut' <=> \E j \in DOMAIN shown' : CellsCut(blocks[j])'
  <2>1. cellsCut' <=> (cellsCut \/ CellsCut(Current))
    BY DEF CellsCut
  <2>2. cellsCut <=> \E j \in 1..(k - 1) : CellsCut(blocks[j])
    BY <1>4 DEF Reported
  <2> QED BY <1>3, <1>4, <1>6, <1>14, <2>1, <2>2
<1>18. /\ IsFiniteSet(Noted') /\ Len(notices') = Cardinality(Noted')
       /\ notices' # <<>> => \E f \in Noted' : /\ \A i \in Noted' : f <= i
                                               /\ (NoticeOf(blocks[f], shown[f].lines))' = <<notices'[1]>>
  <2>1. Noted \subseteq 1..(k - 1) /\ IsFiniteSet(Noted) /\ Len(notices) = Cardinality(Noted) /\ notices \in Seq(Notices)
    BY <1>2, <1>4 DEF Noted, Reported, TypeOK
  <2>2. NoticeOf(Current, kept) = <<>> \/ \E m \in Notices : NoticeOf(Current, kept) = <<m>>
    <3>1. NoticeOf(Current, kept) \in Seq(Notices) /\ Len(NoticeOf(Current, kept)) \in {0, 1}
      <4>1. NoticeOf(Current, kept) \in Seq(Notices)
        BY <1>2, NoticeOfType
      <4> QED BY <4>1 DEF NoticeOf
    <3> DEFINE q == NoticeOf(Current, kept)
    <3> HIDE DEF q
    <3>2. q \in Seq(Notices) /\ Len(q) \in {0, 1}
      BY <3>1 DEF q
    <3>3. q = <<>> \/ (q = <<q[1]>> /\ q[1] \in Notices)
      BY <3>2
    <3> QED BY <3>3 DEF q
  <2>3. CASE NoticeOf(Current, kept) = <<>>
    <3>1. Noted' = Noted
      BY <1>4, <1>6, <1>12, <1>13, <2>3 DEF Noted
    <3>2. notices' = notices
      BY <2>1, <2>3
    <3>3. \A f \in Noted : (NoticeOf(blocks[f], shown[f].lines))' = NoticeOf(blocks[f], shown[f].lines)
      BY <1>12, <2>1
    <3> QED BY <2>1, <3>1, <3>2, <3>3 DEF Reported
  <2>4. CASE \E m \in Notices : NoticeOf(Current, kept) = <<m>>
    <3>1. PICK m \in Notices : NoticeOf(Current, kept) = <<m>>
      BY <2>4
    <3>2. <<m>> # <<>>
      OBVIOUS
    <3>3. Noted' = Noted \cup {k} /\ k \notin Noted
      BY <1>4, <1>6, <1>12, <1>13, <2>1, <3>1, <3>2 DEF Noted
    <3>4. IsFiniteSet(Noted') /\ Cardinality(Noted') = Cardinality(Noted) + 1
      BY <2>1, <3>3, FS_AddElement
    <3>5. notices' = Append(notices, m) /\ notices' # <<>> /\ Len(notices') = Len(notices) + 1
      BY <2>1, <3>1
    <3>6. CASE notices = <<>>
      <4>1. Noted = {}
        BY <2>1, <3>6, FS_EmptySet
      <4>2. notices'[1] = m /\ Noted' = {k}
        BY <3>3, <3>5, <3>6, <4>1
      <4>3. (NoticeOf(blocks[k], shown[k].lines))' = <<notices'[1]>>
        BY <1>13, <3>1, <4>2
      <4>4. k \in Noted' /\ \A i \in Noted' : k <= i
        BY <1>6, <4>2
      <4> QED BY <2>1, <3>4, <3>5, <4>3, <4>4
    <3>7. CASE notices # <<>>
      <4>1. PICK f \in Noted : (\A i \in Noted : f <= i) /\ NoticeOf(blocks[f], shown[f].lines) = <<notices[1]>>
        BY <3>7 DEF Reported
      <4>2. f \in 1..(k - 1) /\ f <= k /\ f \in Noted'
        BY <1>6, <2>1, <3>3, <4>1
      <4>3. notices'[1] = notices[1]
        BY <2>1, <3>5, <3>7
      <4>4. (NoticeOf(blocks[f], shown[f].lines))' = <<notices'[1]>>
        BY <1>12, <4>1, <4>2, <4>3
      <4>5. \A i \in Noted' : f <= i
        BY <3>3, <4>1, <4>2
      <4> QED BY <2>1, <3>4, <3>5, <4>2, <4>4, <4>5
    <3> QED BY <3>6, <3>7
  <2> QED BY <2>2, <2>3, <2>4
<1>19. phase' = "blocks" /\ dropped' = 0
  BY DEF Reported
<1>20. Reported'
  BY <1>17, <1>18, <1>19 DEF Reported
<1> QED BY <1>1, <1>11, <1>16, <1>20

LEMMA WrittenInit == Init => WrittenInv
<1> SUFFICES ASSUME Init PROVE WrittenInv
  OBVIOUS
<1>1. RenderInv
  BY InvInit
<1>2. shown = <<>> /\ DOMAIN shown = {} /\ notices = <<>> /\ cellsCut = FALSE /\ phase = "idle" /\ dropped = 0 /\ blocks = <<>>
  BY DEF Init
<1>3. Noted = {}
  BY <1>2 DEF Noted
<1>4. InMemory(blocks)
  <2>1. <<>> \in Seq(Shapes) /\ Len(<<>>) = 0
    OBVIOUS
  <2>2. BlockSizes(<<>>) \in Seq(Nat)
    BY <2>1, BlockSizesType
  <2>3. Sums(BlockSizes(<<>>))[0] = 0
    BY <2>2, SumsLaw
  <2> QED BY <1>2, <2>1, <2>3, RenderAssumption DEF InMemory
<1>5. Memory /\ Ended
  BY <1>2, <1>4 DEF Memory, Ended
<1>6. Reported
  <2>1. IsFiniteSet(Noted) /\ Cardinality(Noted) = 0 /\ Len(notices) = 0
    BY <1>2, <1>3, FS_EmptySet
  <2> QED BY <1>2, <2>1 DEF Reported
<1> QED BY <1>1, <1>5, <1>6 DEF WrittenInv

LEMMA WrittenStays == ASSUME WrittenInv, UNCHANGED vars PROVE WrittenInv'
<1> USE DEF vars, WrittenInv
<1>1. RenderInv'
  BY InvNext
<1>2. Memory'
  BY SizesStay DEF Memory
<1>3. Ended'
  BY EndedStay
<1>4. Reported'
  <2>1. /\ Noted' = Noted /\ \A j : CellsCut(blocks[j])' = CellsCut(blocks[j])
        /\ \A j : (NoticeOf(blocks[j], shown[j].lines))' = NoticeOf(blocks[j], shown[j].lines)
    BY EndedStay
  <2>2. Left' = Left
    BY SizesStay
  <2> QED BY <2>1, <2>2 DEF Reported
<1> QED BY <1>1, <1>2, <1>3, <1>4

\* The invariant with what was written holds in every step of a rendering.
LEMMA WrittenNext == WrittenInv /\ [Next]_vars => WrittenInv'
<1> SUFFICES ASSUME WrittenInv, [Next]_vars PROVE WrittenInv'
  OBVIOUS
<1>1. ASSUME NEW bs \in Responses, NEW b \in Budgets, Markdown(bs, b) PROVE WrittenInv'
  BY <1>1, MarkdownWrites
<1>2. CASE BeginBlock
  BY <1>2, BeginBlockWrites
<1>3. CASE KeepLine
  BY <1>3, KeepLineWrites
<1>4. CASE EndBlock
  BY <1>4, EndBlockWrites
<1>5. CASE DropRest \/ Finish
  BY <1>5, EndWrites
<1>6. CASE UNCHANGED vars
  BY <1>6, WrittenStays
<1> QED BY <1>1, <1>2, <1>3, <1>4, <1>5, <1>6 DEF Next, Rendering

\* What was written of the blocks and what the notices say of it agree in every behaviour,
\* for any blocks and any budget.
THEOREM NoticesMatchBlocks == Spec => []WrittenInv
  BY WrittenInit, WrittenNext, PTL DEF Spec

------------------------------------------------------------------------------
(* What the readers hand over *)

\* Types of what the readers make, operator by operator.
LEMMA SourceType ==
    ASSUME source \in Sources
    PROVE  /\ source.results \in Seq(Results) /\ source.ended \in BOOLEAN
           /\ source.tool # "script" => /\ Len(source.results) = 1 /\ Result \in Results
                                        /\ Result.rows \in Seq(Values) /\ Len(Result.rows) <= MaxInt
<1>1. source \in [tool : Tools, results : Seq(Results), ended : BOOLEAN]
  BY AnswerAssumption
<1>2. source.tool # "script" => Len(source.results) = 1
  BY AnswerAssumption
<1>3. source.tool # "script" => Result \in Results
  BY <1>1, <1>2 DEF Result
<1> QED BY <1>1, <1>2, <1>3 DEF Results

LEMMA TextRowType ==
    ASSUME output \in Budgets, NEW v \in Values
    PROVE  /\ TextRow(v) \in Values
           /\ TextRow(v).written = v.written
           /\ \/ TextRow(v).runes = v.runes
              \/ output.cells > 0 /\ v.runes > output.cells /\ TextRow(v).runes > output.cells
<1>1. output.cells \in Nat /\ CellBytes = output.cells * 4 + 4
  BY DEF CellBytes, Budgets
<1>2. v.runes \in Nat /\ v.width \in 1..4 /\ v.written \in Nat /\ v.name \in STRING
  BY DEF Values
<1> DEFINE cut == (CellBytes \div v.width) + (CellBytes % v.width)
<1>3. cut \in Nat /\ cut > output.cells
  <2>1. CASE v.width = 1
    BY <1>1, <2>1
  <2>2. CASE v.width = 2
    BY <1>1, <2>2
  <2>3. CASE v.width = 3
    BY <1>1, <2>3
  <2>4. CASE v.width = 4
    BY <1>1, <2>4
  <2> QED BY <1>2, <2>1, <2>2, <2>3, <2>4
<1>4. v.runes * v.width > CellBytes => v.runes > output.cells
  <2>1. v.width = 1 \/ v.width = 2 \/ v.width = 3 \/ v.width = 4
    BY <1>2
  <2> QED BY <1>1, <1>2, <2>1
<1> HIDE DEF cut
<1>5. CASE output.cells > 0 /\ v.runes * v.width > CellBytes
  <2>1. TextRow(v) = [v EXCEPT !.runes = cut]
    BY <1>5 DEF TextRow, cut
  <2>2. TextRow(v) = [name |-> v.name, runes |-> cut, width |-> v.width, written |-> v.written]
    BY <2>1 DEF Values
  <2> QED BY <1>2, <1>3, <1>4, <1>5, <2>2 DEF Values
<1>6. CASE ~(output.cells > 0 /\ v.runes * v.width > CellBytes)
  <2>1. TextRow(v) = v
    BY <1>6 DEF TextRow
  <2> QED BY <2>1
<1> QED BY <1>5, <1>6

LEMMA TextRowsType ==
    ASSUME output \in Budgets, NEW rows \in Seq(Values)
    PROVE  /\ TextRows(rows) \in Seq(Values) /\ Len(TextRows(rows)) = Len(rows)
           /\ \A n \in 1..Len(rows) : TextRows(rows)[n] = TextRow(rows[n])
<1>1. \A n \in 1..Len(rows) : TextRow(rows[n]) \in Values
  BY TextRowType
<1>2. TextRows(rows) = [n \in 1..Len(rows) |-> TextRow(rows[n])] /\ Len(rows) \in Nat
  BY DEF TextRows
<1> QED BY <1>1, <1>2

LEMMA UptoType ==
    ASSUME NEW U, NEW rows \in Seq(U), NEW n \in Nat
    PROVE  /\ Upto(n, rows) \in Seq(U) /\ Len(rows) \in Nat
           /\ Len(Upto(n, rows)) = IF Len(rows) < n THEN Len(rows) ELSE n
           /\ \A i \in 1..Len(Upto(n, rows)) : i \in 1..Len(rows) /\ Upto(n, rows)[i] = rows[i]
<1> DEFINE k == IF Len(rows) < n THEN Len(rows) ELSE n
<1>1. k \in 0..Len(rows) /\ Len(rows) \in Nat
  OBVIOUS
<1>2. Upto(n, rows) = SubSeq(rows, 1, k)
  BY DEF Upto
<1> HIDE DEF k
<1>3. SubSeq(rows, 1, k) \in Seq(U) /\ Len(SubSeq(rows, 1, k)) = k /\ \A i \in 1..k : SubSeq(rows, 1, k)[i] = rows[i]
  BY <1>1
<1> QED BY <1>1, <1>2, <1>3 DEF k

\* What is fetched is a prefix: all there is, or one row past the budget.
LEMMA FetchedType ==
    ASSUME output \in Budgets, NEW rows \in Seq(Values)
    PROVE  /\ Fetched(rows) \in Seq(Values) /\ Len(rows) \in Nat /\ Len(Fetched(rows)) <= Len(rows)
           /\ \A i \in 1..Len(Fetched(rows)) : i \in 1..Len(rows) /\ Fetched(rows)[i] = rows[i]
           /\ \/ Len(Fetched(rows)) = Len(rows)
              \/ output.rows > 0 /\ Len(Fetched(rows)) = output.rows + 1
<1>1. output.rows \in Nat /\ output.rows + 1 \in Nat /\ Len(rows) \in Nat
  BY DEF Budgets
<1>2. CASE output.rows > 0
  BY <1>1, <1>2, UptoType DEF Fetched
<1>3. CASE ~(output.rows > 0)
  BY <1>1, <1>3 DEF Fetched
<1> QED BY <1>2, <1>3

LEMMA TableType ==
    ASSUME NEW rows \in Seq(Values), NEW total \in 0..MaxInt, NEW more \in BOOLEAN
    PROVE  /\ Table(rows, total, more) \in Shapes
           /\ TableRows(rows) \in Seq(Lines) /\ Len(TableRows(rows)) = Len(rows) /\ Len(rows) \in Nat
           /\ \A n \in 1..Len(rows) : TableRows(rows)[n] = TableRow(rows[n]) /\ TableRow(rows[n]) \in Lines
<1>1. \A n \in 1..Len(rows) : TableRow(rows[n]) \in Lines
  <2> SUFFICES ASSUME NEW n \in 1..Len(rows) PROVE TableRow(rows[n]) \in Lines
    OBVIOUS
  <2>1. rows[n] \in Values
    OBVIOUS
  <2> QED BY <2>1 DEF TableRow, Values, Lines
<1>2. TableRows(rows) = [n \in 1..Len(rows) |-> TableRow(rows[n])] /\ Len(rows) \in Nat
  BY DEF TableRows
<1>3. TableRows(rows) \in Seq(Lines) /\ Len(TableRows(rows)) = Len(rows)
  BY <1>1, <1>2
<1>4. Table(rows, total, more) \in Shapes
  BY <1>3 DEF Table, Shapes
<1> QED BY <1>1, <1>2, <1>3, <1>4

LEMMA PlainLinesType ==
    ASSUME NEW sizes \in Seq(Nat \ {0})
    PROVE  /\ PlainLines(sizes) \in Seq(Lines) /\ Len(PlainLines(sizes)) = Len(sizes) /\ Len(sizes) \in Nat
           /\ \A n \in 1..Len(sizes) : PlainLines(sizes)[n] = [fixed |-> sizes[n], runes |-> 0, written |-> 0]
<1>1. \A n \in 1..Len(sizes) : [fixed |-> sizes[n], runes |-> 0, written |-> 0] \in Lines
  <2> SUFFICES ASSUME NEW n \in 1..Len(sizes) PROVE [fixed |-> sizes[n], runes |-> 0, written |-> 0] \in Lines
    OBVIOUS
  <2>1. sizes[n] \in Nat \ {0}
    OBVIOUS
  <2> QED BY <2>1 DEF Lines
<1>2. PlainLines(sizes) = [n \in 1..Len(sizes) |-> [fixed |-> sizes[n], runes |-> 0, written |-> 0]] /\ Len(sizes) \in Nat
  BY DEF PlainLines
<1> QED BY <1>1, <1>2

LEMMA TextType ==
    ASSUME NEW sizes \in Seq(Nat \ {0})
    PROVE  Text(sizes) \in Shapes
  BY PlainLinesType, RenderAssumption DEF Text, Shapes

LEMMA CapType ==
    ASSUME output \in Budgets, NEW rows \in Seq(Values), Len(rows) <= MaxInt
    PROVE  Cap(rows) \in Shapes
<1>1. output.rows \in Nat /\ Len(rows) \in 0..MaxInt /\ 0 \in 0..MaxInt
  BY RenderAssumption DEF Budgets
<1>2. Upto(output.rows, rows) \in Seq(Values)
  BY <1>1, UptoType
<1> QED BY <1>1, <1>2, TableType DEF Cap

\* What passes is no longer than what there was.
LEMMA PassingShort ==
    ASSUME NEW U, NEW s \in Seq(U), NEW S
    PROVE  \A n \in 0..Len(s) : Len(Passing(s, S)[n]) \in 0..n /\ Passing(s, S)[n] \in Seq(U)
<1> DEFINE k == Len(s)
           left == Passing(s, S)
<1>1. /\ left \in [0..k -> Seq(U)] /\ left[0] = <<>>
      /\ \A n \in 1..k : left[n] = IF s[n] \in S THEN Append(left[n - 1], s[n]) ELSE left[n - 1]
  BY PassingLaw
<1>2. k \in Nat /\ \A n \in 1..k : s[n] \in U
  OBVIOUS
<1> HIDE DEF k, left
<1> DEFINE Brief == {n \in 0..k : Len(left[n]) \in 0..n}
<1>3. 0 \in Brief
  BY <1>1, <1>2
<1>4. \A n \in 1..k : n - 1 \in Brief => n \in Brief
  <2> SUFFICES ASSUME NEW n \in 1..k, n - 1 \in Brief PROVE n \in Brief
    OBVIOUS
  <2>1. n \in 0..k /\ n - 1 \in 0..k /\ n \in Nat /\ left[n - 1] \in Seq(U) /\ Len(left[n - 1]) \in 0..(n - 1) /\ s[n] \in U
    BY <1>1, <1>2
  <2>2. Len(left[n]) = Len(left[n - 1]) \/ Len(left[n]) = Len(left[n - 1]) + 1
    <3>1. left[n] = Append(left[n - 1], s[n]) \/ left[n] = left[n - 1]
      BY <1>1
    <3> QED BY <2>1, <3>1
  <2> QED BY <2>1, <2>2
<1>5. \A n \in 0..k : n \in Brief
  <2> HIDE DEF Brief
  <2> QED BY <1>2, <1>3, <1>4, UpTo
<1> QED BY <1>1, <1>5 DEF k, left

LEMMA ThoseType ==
    ASSUME NEW U, NEW s \in Seq(U), NEW S
    PROVE  Those(s, S) \in Seq(U) /\ Len(Those(s, S)) \in 0..Len(s)
<1>1. Len(s) \in 0..Len(s)
  OBVIOUS
<1> QED BY <1>1, PassingShort DEF Those

------------------------------------------------------------------------------
(* A plan *)

\* The lines of the plan that explain keeps.
Within == {n \in DOMAIN Result.rows : output.bytes = 0 \/ PlanBytes(Result.rows)[n - 1] < output.bytes}

LEMMA PlanLinesType ==
    ASSUME NEW rows \in Seq(Values)
    PROVE  /\ PlanLines(rows) \in Seq(Nat \ {0}) /\ PlanLines(rows) \in Seq(Nat)
           /\ Len(PlanLines(rows)) = Len(rows) /\ Len(rows) \in Nat
           /\ \A n \in 1..Len(rows) : PlanLines(rows)[n] = rows[n].runes * rows[n].width + 1
<1>1. \A n \in 1..Len(rows) : rows[n].runes * rows[n].width + 1 \in Nat \ {0}
  <2> SUFFICES ASSUME NEW n \in 1..Len(rows) PROVE rows[n].runes * rows[n].width + 1 \in Nat \ {0}
    OBVIOUS
  <2>1. rows[n] \in Values
    OBVIOUS
  <2>2. rows[n].runes * rows[n].width \in Nat
    BY <2>1, Product DEF Values
  <2> QED BY <2>2
<1>2. PlanLines(rows) = [n \in 1..Len(rows) |-> rows[n].runes * rows[n].width + 1] /\ Len(rows) \in Nat
  BY DEF PlanLines
<1>3. PlanLines(rows) \in Seq(Nat \ {0})
  BY <1>1, <1>2
<1>4. PlanLines(rows) \in Seq(Nat)
  BY <1>1, <1>2
<1> QED BY <1>2, <1>3, <1>4

\* A set of numbers up to k that has with each of them all before it ends at their count.
LEMMA FromOne ==
    ASSUME NEW k \in Nat, NEW W \in SUBSET (1..k), \A n \in W : \A m \in 1..n : m \in W
    PROVE  Cardinality(W) \in 0..k /\ W = 1..Cardinality(W)
<1>1. CASE W = 1..k
  <2>1. Cardinality(1..k) = k
    BY FS_Interval
  <2> QED BY <1>1, <2>1
<1>2. CASE W # 1..k
  <2> DEFINE Rest == (1..k) \ W
  <2>1. Rest \subseteq Nat /\ Rest # {}
    <3>1. Rest \subseteq Nat
      OBVIOUS
    <3>2. W \subseteq 1..k
      OBVIOUS
    <3>3. Rest # {}
      BY <1>2, <3>2, Zenon
    <3> QED BY <3>1, <3>3
  <2>2. \E x \in Rest : \A y \in Rest : ~(<<y, x>> \in OpToRel(<, Nat))
    <3> HIDE DEF Rest
    <3> QED BY <2>1, NatLessThanWellFounded, WFMin
  <2>3. PICK x \in Rest : \A y \in Rest : ~(<<y, x>> \in OpToRel(<, Nat))
    BY <2>2
  <2>4. \A y \in Rest : ~(y < x)
    BY <2>1, <2>3 DEF OpToRel
  <2>5. x \in 1..k /\ x \notin W /\ x - 1 \in 0..k
    <3>1. x \in 1..k /\ x \notin W
      OBVIOUS
    <3> QED BY <3>1
  <2>6. W = 1..(x - 1)
    <3>1. \A m \in 1..(x - 1) : m \in W
      BY <2>4, <2>5
    <3>2. \A m \in W : m \in 1..(x - 1)
      <4> SUFFICES ASSUME NEW m \in W PROVE m \in 1..(x - 1)
        OBVIOUS
      <4>1. m \in 1..k /\ ~(x \in 1..m)
        BY <2>5
      <4> QED BY <2>5, <4>1
    <3> QED BY <3>1, <3>2
  <2>7. Cardinality(1..(x - 1)) = x - 1
    BY <2>5, FS_Interval
  <2> QED BY <2>5, <2>6, <2>7
<1> QED BY <1>1, <1>2

LEMMA WithinType ==
    ASSUME source \in Sources, output \in Budgets, source.tool = "explain"
    PROVE  /\ Cardinality(Within) \in 0..Len(Result.rows) /\ Len(Result.rows) \in Nat
           /\ Cardinality(Within) < Len(Result.rows) =>
                output.bytes > 0 /\ PlanBytes(Result.rows)[Cardinality(Within)] >= output.bytes
<1> DEFINE rows == Result.rows
           w == PlanLines(rows)
           k == Len(rows)
<1>1. rows \in Seq(Values) /\ k \in Nat /\ DOMAIN rows = 1..k /\ output.bytes \in Nat
  BY SourceType DEF Budgets
<1>2. w \in Seq(Nat) /\ Len(w) = k
  BY <1>1, PlanLinesType
<1>3. Within = {n \in 1..k : output.bytes = 0 \/ Sums(w)[n - 1] < output.bytes}
  BY <1>1 DEF Within, PlanBytes
<1>4. PlanBytes(rows) = Sums(w)
  BY DEF PlanBytes
<1> HIDE DEF rows, w, k
<1>5. Sums(w) \in [0..k -> Nat]
  BY <1>2, SumsLaw
<1>6. \A n \in Within : \A m \in 1..n : m \in Within
  <2> SUFFICES ASSUME NEW n \in Within, NEW m \in 1..n PROVE m \in Within
    OBVIOUS
  <2>1. n \in 1..k /\ m \in 1..k /\ m - 1 \in 0..Len(w) /\ n - 1 \in (m - 1)..Len(w) /\ n - 1 \in 0..k
    BY <1>1, <1>2, <1>3
  <2>2. Sums(w)[m - 1] <= Sums(w)[n - 1]
    BY <1>2, <2>1, SumsGrow
  <2>3. Sums(w)[m - 1] \in Nat /\ Sums(w)[n - 1] \in Nat
    BY <1>2, <1>5, <2>1
  <2> QED BY <1>1, <1>3, <2>1, <2>2, <2>3
<1>7. Within \in SUBSET (1..k)
  BY <1>3
<1>8. Cardinality(Within) \in 0..k /\ Within = 1..Cardinality(Within)
  BY <1>1, <1>6, <1>7, FromOne
<1> DEFINE c == Cardinality(Within)
<1>9. c \in 0..k /\ c < k => output.bytes > 0 /\ Sums(w)[c] >= output.bytes
  <2> HIDE DEF c
  <2> SUFFICES ASSUME c \in 0..k, c < k PROVE output.bytes > 0 /\ Sums(w)[c] >= output.bytes
    OBVIOUS
  <2>1. c + 1 \in 1..k /\ c + 1 \notin Within /\ (c + 1) - 1 = c
    BY <1>1, <1>8 DEF c
  <2>2. ~(output.bytes = 0) /\ ~(Sums(w)[c] < output.bytes)
    BY <1>3, <2>1
  <2>3. Sums(w)[c] \in Nat
    BY <1>5
  <2> QED BY <1>1, <2>2, <2>3
<1> QED BY <1>1, <1>4, <1>8, <1>9 DEF k, rows

\* The lines of the block explain hands over are the first of the plan.
LEMMA PlannedType ==
    ASSUME source \in Sources, output \in Budgets, source.tool = "explain"
    PROVE  LET b == Planned[1]
           IN  /\ Planned = <<b>> /\ b \in Shapes
               /\ b.kind = "code" /\ b.frame = 12 /\ b.more = FALSE /\ b.total = Len(Result.rows)
               /\ Len(b.lines) = Cardinality(Within)
               /\ \A n \in 1..Len(b.lines) :
                    b.lines[n] = [fixed |-> PlanLines(Result.rows)[n], runes |-> 0, written |-> 0]
<1> DEFINE rows == Result.rows
           c == Cardinality(Within)
           up == Upto(c, rows)
           w == PlanLines(up)
           b == [kind |-> "code", frame |-> 12, more |-> FALSE, total |-> Len(rows), lines |-> PlainLines(w)]
<1>1. rows \in Seq(Values) /\ Len(rows) \in 0..MaxInt /\ Len(rows) \in Nat
  BY SourceType
<1>2. c \in 0..Len(rows) /\ c \in Nat
  BY <1>1, WithinType
<1>3. up \in Seq(Values) /\ Len(up) = c /\ \A n \in 1..c : n \in 1..Len(rows) /\ up[n] = rows[n]
  <2> HIDE DEF c, rows
  <2> QED BY <1>1, <1>2, UptoType
<1>4. Planned = <<b>>
  BY DEF Planned, Within
<1> HIDE DEF rows, c, up
<1>5. w \in Seq(Nat \ {0}) /\ Len(w) = c /\ \A n \in 1..c : w[n] = PlanLines(rows)[n]
  <2>1. w \in Seq(Nat \ {0}) /\ Len(w) = c /\ \A n \in 1..c : w[n] = up[n].runes * up[n].width + 1
    BY <1>3, PlanLinesType
  <2>2. \A n \in 1..Len(rows) : PlanLines(rows)[n] = rows[n].runes * rows[n].width + 1
    BY <1>1, PlanLinesType
  <2> QED BY <1>3, <2>1, <2>2
<1> HIDE DEF w
<1>6. PlainLines(w) \in Seq(Lines) /\ Len(PlainLines(w)) = c
      /\ \A n \in 1..c : PlainLines(w)[n] = [fixed |-> PlanLines(rows)[n], runes |-> 0, written |-> 0]
  BY <1>5, PlainLinesType
<1>7. b \in Shapes
  BY <1>1, <1>6 DEF Shapes
<1> QED BY <1>4, <1>6, <1>7 DEF rows, c

------------------------------------------------------------------------------
(* Reading *)

\* The results with columns among the first so many, and the table each becomes.
Columns       == {r \in MembersOf(source.results) : r.columns}
TablesRead(n) == Passing(source.results, Columns)[n]
Kept(r)       == Table(TextRows(Fetched(r.rows)), Len(r.rows), FALSE)

\* What the handler of the tool returns.
Handed ==
    \/ source.tool = "query" /\ blocks = Queried
    \/ source.tool = "tables" /\ blocks = Tabled
    \/ source.tool = "databases" /\ blocks = <<Cap(Listed(Result.rows))>>
    \/ source.tool = "explain" /\ blocks = Planned
    \/ source.tool = "status" /\ blocks = Status
    \/ source.tool = "script" /\ read = Len(source.results) /\ blocks = got \o Closing

\* How far the reading is, and what it hands to the rendering.
Reading ==
    /\ source \in Sources /\ output \in Outputs
    /\ read \in 0..Len(source.results)
    /\ got = [n \in DOMAIN TablesRead(read) |-> Kept(TablesRead(read)[n])]
    /\ phase = "idle" => ~failed
    /\ phase # "idle" => bud = output
    /\ phase # "idle" /\ ~failed => Handed

\* A plan is written whole lines at a time.
PlanWritten ==
    source.tool = "explain" /\ phase # "idle" /\ ~failed =>
      /\ phase = "lines" => text = 12 + PlanBytes(Result.rows)[kept]
      /\ \A j \in DOMAIN shown : shown[j].text = 12 + PlanBytes(Result.rows)[shown[j].lines]

AnswerInv == WrittenInv /\ Reading /\ PlanWritten

\* A config's output group is a budget.
LEMMA OutputType == output \in Outputs => output \in Budgets
  BY AnswerAssumption

\* A sequence of one block.
LEMMA OneBlock ==
    ASSUME NEW b \in Shapes
    PROVE  <<b>> \in Seq(Shapes) /\ Len(<<b>>) = 1 /\ <<b>>[1] = b
  OBVIOUS

LEMMA QueriedType ==
    ASSUME source \in Sources, output \in Outputs, source.tool = "query"
    PROVE  Queried \in Seq(Shapes)
<1>1. output \in Budgets /\ Result.rows \in Seq(Values) /\ Len(Result.rows) <= MaxInt /\ MaxInt \in Nat
  BY OutputType, SourceType, RenderAssumption
<1>2. Fetched(Result.rows) \in Seq(Values) /\ Len(Fetched(Result.rows)) <= Len(Result.rows) /\ Len(Result.rows) \in Nat
  BY <1>1, FetchedType
<1>3. TextRows(Fetched(Result.rows)) \in Seq(Values) /\ Len(TextRows(Fetched(Result.rows))) = Len(Fetched(Result.rows))
  BY <1>1, <1>2, TextRowsType
<1>4. Cap(TextRows(Fetched(Result.rows))) \in Shapes
  <2>1. Len(TextRows(Fetched(Result.rows))) <= MaxInt
    BY <1>1, <1>2, <1>3
  <2> QED BY <1>1, <1>3, <2>1, CapType
<1>5. Text(<<34>>) \in Shapes
  <2>1. <<34>> \in Seq(Nat \ {0})
    OBVIOUS
  <2> QED BY <2>1, TextType
<1> QED BY <1>4, <1>5, OneBlock DEF Queried

LEMMA TabledType ==
    ASSUME source \in Sources, output \in Outputs, source.tool = "tables"
    PROVE  Tabled \in Seq(Shapes)
<1>1. output \in Budgets /\ Result.rows \in Seq(Values) /\ Len(Result.rows) <= MaxInt /\ MaxInt \in Nat
  BY OutputType, SourceType, RenderAssumption
<1>2. Fetched(Result.rows) \in Seq(Values) /\ Len(Fetched(Result.rows)) <= Len(Result.rows) /\ Len(Result.rows) \in Nat
  BY <1>1, FetchedType
<1>3. Len(Fetched(Result.rows)) <= MaxInt
  BY <1>1, <1>2
<1>4. Cap(Fetched(Result.rows)) \in Shapes
  BY <1>1, <1>2, <1>3, CapType
<1> QED BY <1>4, OneBlock DEF Tabled

LEMMA ListedType ==
    ASSUME source \in Sources, output \in Outputs, source.tool = "databases"
    PROVE  <<Cap(Listed(Result.rows))>> \in Seq(Shapes)
<1>1. output \in Budgets /\ Result.rows \in Seq(Values) /\ Len(Result.rows) <= MaxInt /\ MaxInt \in Nat
  BY OutputType, SourceType, RenderAssumption
<1> DEFINE those == Those(Result.rows, Accepted(Result.rows))
<1>2. those \in Seq(Values) /\ Len(those) \in 0..Len(Result.rows)
  BY <1>1, ThoseType
<1> HIDE DEF those
<1>3. Fetched(those) \in Seq(Values) /\ Len(Fetched(those)) <= Len(those) /\ Len(those) \in Nat
  BY <1>1, <1>2, FetchedType
<1>4. Len(Fetched(those)) <= MaxInt
  BY <1>1, <1>2, <1>3
<1>5. Cap(Fetched(those)) \in Shapes
  BY <1>1, <1>3, <1>4, CapType
<1> QED BY <1>5, OneBlock DEF Listed, those

\* The ten pairs of the core's status.
Pairs == <<17, 24, 12, 17, 15, 9, 24, 12, 16, 18>>

LEMMA StatusType ==
    ASSUME source \in Sources, output \in Outputs, source.tool = "status"
    PROVE  /\ Status \in Seq(Shapes) /\ Len(Status) \in {1, 2}
           /\ Status[1] = [kind |-> "pairs", frame |-> 0, total |-> 0, more |-> FALSE, lines |-> PlainLines(Pairs)]
           /\ Len(Status) = 2 => Status[2] = Table(Result.rows, Len(Result.rows), FALSE)
<1>1. Result.rows \in Seq(Values) /\ Len(Result.rows) \in 0..MaxInt /\ 0 \in 0..MaxInt
  BY SourceType, RenderAssumption
<1> DEFINE p == [kind |-> "pairs", frame |-> 0, total |-> 0, more |-> FALSE, lines |-> PlainLines(Pairs)]
           t == Table(Result.rows, Len(Result.rows), FALSE)
<1>2. PlainLines(Pairs) \in Seq(Lines)
  <2>1. Pairs \in Seq(Nat \ {0})
    BY DEF Pairs
  <2> QED BY <2>1, PlainLinesType
<1>3. p \in Shapes
  BY <1>1, <1>2 DEF Shapes
<1>4. t \in Shapes
  BY <1>1, TableType
<1>5. Status = <<p>> \o (IF Result.rows = <<>> THEN <<>> ELSE <<t>>)
  BY DEF Status, Pairs
<1> HIDE DEF p, t
<1>6. /\ Status \in Seq(Shapes) /\ Len(Status) \in {1, 2} /\ Status[1] = p
      /\ Len(Status) = 2 => Status[2] = t
  <2>1. CASE Result.rows = <<>>
    BY <1>3, <1>5, <2>1
  <2>2. CASE Result.rows # <<>>
    BY <1>3, <1>4, <1>5, <2>2
  <2> QED BY <2>1, <2>2
<1> QED BY <1>6 DEF p, t

\* Every result of a script that was read and has columns is a table of the answer.
LEMMA TablesReadType ==
    ASSUME source \in Sources
    PROVE  /\ \A n \in 0..Len(source.results) :
                TablesRead(n) \in Seq(Results) /\ Len(TablesRead(n)) \in Nat /\ DOMAIN TablesRead(n) = 1..Len(TablesRead(n))
           /\ TablesRead(0) = <<>>
           /\ \A n \in 1..Len(source.results) :
                TablesRead(n) = IF source.results[n].columns THEN Append(TablesRead(n - 1), source.results[n])
                                ELSE TablesRead(n - 1)
<1>1. source.results \in Seq(Results)
  BY SourceType
<1> DEFINE s == source.results
           S == Columns
<1>2. \A n \in 1..Len(s) : s[n] \in S <=> s[n].columns
  BY <1>1 DEF Columns, MembersOf
<1>3. \A n : TablesRead(n) = Passing(s, S)[n]
  BY DEF TablesRead
<1> HIDE DEF s, S
<1>4. s \in Seq(Results)
  BY <1>1 DEF s
<1>5. /\ Passing(s, S) \in [0..Len(s) -> Seq(Results)]
      /\ Passing(s, S)[0] = <<>>
      /\ \A n \in 1..Len(s) :
           Passing(s, S)[n] = IF s[n] \in S THEN Append(Passing(s, S)[n - 1], s[n]) ELSE Passing(s, S)[n - 1]
  BY <1>4, PassingLaw
<1>6. \A n \in 0..Len(s) : TablesRead(n) \in Seq(Results)
  BY <1>3, <1>5
<1>7. \A n \in 1..Len(s) : TablesRead(n) = IF s[n].columns THEN Append(TablesRead(n - 1), s[n]) ELSE TablesRead(n - 1)
  BY <1>2, <1>3, <1>5
<1>8. TablesRead(0) = <<>>
  BY <1>3, <1>5
<1> QED BY <1>6, <1>7, <1>8 DEF s

LEMMA KeptType ==
    ASSUME output \in Outputs, NEW r \in Results
    PROVE  Kept(r) \in Shapes
<1>1. output \in Budgets /\ r.rows \in Seq(Values) /\ Len(r.rows) \in 0..MaxInt
  BY OutputType, RenderAssumption DEF Results
<1>2. Fetched(r.rows) \in Seq(Values)
  BY <1>1, FetchedType
<1>3. TextRows(Fetched(r.rows)) \in Seq(Values)
  BY <1>1, <1>2, TextRowsType
<1> QED BY <1>1, <1>3, TableType DEF Kept

LEMMA GotType ==
    ASSUME Reading
    PROVE  /\ got \in Seq(Shapes) /\ Len(got) = Len(TablesRead(read)) /\ Len(got) \in Nat
           /\ \A n \in 1..Len(got) : got[n] = Kept(TablesRead(read)[n]) /\ TablesRead(read)[n] \in Results
<1> DEFINE T == TablesRead(read)
<1>1. T \in Seq(Results) /\ Len(T) \in Nat /\ DOMAIN T = 1..Len(T)
  BY TablesReadType DEF Reading
<1>2. got = [n \in DOMAIN T |-> Kept(T[n])]
  BY DEF Reading
<1> HIDE DEF T
<1>3. \A n \in 1..Len(T) : T[n] \in Results
  BY <1>1
<1>4. \A n \in 1..Len(T) : Kept(T[n]) \in Shapes
  BY <1>3, KeptType DEF Reading
<1>5. got \in Seq(Shapes) /\ Len(got) = Len(T) /\ \A n \in 1..Len(T) : got[n] = Kept(T[n])
  BY <1>1, <1>2, <1>4
<1> QED BY <1>1, <1>3, <1>5 DEF T

LEMMA ClosingType ==
    ASSUME source \in Sources
    PROVE  /\ Closing \in Seq(Shapes) /\ Len(Closing) \in {1, 2}
           /\ \A n \in 1..Len(Closing) : \E sizes \in Seq(Nat \ {0}) : Closing[n] = Text(sizes)
<1>1. source.results \in Seq(Results) /\ source.ended \in BOOLEAN
  BY SourceType
<1>2. Tags \in Seq(Nat \ {0})
  BY <1>1 DEF Tags
<1>3. <<177>> \in Seq(Nat \ {0})
  OBVIOUS
<1> DEFINE e == Text(<<177>>)
           t == Text(Tags)
<1>4. e \in Shapes /\ t \in Shapes
  BY <1>2, <1>3, TextType
<1>5. Closing = (IF source.ended THEN <<e>> ELSE <<>>) \o <<t>>
  BY DEF Closing
<1>6. \E sizes \in Seq(Nat \ {0}) : e = Text(sizes)
  BY <1>3
<1>7. \E sizes \in Seq(Nat \ {0}) : t = Text(sizes)
  BY <1>2
<1> HIDE DEF e, t
<1>8. CASE source.ended
  <2>1. Closing = <<e>> \o <<t>>
    BY <1>5, <1>8
  <2>2. Len(Closing) = 2 /\ Closing[1] = e /\ Closing[2] = t /\ Closing \in Seq(Shapes)
    BY <1>4, <2>1
  <2> QED BY <1>6, <1>7, <2>2
<1>9. CASE ~source.ended
  <2>1. Closing = <<>> \o <<t>>
    BY <1>5, <1>9
  <2>2. Len(Closing) = 1 /\ Closing[1] = t /\ Closing \in Seq(Shapes)
    BY <1>4, <2>1
  <2> QED BY <1>7, <2>2
<1> QED BY <1>8, <1>9

------------------------------------------------------------------------------
(* Every step *)

\* Whatever a handler returns is a response, and its budget is one of the config.
LEMMA RespondRenders ==
    ASSUME NEW bs, bs \in Seq(Shapes), output \in Outputs, Markdown(bs, output)
    PROVE  \E cs \in Responses, b \in Budgets : Markdown(cs, b)
<1>1. InMemory(bs)
  BY DEF Markdown
<1>2. bs \in Responses
  BY <1>1, InMemoryFits
<1> QED BY <1>2, OutputType

LEMMA ExecutedType ==
    ASSUME Reading
    PROVE  got \o Closing \in Seq(Shapes)
<1>1. got \in Seq(Shapes)
  BY GotType
<1>2. Closing \in Seq(Shapes)
  BY ClosingType DEF Reading
<1> QED BY <1>1, <1>2

\* The answer to a failure is one text.
LEMMA FailureType == <<Text(<<60, 90>>)>> \in Seq(Shapes)
<1>1. <<60, 90>> \in Seq(Nat \ {0})
  OBVIOUS
<1> QED BY <1>1, TextType, OneBlock

LEMMA AnswerStep == ASSUME Reading, [AnswerNext]_<<vars, reading>> PROVE [Next]_vars
<1> USE DEF Reading
<1>1. CASE RunQuery
  BY <1>1, QueriedType, RespondRenders DEF RunQuery, Respond, Next
<1>2. CASE ListTables
  BY <1>2, TabledType, RespondRenders DEF ListTables, Respond, Next
<1>3. CASE ListDatabases
  BY <1>3, ListedType, RespondRenders DEF ListDatabases, Respond, Next
<1>4. CASE Explain
  <2>1. source.tool = "explain" /\ Markdown(Planned, output)
    BY <1>4 DEF Explain, Respond
  <2>2. Planned \in Seq(Shapes)
    BY <2>1, OutputType, PlannedType, OneBlock
  <2> QED BY <2>1, <2>2, RespondRenders DEF Next
<1>5. CASE ReadStatus
  BY <1>5, StatusType, RespondRenders DEF ReadStatus, Respond, Next
<1>6. CASE ReadResult
  BY <1>6 DEF ReadResult
<1>7. CASE Execute
  BY <1>7, ExecutedType, RespondRenders DEF Execute, Respond, Next
<1>8. CASE Fails
  BY <1>8, FailureType, RespondRenders DEF Fails, Next
<1>9. CASE Rendering /\ UNCHANGED reading
  BY <1>9 DEF Next
<1>10. CASE UNCHANGED <<vars, reading>>
  BY <1>10
<1> QED BY <1>1, <1>2, <1>3, <1>4, <1>5, <1>6, <1>7, <1>8, <1>9, <1>10 DEF AnswerNext

\* What the readers make of a source depends on nothing else.
LEMMA ReadersStay ==
    ASSUME UNCHANGED reading
    PROVE  /\ Queried' = Queried /\ Tabled' = Tabled /\ Cap(Listed(Result.rows))' = Cap(Listed(Result.rows))
           /\ Planned' = Planned /\ Status' = Status /\ Closing' = Closing
           /\ [n \in DOMAIN TablesRead(read) |-> Kept(TablesRead(read)[n])]'
                = [n \in DOMAIN TablesRead(read) |-> Kept(TablesRead(read)[n])]
<1> USE DEF reading
<1>1. Queried' = Queried
  BY DEF Queried, Cap, TextRows, TextRow, CellBytes, Fetched, Result
<1>2. Tabled' = Tabled
  BY DEF Tabled, Cap, Fetched, Result
<1>3. Cap(Listed(Result.rows))' = Cap(Listed(Result.rows))
  BY DEF Cap, Listed, Fetched, Accepted, ResolveDatabase, Matches, Result
<1>4. Planned' = Planned
  BY DEF Planned, Result
<1>5. Status' = Status
  BY DEF Status, Result
<1>6. Closing' = Closing
  BY DEF Closing, Tags
<1>7. TablesRead(read)' = TablesRead(read)
  BY DEF TablesRead, Columns, MembersOf
<1>8. \A r : Kept(r)' = Kept(r)
  BY DEF Kept, TextRows, TextRow, CellBytes, Fetched
<1>9. [n \in DOMAIN TablesRead(read) |-> Kept(TablesRead(read)[n])]'
        = [n \in DOMAIN TablesRead(read) |-> Kept(TablesRead(read)[n])]
  BY <1>7, <1>8
<1> QED BY <1>1, <1>2, <1>3, <1>4, <1>5, <1>6, <1>9

\* What is read and handed over stays, once the rendering has it.
LEMMA ReadingStays ==
    ASSUME Reading, UNCHANGED reading, bud' = bud, blocks' = blocks, phase # "idle", phase' # "idle"
    PROVE  Reading'
<1>1. Handed => Handed'
  BY ReadersStay DEF Handed, reading
<1> QED BY <1>1, ReadersStay DEF Reading, reading

\* A handler that returns hands its blocks over.
LEMMA ReadingHands ==
    ASSUME Reading, UNCHANGED reading, phase' = "blocks", bud' = output, failed \/ Handed'
    PROVE  Reading'
  BY ReadersStay DEF Reading, reading

\* One more result of a script keeps what is known of the reading.
LEMMA ReadingReads == ASSUME Reading, ReadResult PROVE Reading'
<1> USE DEF ReadResult
<1>1. source \in Sources /\ source' = source /\ output' = output /\ output \in Outputs
  BY DEF Reading
<1>2. PICK k \in Nat : k = read
  BY SourceType DEF Reading
<1>3. PICK r \in Results : r = source.results[k + 1] /\ read' = k + 1
  BY <1>1, <1>2, SourceType DEF Reading
<1>4. k + 1 \in 1..Len(source.results) /\ read' \in 0..Len(source.results') /\ (k + 1) - 1 = k /\ k \in 0..Len(source.results)
  BY <1>1, <1>2, <1>3, SourceType DEF Reading
<1> DEFINE T == TablesRead(k)
           U == TablesRead(k + 1)
<1>5. T \in Seq(Results) /\ DOMAIN T = 1..Len(T) /\ Len(T) \in Nat
  BY <1>1, <1>4, TablesReadType
<1>6. U = IF r.columns THEN Append(T, r) ELSE T
  BY <1>1, <1>3, <1>4, TablesReadType
<1>7. got = [n \in 1..Len(T) |-> Kept(T[n])]
  BY <1>2, <1>5 DEF Reading
<1>8. Returned(r) = IF r.columns THEN <<Kept(r)>> ELSE <<>>
  BY DEF Returned, Kept
<1>9. got' = got \o Returned(r)
  BY <1>2, <1>3
<1> HIDE DEF T, U
<1>10. \A n \in 1..Len(T) : Kept(T[n]) \in Shapes
  BY <1>1, <1>5, KeptType
<1>11. Kept(r) \in Shapes
  BY <1>1, KeptType
<1>12. got \in Seq(Shapes) /\ Len(got) = Len(T)
  BY <1>5, <1>7, <1>10
<1>13. got' = [n \in DOMAIN U |-> Kept(U[n])]
  <2>1. CASE r.columns
    <3>1. U = Append(T, r) /\ got' = got \o <<Kept(r)>>
      BY <1>6, <1>8, <1>9, <2>1
    <3>2. DOMAIN U = 1..(Len(T) + 1) /\ U[Len(T) + 1] = r /\ \A n \in 1..Len(T) : U[n] = T[n]
      BY <1>5, <3>1
    <3>3. /\ DOMAIN got' = 1..(Len(T) + 1) /\ got'[Len(T) + 1] = Kept(r)
          /\ \A n \in 1..Len(T) : got'[n] = got[n]
          /\ got' \in Seq(Shapes)
      BY <1>5, <1>11, <1>12, <3>1
    <3>4. \A n \in 1..(Len(T) + 1) : n \in 1..Len(T) \/ n = Len(T) + 1
      BY <1>5
    <3>5. \A n \in 1..(Len(T) + 1) : got'[n] = Kept(U[n])
      BY <1>7, <3>2, <3>3, <3>4
    <3>6. got' = [n \in DOMAIN got' |-> got'[n]]
      BY <3>3
    <3> QED BY <3>2, <3>3, <3>5, <3>6
  <2>2. CASE ~r.columns
    <3>1. U = T /\ got' = got \o <<>>
      BY <1>6, <1>8, <1>9, <2>2
    <3>2. got' = got
      BY <1>12, <3>1
    <3> QED BY <1>5, <1>7, <3>1, <3>2
  <2> QED BY <2>1, <2>2
<1>14. TablesRead(read)' = U
  BY <1>1, <1>3 DEF TablesRead, Columns, MembersOf, U
<1>15. \A q : Kept(q)' = Kept(q)
  BY <1>1 DEF Kept, TextRows, TextRow, CellBytes, Fetched
<1>16. got' = [n \in DOMAIN TablesRead(read)' |-> Kept(TablesRead(read)[n])']
  BY <1>13, <1>14, <1>15
<1>17. phase' = "idle" /\ ~failed'
  BY DEF Reading, vars
<1> QED BY <1>1, <1>4, <1>16, <1>17 DEF Reading

LEMMA ReadingNext == ASSUME Reading, [AnswerNext]_<<vars, reading>> PROVE Reading'
<1>1. CASE RunQuery
  <2>1. source.tool = "query" /\ Markdown(Queried, output) /\ UNCHANGED reading
    BY <1>1 DEF RunQuery, Respond
  <2>2. Handed'
    BY <2>1, ReadersStay DEF Handed, Markdown, reading
  <2> QED BY <2>1, <2>2, ReadingHands DEF Markdown
<1>2. CASE ListTables
  <2>1. source.tool = "tables" /\ Markdown(Tabled, output) /\ UNCHANGED reading
    BY <1>2 DEF ListTables, Respond
  <2>2. Handed'
    BY <2>1, ReadersStay DEF Handed, Markdown, reading
  <2> QED BY <2>1, <2>2, ReadingHands DEF Markdown
<1>3. CASE ListDatabases
  <2>1. source.tool = "databases" /\ Markdown(<<Cap(Listed(Result.rows))>>, output) /\ UNCHANGED reading
    BY <1>3 DEF ListDatabases, Respond
  <2>2. Handed'
    BY <2>1, ReadersStay DEF Handed, Markdown, reading
  <2> QED BY <2>1, <2>2, ReadingHands DEF Markdown
<1>4. CASE Explain
  <2>1. source.tool = "explain" /\ Markdown(Planned, output) /\ UNCHANGED reading
    BY <1>4 DEF Explain, Respond
  <2>2. Handed'
    BY <2>1, ReadersStay DEF Handed, Markdown, reading
  <2> QED BY <2>1, <2>2, ReadingHands DEF Markdown
<1>5. CASE ReadStatus
  <2>1. source.tool = "status" /\ Markdown(Status, output) /\ UNCHANGED reading
    BY <1>5 DEF ReadStatus, Respond
  <2>2. Handed'
    BY <2>1, ReadersStay DEF Handed, Markdown, reading
  <2> QED BY <2>1, <2>2, ReadingHands DEF Markdown
<1>6. CASE ReadResult
  BY <1>6, ReadingReads
<1>7. CASE Execute
  <2>1. source.tool = "script" /\ read = Len(source.results) /\ Markdown(got \o Closing, output) /\ UNCHANGED reading
    BY <1>7 DEF Execute, Respond
  <2>2. Handed'
    BY <2>1, ReadersStay DEF Handed, Markdown, reading
  <2> QED BY <2>1, <2>2, ReadingHands DEF Markdown
<1>8. CASE Fails
  <2>1. /\ failed' = TRUE /\ phase' = "blocks" /\ bud' = output
        /\ source' = source /\ output' = output /\ got' = got /\ read' = read
    BY <1>8 DEF Fails, Markdown
  <2>2. TablesRead(read)' = TablesRead(read)
    BY <2>1 DEF TablesRead, Columns, MembersOf
  <2>3. \A r : Kept(r)' = Kept(r)
    BY <2>1 DEF Kept, TextRows, TextRow, CellBytes, Fetched
  <2>4. got' = [n \in DOMAIN TablesRead(read)' |-> Kept(TablesRead(read)[n])']
    BY <2>1, <2>2, <2>3 DEF Reading
  <2> QED BY <2>1, <2>4 DEF Reading
<1>9. CASE Rendering /\ UNCHANGED reading
  <2>1. bud' = bud /\ blocks' = blocks /\ phase # "idle" /\ phase' # "idle"
    BY <1>9 DEF Rendering, BeginBlock, KeepLine, EndBlock, DropRest, Finish
  <2> QED BY <1>9, <2>1, ReadingStays
<1>10. CASE UNCHANGED <<vars, reading>>
  <2>1. CASE phase = "idle"
    BY <1>10, <2>1, ReadersStay DEF Reading, vars, reading
  <2>2. CASE phase # "idle"
    BY <1>10, <2>2, ReadingStays DEF vars
  <2> QED BY <2>1, <2>2
<1> QED BY <1>1, <1>2, <1>3, <1>4, <1>5, <1>6, <1>7, <1>8, <1>9, <1>10 DEF AnswerNext

\* One block is a plan, and its lines are the first of all there are.
LEMMA PlanInHand ==
    ASSUME Reading, PlanWritten, WrittenInv, source.tool = "explain", phase = "lines", ~failed
    PROVE  /\ Current = Planned[1] /\ Current.frame = 12 /\ kept \in Nat
           /\ Rows(Current) = Cardinality(Within) /\ Rows(Current) \in 0..Len(Result.rows)
           /\ Sums(PlanLines(Result.rows))[0] = 0
           /\ \A n \in 1..Rows(Current) :
                /\ Bytes(Current, Current.lines[n]) = PlanLines(Result.rows)[n]
                /\ PlanBytes(Result.rows)[n] = PlanBytes(Result.rows)[n - 1] + PlanLines(Result.rows)[n]
                /\ PlanBytes(Result.rows)[n - 1] \in Nat /\ PlanLines(Result.rows)[n] \in Nat
<1>1. source \in Sources /\ output \in Budgets /\ blocks = Planned
  BY OutputType DEF Reading, Handed
<1> DEFINE b == Planned[1]
           w == PlanLines(Result.rows)
<1>2. /\ Planned = <<b>> /\ b.kind = "code" /\ b.frame = 12 /\ Len(b.lines) = Cardinality(Within)
      /\ \A n \in 1..Len(b.lines) : b.lines[n] = [fixed |-> w[n], runes |-> 0, written |-> 0]
  BY <1>1, PlannedType
<1>3. Cardinality(Within) \in 0..Len(Result.rows) /\ Result.rows \in Seq(Values)
  BY <1>1, WithinType, SourceType
<1>4. w \in Seq(Nat) /\ Len(w) = Len(Result.rows) /\ Len(w) \in Nat
  BY <1>3, PlanLinesType
<1>5. PlanBytes(Result.rows) = Sums(w)
  BY DEF PlanBytes
<1> HIDE DEF b, w
<1>6. Current = b
  <2>1. Len(shown) < Len(blocks) /\ Len(shown) \in Nat
    BY DEF WrittenInv, RenderInv, Progress, TypeOK
  <2>2. Len(blocks) = 1
    BY <1>1, <1>2
  <2>3. Len(shown) = 0 /\ Len(shown) + 1 = 1
    BY <2>1, <2>2
  <2> QED BY <1>1, <2>3 DEF Current, b
<1>7. Rows(Current) = Len(b.lines)
  BY <1>2, <1>6 DEF Rows
<1>8. /\ Sums(w) \in [0..Len(w) -> Nat] /\ Sums(w)[0] = 0
      /\ \A n \in 1..Len(w) : Sums(w)[n] = Sums(w)[n - 1] + w[n]
  BY <1>4, SumsLaw
<1>9. ASSUME NEW n \in 1..Rows(Current)
      PROVE  /\ Bytes(Current, Current.lines[n]) = w[n]
             /\ Sums(w)[n] = Sums(w)[n - 1] + w[n] /\ Sums(w)[n - 1] \in Nat /\ w[n] \in Nat
  <2>1. n \in 1..Len(w) /\ n - 1 \in 0..Len(w) /\ n \in 1..Len(b.lines)
    BY <1>2, <1>3, <1>4, <1>7
  <2>2. w[n] \in Nat
    BY <1>4, <2>1
  <2>3. b.lines[n] = [fixed |-> w[n], runes |-> 0, written |-> 0] /\ ~Cut(b, b.lines[n])
    BY <1>2, <2>1 DEF Cut
  <2>4. Bytes(b, b.lines[n]) = w[n] + 0 * 0
    BY <2>3 DEF Bytes
  <2> QED BY <1>6, <1>8, <2>1, <2>2, <2>4
<1>10. kept \in Nat
  BY DEF WrittenInv, RenderInv, TypeOK
<1> QED BY <1>2, <1>3, <1>5, <1>6, <1>7, <1>8, <1>9, <1>10 DEF w, b

\* A plan is written whole lines at a time, from behind its fence.
LEMMA PlanNext ==
    ASSUME Reading, PlanWritten, WrittenInv, [AnswerNext]_<<vars, reading>>, WrittenInv', Reading'
    PROVE  PlanWritten'
<1> SUFFICES ASSUME source'.tool = "explain", phase' # "idle", ~failed'
             PROVE  PlanWritten'
  BY DEF PlanWritten
<1>1. CASE UNCHANGED <<vars, reading>>
  BY <1>1 DEF PlanWritten, vars, reading, Result
<1>2. CASE phase = "idle" /\ phase' = "blocks"
  <2>1. shown' = shown \/ UNCHANGED vars
    BY <1>2 DEF AnswerNext, RunQuery, ListTables, ListDatabases, Explain, ReadStatus, ReadResult, Execute, Fails, Respond,
         Markdown, Rendering, BeginBlock, KeepLine, EndBlock, DropRest, Finish
  <2>2. shown = <<>>
    BY <1>2 DEF WrittenInv, RenderInv, Progress
  <2>3. shown' = <<>>
    BY <2>1, <2>2 DEF vars
  <2> QED BY <1>2, <2>3 DEF PlanWritten
<1>3. ASSUME Rendering, UNCHANGED reading PROVE PlanWritten'
  <2>1. /\ source' = source /\ failed' = failed /\ Result' = Result /\ phase # "idle"
        /\ source.tool = "explain" /\ ~failed
    BY <1>3 DEF reading, Result, Rendering, BeginBlock, KeepLine, EndBlock, DropRest, Finish
  <2>2. \A j \in DOMAIN shown : shown[j].text = 12 + PlanBytes(Result.rows)[shown[j].lines]
    BY <2>1 DEF PlanWritten
  <2>3. CASE BeginBlock
    <3>1. text' = Current.frame /\ kept' = 0 /\ shown' = shown /\ phase' = "lines"
      BY <2>3 DEF BeginBlock
    <3>2. Current.frame = 12 /\ PlanBytes(Result.rows)[0] = 0
      <4>1. blocks = Planned /\ source \in Sources /\ output \in Budgets
        BY <2>1, OutputType DEF Reading, Handed
      <4>2. Len(shown) = 0
        <5>1. Len(blocks) = 1
          BY <2>1, <4>1, PlannedType
        <5>2. Len(shown) < Len(blocks) /\ Len(shown) \in Nat
          BY <2>3, <5>1 DEF BeginBlock, Left, WrittenInv, RenderInv, TypeOK
        <5> QED BY <5>1, <5>2
      <4>3. Current = Planned[1]
        BY <4>1, <4>2 DEF Current
      <4>4. Planned[1].frame = 12
        BY <2>1, <4>1, PlannedType
      <4>5. Sums(PlanLines(Result.rows))[0] = 0
        <5>1. PlanLines(Result.rows) \in Seq(Nat)
          BY <2>1, <4>1, SourceType, PlanLinesType
        <5> QED BY <5>1, SumsLaw
      <4> QED BY <4>3, <4>4, <4>5 DEF PlanBytes
    <3> QED BY <2>1, <2>2, <3>1, <3>2 DEF PlanWritten
  <2>4. CASE KeepLine
    <3>1. phase = "lines" /\ phase' = "lines" /\ shown' = shown /\ kept' = kept + 1
          /\ text' = text + Bytes(Current, Current.lines[kept + 1]) /\ kept < Rows(Current)
      BY <2>4 DEF KeepLine, Fits
    <3>2. text = 12 + PlanBytes(Result.rows)[kept]
      BY <2>1, <3>1 DEF PlanWritten
    <3>3. kept \in Nat /\ Rows(Current) \in Nat
      BY <2>1, <3>1, PlanInHand
    <3>4. kept + 1 \in 1..Rows(Current) /\ (kept + 1) - 1 = kept
      BY <3>1, <3>3
    <3>5. /\ Bytes(Current, Current.lines[kept + 1]) = PlanLines(Result.rows)[kept + 1]
          /\ PlanBytes(Result.rows)[kept + 1] = PlanBytes(Result.rows)[kept] + PlanLines(Result.rows)[kept + 1]
          /\ PlanBytes(Result.rows)[kept] \in Nat /\ PlanLines(Result.rows)[kept + 1] \in Nat
      BY <2>1, <3>1, <3>4, PlanInHand
    <3>6. text' = 12 + PlanBytes(Result.rows)[kept']
      BY <3>1, <3>2, <3>5
    <3> QED BY <2>1, <2>2, <3>1, <3>6 DEF PlanWritten
  <2>5. CASE EndBlock
    <3>1. phase = "lines" /\ phase' = "blocks" /\ shown' = Append(shown, [lines |-> kept, text |-> text, room |-> rem])
      BY <2>5 DEF EndBlock
    <3>2. text = 12 + PlanBytes(Result.rows)[kept]
      BY <2>1, <3>1 DEF PlanWritten
    <3> DEFINE done == [lines |-> kept, text |-> text, room |-> rem]
    <3>3. shown \in Seq([lines : 0..MaxInt, text : Nat, room : Int]) /\ done.lines = kept /\ done.text = text
      BY DEF WrittenInv, RenderInv, TypeOK
    <3> HIDE DEF done
    <3>4. shown' = Append(shown, done)
      BY <3>1 DEF done
    <3>5. ASSUME NEW j \in DOMAIN shown' PROVE shown'[j].text = 12 + PlanBytes(Result.rows)[shown'[j].lines]
      <4>1. (j \in DOMAIN shown /\ shown'[j] = shown[j]) \/ shown'[j] = done
        BY <3>3, <3>4, <3>5
      <4> QED BY <2>2, <3>2, <3>3, <4>1
    <3> QED BY <2>1, <3>1, <3>5 DEF PlanWritten
  <2>6. CASE DropRest \/ Finish
    <3>1. shown' = shown /\ phase' = "done"
      BY <2>6 DEF DropRest, Finish
    <3> QED BY <2>1, <2>2, <3>1 DEF PlanWritten
  <2> QED BY <1>3, <2>3, <2>4, <2>5, <2>6 DEF Rendering
<1>4. \/ UNCHANGED <<vars, reading>> \/ (phase = "idle" /\ phase' = "blocks")
      \/ (Rendering /\ UNCHANGED reading) \/ phase' = "idle"
  BY DEF AnswerNext, RunQuery, ListTables, ListDatabases, Explain, ReadStatus, ReadResult, Execute, Fails, Respond,
         Markdown, vars
<1> QED BY <1>1, <1>2, <1>3, <1>4

LEMMA AnswerInvInit == AnswerInit => AnswerInv
<1> SUFFICES ASSUME AnswerInit PROVE AnswerInv
  OBVIOUS
<1>1. WrittenInv
  BY WrittenInit DEF AnswerInit
<1>2. Reading
  <2>1. source \in Sources /\ output \in Outputs /\ got = <<>> /\ read = 0 /\ failed = FALSE /\ phase = "idle"
    BY DEF AnswerInit, Init
  <2>2. TablesRead(0) = <<>> /\ Len(source.results) \in Nat
    BY <2>1, TablesReadType, SourceType
  <2>3. got = [n \in DOMAIN TablesRead(read) |-> Kept(TablesRead(read)[n])]
    BY <2>1, <2>2
  <2> QED BY <2>1, <2>2, <2>3 DEF Reading
<1>3. PlanWritten
  BY DEF AnswerInit, Init, PlanWritten
<1> QED BY <1>1, <1>2, <1>3 DEF AnswerInv

LEMMA AnswerInvNext == AnswerInv /\ [AnswerNext]_<<vars, reading>> => AnswerInv'
<1> SUFFICES ASSUME AnswerInv, [AnswerNext]_<<vars, reading>> PROVE AnswerInv'
  OBVIOUS
<1>1. [Next]_vars
  BY AnswerStep DEF AnswerInv
<1>2. WrittenInv'
  BY <1>1, WrittenNext DEF AnswerInv
<1>3. Reading'
  BY ReadingNext DEF AnswerInv
<1>4. PlanWritten'
  BY <1>2, <1>3, PlanNext DEF AnswerInv
<1> QED BY <1>2, <1>3, <1>4 DEF AnswerInv

\* The invariant of an answer, from the rows of the server to its text, holds in every behaviour.
THEOREM AnswerSpecInv == AnswerSpec => []AnswerInv
  BY AnswerInvInit, AnswerInvNext, PTL DEF AnswerSpec

\* An answer is a rendering of what a handler can return: every reader hands over blocks
\* that Markdown takes, in the budget of the config.
THEOREM AnswersAreRendered == AnswerSpec => Spec
<1>1. AnswerInit => Init
  BY DEF AnswerInit
<1>2. Reading /\ [AnswerNext]_<<vars, reading>> => [Next]_vars
  BY AnswerStep
<1>3. AnswerInv => Reading
  BY DEF AnswerInv
<1> QED BY <1>1, <1>2, <1>3, AnswerSpecInv, PTL DEF AnswerSpec, Spec

------------------------------------------------------------------------------
(* Faithful blocks *)

\* A block is faithful to all the lines there are: its own are the first of them as far
\* as the reader can see, its notice says that there are more exactly if there are, of how
\* many, and what it lacks it lacks at a budget.
Faithful(b, all) ==
    /\ all \in Seq(Lines) /\ b.lines \in Seq(Lines)
    /\ Len(b.lines) <= Len(all)
    /\ Rows(b) \in 0..Len(b.lines)
    /\ \A n \in 1..Len(b.lines) : /\ Bytes(b, all[n]) = Bytes(b, b.lines[n])
                                  /\ Cut(b, all[n]) <=> Cut(b, b.lines[n])
    /\ \A n \in 0..Rows(b) : NoticeOf(b, n) # <<>> <=> n < Len(all)
    /\ Total(b) \in {Unknown, Len(all)}
    /\ Rows(b) < Len(all) =>
         \/ b.kind = "table" /\ bud.rows > 0 /\ Rows(b) = bud.rows
         \/ /\ source.tool = "explain" /\ b.kind = "code"
            /\ bud.bytes > 0 /\ PlanBytes(Result.rows)[Rows(b)] >= bud.bytes

\* Two values are the same to the reader: as long, or both cut.
Same(v, w) ==
    /\ v.written = w.written
    /\ v.runes = w.runes \/ (bud.cells > 0 /\ v.runes > bud.cells /\ w.runes > bud.cells)

\* Tables of the same lines are cut alike.
LEMMA SameLines ==
    ASSUME bud \in Budgets, NEW v \in Values, NEW w \in Values, Same(v, w), NEW b, b.kind = "table"
    PROVE  /\ Bytes(b, TableRow(v)) = Bytes(b, TableRow(w))
           /\ Cut(b, TableRow(v)) <=> Cut(b, TableRow(w))
<1>1. v.runes \in Nat /\ w.runes \in Nat /\ bud.cells \in Nat
  BY DEF Values, Budgets
<1>2. CASE v.runes = w.runes
  <2>1. TableRow(v) = TableRow(w)
    BY <1>2 DEF Same, TableRow
  <2> QED BY <2>1
<1>3. CASE bud.cells > 0 /\ v.runes > bud.cells /\ w.runes > bud.cells
  <2>1. Cut(b, TableRow(v)) /\ Cut(b, TableRow(w))
    BY <1>3 DEF Cut, TableRow
  <2>2. Bytes(b, TableRow(v)) = 3 + bud.cells * v.written + 3 /\ Bytes(b, TableRow(w)) = 3 + bud.cells * w.written + 3
    BY <2>1 DEF Bytes, TableRow
  <2> QED BY <2>1, <2>2 DEF Same
<1> QED BY <1>2, <1>3 DEF Same

\* A table of the first rows of those there are, its total known: it has all of them, or
\* one past the budget.
LEMMA TableFaithful ==
    ASSUME bud \in Budgets, NEW some \in Seq(Values), NEW all \in Seq(Values), Len(all) <= MaxInt,
           Len(some) <= Len(all),
           Len(some) = Len(all) \/ (bud.rows > 0 /\ Len(some) = bud.rows + 1),
           \A n \in 1..Len(some) : Same(all[n], some[n])
    PROVE  Faithful(Table(some, Len(all), FALSE), TableRows(all))
<1> DEFINE b == Table(some, Len(all), FALSE)
           A == TableRows(all)
<1>1. Len(all) \in 0..MaxInt /\ Len(all) \in Nat /\ Len(some) \in Nat /\ bud.rows \in Nat
  BY RenderAssumption DEF Budgets
<1>2. b.lines \in Seq(Lines) /\ Len(b.lines) = Len(some) /\ \A n \in 1..Len(some) : b.lines[n] = TableRow(some[n])
  BY <1>1, TableType DEF Table
<1>3. A \in Seq(Lines) /\ Len(A) = Len(all) /\ \A n \in 1..Len(all) : A[n] = TableRow(all[n])
  BY <1>1, TableType
<1>4. b.kind = "table" /\ b.total = Len(all) /\ b.more = FALSE
  BY DEF Table
<1> HIDE DEF b, A
<1>5. \A n \in 1..Len(b.lines) : /\ Bytes(b, A[n]) = Bytes(b, b.lines[n])
                                 /\ Cut(b, A[n]) <=> Cut(b, b.lines[n])
  <2> SUFFICES ASSUME NEW n \in 1..Len(some)
               PROVE  Bytes(b, A[n]) = Bytes(b, b.lines[n]) /\ (Cut(b, A[n]) <=> Cut(b, b.lines[n]))
    BY <1>2
  <2>1. n \in 1..Len(all) /\ all[n] \in Values /\ some[n] \in Values /\ Same(all[n], some[n])
    BY <1>1
  <2>3. b.kind = "table"
    BY <1>4
  <2>2. A[n] = TableRow(all[n]) /\ b.lines[n] = TableRow(some[n])
    BY <1>2, <1>3, <2>1
  <2> QED BY <2>1, <2>2, <2>3, SameLines
<1>6. Rows(b) = IF bud.rows > 0 /\ Len(some) > bud.rows THEN bud.rows ELSE Len(some)
  BY <1>2, <1>4 DEF Rows
<1>7. Total(b) = Len(all)
  BY <1>1, <1>2, <1>4 DEF Total, LargerOf
<1>8. \A n \in 0..Rows(b) : NoticeOf(b, n) # <<>> <=> (n < Rows(b) \/ Rows(b) < Len(some))
  BY <1>2, <1>4 DEF NoticeOf
<1>9. Rows(b) \in 0..Len(some) /\ (Rows(b) < Len(all) => bud.rows > 0 /\ Rows(b) = bud.rows)
  BY <1>1, <1>6
<1>10. \A n \in 0..Rows(b) : (n < Rows(b) \/ Rows(b) < Len(some)) <=> n < Len(all)
  BY <1>1, <1>6
<1> QED BY <1>1, <1>2, <1>3, <1>4, <1>5, <1>7, <1>8, <1>9, <1>10 DEF Faithful, b, A

\* A table that was capped: its total is known, or it has one page of more.
LEMMA CapFaithful ==
    ASSUME bud \in Budgets, output = bud,
           NEW some \in Seq(Values), NEW all \in Seq(Values), Len(all) <= MaxInt,
           Len(some) <= Len(all),
           Len(some) = Len(all) \/ (output.rows > 0 /\ Len(some) = output.rows + 1),
           \A n \in 1..Len(some) : Same(all[n], some[n])
    PROVE  Faithful(Cap(some), TableRows(all))
<1>1. Len(all) \in 0..MaxInt /\ Len(all) \in Nat /\ Len(some) \in Nat /\ bud.rows \in Nat /\ 0 \in 0..MaxInt
  BY RenderAssumption DEF Budgets
<1>2. CASE output.rows > 0 /\ Len(some) > output.rows
  <2> DEFINE up == Upto(output.rows, some)
             b == Table(up, 0, TRUE)
             A == TableRows(all)
  <2>1. up \in Seq(Values) /\ Len(up) = bud.rows /\ \A n \in 1..bud.rows : n \in 1..Len(some) /\ up[n] = some[n]
    BY <1>1, <1>2, UptoType
  <2>2. Cap(some) = b
    BY <1>2 DEF Cap
  <2> HIDE DEF up
  <2>3. b.lines \in Seq(Lines) /\ Len(b.lines) = bud.rows /\ \A n \in 1..bud.rows : b.lines[n] = TableRow(up[n])
    BY <1>1, <2>1, TableType DEF Table
  <2>4. A \in Seq(Lines) /\ Len(A) = Len(all) /\ \A n \in 1..Len(all) : A[n] = TableRow(all[n])
    BY <1>1, TableType
  <2>5. b.kind = "table" /\ b.total = 0 /\ b.more = TRUE
    BY DEF Table
  <2> HIDE DEF b, A
  <2>6. \A n \in 1..Len(b.lines) : /\ Bytes(b, A[n]) = Bytes(b, b.lines[n])
                                   /\ Cut(b, A[n]) <=> Cut(b, b.lines[n])
    <3> SUFFICES ASSUME NEW n \in 1..bud.rows
                 PROVE  Bytes(b, A[n]) = Bytes(b, b.lines[n]) /\ (Cut(b, A[n]) <=> Cut(b, b.lines[n]))
      BY <2>3
    <3>1. n \in 1..Len(some) /\ n \in 1..Len(all) /\ up[n] = some[n]
      BY <1>1, <2>1
    <3>2. all[n] \in Values /\ some[n] \in Values /\ Same(all[n], some[n])
      BY <3>1
    <3>3. A[n] = TableRow(all[n]) /\ b.lines[n] = TableRow(some[n])
      BY <2>3, <2>4, <3>1
    <3> QED BY <2>5, <3>2, <3>3, SameLines
  <2>7. Rows(b) = bud.rows
    BY <2>3, <2>5 DEF Rows
  <2>8. Total(b) = Unknown
    BY <2>5 DEF Total
  <2>9. \A n : NoticeOf(b, n) # <<>>
    BY <2>5 DEF NoticeOf
  <2>10. bud.rows > 0 /\ bud.rows < Len(all)
    BY <1>1, <1>2
  <2> QED BY <1>1, <2>2, <2>3, <2>4, <2>5, <2>6, <2>7, <2>8, <2>9, <2>10 DEF Faithful, A
<1>3. CASE ~(output.rows > 0 /\ Len(some) > output.rows)
  <2>1. Cap(some) = Table(some, Len(some), FALSE)
    BY <1>3 DEF Cap
  <2>2. Len(some) = Len(all)
    BY <1>1, <1>3
  <2> QED BY <2>1, <2>2, TableFaithful
<1> QED BY <1>2, <1>3

\* What is fetched is the same to the reader, cut to the bytes of the cap or not.
LEMMA FetchedSame ==
    ASSUME bud \in Budgets, output = bud, NEW rows \in Seq(Values)
    PROVE  /\ \A n \in 1..Len(Fetched(rows)) : Same(rows[n], Fetched(rows)[n])
           /\ \A n \in 1..Len(Fetched(rows)) : Same(rows[n], TextRows(Fetched(rows))[n])
<1> DEFINE some == Fetched(rows)
<1>1. some \in Seq(Values) /\ \A n \in 1..Len(some) : some[n] = rows[n]
  BY FetchedType
<1> HIDE DEF some
<1>2. \A n \in 1..Len(some) : Same(rows[n], some[n])
  BY <1>1 DEF Same
<1>3. \A n \in 1..Len(some) : Same(rows[n], TextRows(some)[n])
  <2> SUFFICES ASSUME NEW n \in 1..Len(some) PROVE Same(rows[n], TextRows(some)[n])
    OBVIOUS
  <2>1. some[n] \in Values /\ rows[n] = some[n] /\ TextRows(some)[n] = TextRow(some[n])
    BY <1>1, TextRowsType
  <2>2. /\ TextRow(some[n]).written = some[n].written
        /\ \/ TextRow(some[n]).runes = some[n].runes
           \/ output.cells > 0 /\ some[n].runes > output.cells /\ TextRow(some[n]).runes > output.cells
    BY <2>1, TextRowType
  <2> QED BY <2>1, <2>2 DEF Same
<1> QED BY <1>2, <1>3 DEF some

\* The four ways from rows to a table.
LEMMA RowsFaithful ==
    ASSUME bud \in Budgets, output = bud, NEW rows \in Seq(Values), Len(rows) <= MaxInt
    PROVE  /\ Faithful(Cap(Fetched(rows)), TableRows(rows))
           /\ Faithful(Cap(TextRows(Fetched(rows))), TableRows(rows))
           /\ Faithful(Table(TextRows(Fetched(rows)), Len(rows), FALSE), TableRows(rows))
           /\ Faithful(Table(rows, Len(rows), FALSE), TableRows(rows))
<1> DEFINE some == Fetched(rows)
           cut == TextRows(some)
<1>1. /\ some \in Seq(Values) /\ Len(some) <= Len(rows) /\ Len(rows) \in Nat
      /\ Len(some) = Len(rows) \/ (output.rows > 0 /\ Len(some) = output.rows + 1)
  BY FetchedType
<1>2. /\ \A n \in 1..Len(some) : Same(rows[n], some[n])
      /\ \A n \in 1..Len(some) : Same(rows[n], cut[n])
  BY FetchedSame
<1>3. cut \in Seq(Values) /\ Len(cut) = Len(some)
  BY <1>1, TextRowsType
<1>4. \A n \in 1..Len(rows) : Same(rows[n], rows[n])
  BY DEF Same
<1> HIDE DEF some, cut
<1>5. Faithful(Cap(some), TableRows(rows))
  BY <1>1, <1>2, CapFaithful
<1>6. Faithful(Cap(cut), TableRows(rows))
  BY <1>1, <1>2, <1>3, CapFaithful
<1>7. Faithful(Table(cut, Len(rows), FALSE), TableRows(rows))
  BY <1>1, <1>2, <1>3, TableFaithful
<1>8. Faithful(Table(rows, Len(rows), FALSE), TableRows(rows))
  <2>1. Len(rows) <= Len(rows) /\ Len(rows) = Len(rows)
    BY <1>1
  <2> QED BY <1>4, <2>1, TableFaithful
<1> QED BY <1>5, <1>6, <1>7, <1>8 DEF some, cut

\* A text, or pairs: all the lines there are, and nothing counted.
LEMMA PlainFaithful ==
    ASSUME NEW lines \in Seq(Lines), NEW kind \in {"text", "pairs"}
    PROVE  LET b == [kind |-> kind, frame |-> 0, lines |-> lines, total |-> 0, more |-> FALSE]
           IN  Faithful(b, lines)
<1> DEFINE b == [kind |-> kind, frame |-> 0, lines |-> lines, total |-> 0, more |-> FALSE]
<1>1. Len(lines) \in Nat /\ Rows(b) = Len(lines) /\ Total(b) = Len(lines)
  BY DEF Rows, Total, LargerOf
<1>2. \A n \in 0..Rows(b) : NoticeOf(b, n) # <<>> <=> n < Len(lines)
  BY <1>1 DEF NoticeOf
<1>3. b.lines = lines
  OBVIOUS
<1> HIDE DEF b
<1>4. Faithful(b, lines)
  BY <1>1, <1>2, <1>3 DEF Faithful
<1> QED BY <1>4 DEF b

\* A text written whole is faithful.
LEMMA TextFaithful ==
    ASSUME NEW sizes \in Seq(Nat \ {0})
    PROVE  Faithful(Text(sizes), Text(sizes).lines)
<1> DEFINE lines == PlainLines(sizes)
<1>1. lines \in Seq(Lines)
  BY PlainLinesType
<1>2. Text(sizes) = [kind |-> "text", frame |-> 0, lines |-> lines, total |-> 0, more |-> FALSE]
  BY DEF Text
<1>3. Text(sizes).lines = lines
  BY <1>2
<1> HIDE DEF lines
<1>4. Faithful([kind |-> "text", frame |-> 0, lines |-> lines, total |-> 0, more |-> FALSE], lines)
  BY <1>1, PlainFaithful
<1> QED BY <1>2, <1>3, <1>4

\* A plan: explain keeps its lines until it holds as many bytes as the budget, and counts
\* them all.
LEMMA PlanFaithful ==
    ASSUME source \in Sources, source.tool = "explain", bud \in Budgets, output = bud
    PROVE  Faithful(Planned[1], Everything(Result.rows))
<1> DEFINE b == Planned[1]
           rows == Result.rows
           A == Everything(rows)
           w == PlanLines(rows)
           c == Cardinality(Within)
<1>1. /\ b.lines \in Seq(Lines) /\ b.kind = "code" /\ b.more = FALSE /\ b.total = Len(rows) /\ Len(b.lines) = c
      /\ \A n \in 1..c : b.lines[n] = [fixed |-> w[n], runes |-> 0, written |-> 0]
  BY PlannedType DEF Shapes
<1>2. c \in 0..Len(rows) /\ (c < Len(rows) => bud.bytes > 0 /\ PlanBytes(rows)[c] >= bud.bytes)
  BY WithinType
<1>3. rows \in Seq(Values) /\ Len(rows) \in Nat /\ DOMAIN rows = 1..Len(rows)
  BY SourceType
<1>4. A = [n \in 1..Len(rows) |-> [fixed |-> rows[n].runes * rows[n].width + 1, runes |-> 0, written |-> 0]]
  BY <1>3 DEF Everything
<1> HIDE DEF b, rows, A, w, c
<1>5. w \in Seq(Nat \ {0}) /\ \A n \in 1..Len(rows) : w[n] = rows[n].runes * rows[n].width + 1
  BY <1>3, PlanLinesType DEF w
<1>6. A = [n \in 1..Len(rows) |-> [fixed |-> w[n], runes |-> 0, written |-> 0]]
  BY <1>4, <1>5
<1>7. A \in Seq(Lines) /\ Len(A) = Len(rows)
  <2>1. Len(w) = Len(rows)
    BY <1>3, PlanLinesType DEF w
  <2>2. \A n \in 1..Len(rows) : w[n] \in Nat \ {0}
    BY <1>3, <1>5, <2>1
  <2>3. \A n \in 1..Len(rows) : [fixed |-> w[n], runes |-> 0, written |-> 0] \in Lines
    BY <2>2 DEF Lines
  <2> QED BY <1>3, <1>6, <2>3
<1>8. \A n \in 1..c : A[n] = b.lines[n]
  BY <1>1, <1>2, <1>3, <1>6
<1>9. Rows(b) = c /\ Total(b) = Len(rows)
  BY <1>1, <1>2, <1>3 DEF Rows, Total, LargerOf
<1>10. \A n \in 0..c : NoticeOf(b, n) # <<>> <=> n < Len(rows)
  BY <1>1, <1>2, <1>3, <1>9 DEF NoticeOf
<1> QED BY <1>1, <1>2, <1>3, <1>7, <1>8, <1>9, <1>10 DEF Faithful, b, rows, A

\* The lists decide which databases are listed, and a call may name the same ones.
LEMMA AcceptedAreReachable ==
    ASSUME source \in Sources, source.tool = "databases"
    PROVE  Accepted(Result.rows) = {v \in MembersOf(Result.rows) : Reachable(v.name)}
<1>1. \A n \in DOMAIN Result.rows : Result.rows[n].name # ""
  BY AnswerAssumption DEF Result
<1>2. \A v \in MembersOf(Result.rows) : v.name # ""
  BY <1>1 DEF MembersOf
<1>3. ASSUME NEW name, name # "" PROVE ResolveDatabase(name, TRUE) <=> Reachable(name)
  BY <1>3 DEF ResolveDatabase, Reachable, Matches
<1> QED BY <1>2, <1>3 DEF Accepted

\* A table with every row there is.
LEMMA EverythingOfTable ==
    ASSUME source.tool # "explain", NEW rows
    PROVE  Everything(rows) = TableRows(rows)
  BY DEF Everything, TableRows

\* Every block of an answer is faithful to all there is of it.
LEMMA AnswerFaithful ==
    ASSUME AnswerInv, phase # "idle", ~failed
    PROVE  /\ DOMAIN Available = DOMAIN blocks /\ Len(Available) = Len(blocks)
           /\ \A j \in DOMAIN blocks : Faithful(blocks[j], Available[j])
<1>1. source \in Sources /\ bud \in Budgets /\ output = bud /\ output \in Outputs /\ Handed
  BY OutputType DEF AnswerInv, Reading
<1>2. source.tool # "script" => Result.rows \in Seq(Values) /\ Len(Result.rows) <= MaxInt
  BY <1>1, SourceType
<1>3. ASSUME NEW b, NEW all, blocks = <<b>>, Available = <<all>>, Faithful(b, all)
      PROVE  /\ DOMAIN Available = DOMAIN blocks /\ Len(Available) = Len(blocks)
             /\ \A j \in DOMAIN blocks : Faithful(blocks[j], Available[j])
  BY <1>3
<1>4. CASE source.tool = "query"
  <2>1. blocks = Queried
    BY <1>1, <1>4 DEF Handed
  <2>2. CASE Result.columns
    <3>1. blocks = <<Cap(TextRows(Fetched(Result.rows)))>> /\ Available = <<TableRows(Result.rows)>>
      BY <1>4, <2>1, <2>2, EverythingOfTable DEF Queried, Available
    <3> QED BY <1>1, <1>2, <1>3, <1>4, <3>1, RowsFaithful
  <2>3. CASE ~Result.columns
    <3>1. blocks = <<Text(<<34>>)>> /\ Available = <<Text(<<34>>).lines>>
      BY <1>4, <2>1, <2>3 DEF Queried, Available
    <3>2. <<34>> \in Seq(Nat \ {0})
      OBVIOUS
    <3> QED BY <1>3, <3>1, <3>2, TextFaithful
  <2> QED BY <2>2, <2>3
<1>5. CASE source.tool = "tables"
  <2>1. blocks = <<Cap(Fetched(Result.rows))>> /\ Available = <<TableRows(Result.rows)>>
    BY <1>1, <1>5, EverythingOfTable DEF Handed, Tabled, Available
  <2> QED BY <1>1, <1>2, <1>3, <1>5, <2>1, RowsFaithful
<1>6. CASE source.tool = "databases"
  <2> DEFINE those == Those(Result.rows, Accepted(Result.rows))
  <2>1. blocks = <<Cap(Fetched(those))>>
    BY <1>1, <1>6 DEF Handed, Listed
  <2>2. Available = <<TableRows(those)>>
    BY <1>1, <1>6, AcceptedAreReachable, EverythingOfTable DEF Available
  <2>3. those \in Seq(Values) /\ Len(those) <= MaxInt
    <3>1. those \in Seq(Values) /\ Len(those) \in 0..Len(Result.rows)
      BY <1>2, <1>6, ThoseType
    <3> QED BY <1>2, <1>6, <3>1, RenderAssumption
  <2> HIDE DEF those
  <2> QED BY <1>1, <1>3, <2>1, <2>2, <2>3, RowsFaithful
<1>7. CASE source.tool = "explain"
  <2>1. blocks = Planned /\ Planned = <<Planned[1]>>
    BY <1>1, <1>7, PlannedType DEF Handed
  <2>2. Available = <<Everything(Result.rows)>>
    BY <1>7 DEF Available
  <2>3. Faithful(Planned[1], Everything(Result.rows))
    BY <1>1, <1>7, PlanFaithful
  <2> QED BY <1>3, <2>1, <2>2, <2>3
<1>8. CASE source.tool = "status"
  <2>1. blocks = Status
    BY <1>1, <1>8 DEF Handed
  <2>2. Available = [n \in DOMAIN blocks |-> IF n = 1 THEN blocks[1].lines ELSE TableRows(Result.rows)]
    BY <1>8, EverythingOfTable DEF Available
  <2>3. /\ Status \in Seq(Shapes) /\ Len(Status) \in {1, 2}
        /\ Status[1] = [kind |-> "pairs", frame |-> 0, total |-> 0, more |-> FALSE, lines |-> PlainLines(Pairs)]
        /\ Len(Status) = 2 => Status[2] = Table(Result.rows, Len(Result.rows), FALSE)
    BY <1>1, <1>8, StatusType
  <2>4. Faithful(blocks[1], blocks[1].lines)
    <3> DEFINE lines == PlainLines(Pairs)
    <3>1. Pairs \in Seq(Nat \ {0})
      BY DEF Pairs
    <3>2. lines \in Seq(Lines)
      BY <3>1, PlainLinesType
    <3>3. blocks[1] = [kind |-> "pairs", frame |-> 0, lines |-> lines, total |-> 0, more |-> FALSE]
      BY <2>1, <2>3
    <3>4. blocks[1].lines = lines
      BY <3>3
    <3> HIDE DEF lines
    <3>5. Faithful([kind |-> "pairs", frame |-> 0, lines |-> lines, total |-> 0, more |-> FALSE], lines)
      BY <3>2, PlainFaithful
    <3> QED BY <3>3, <3>4, <3>5
  <2>5. Len(blocks) = 2 => Faithful(blocks[2], TableRows(Result.rows))
    BY <1>1, <1>2, <1>8, <2>1, <2>3, RowsFaithful
  <2>6. DOMAIN blocks = 1..Len(blocks) /\ Len(blocks) \in {1, 2}
    BY <2>1, <2>3
  <2>7. DOMAIN Available = DOMAIN blocks /\ Len(Available) = Len(blocks)
    BY <2>2, <2>6
  <2>8. \A j \in DOMAIN blocks : j = 1 \/ (j = 2 /\ Len(blocks) = 2)
    BY <2>6
  <2> QED BY <2>2, <2>4, <2>5, <2>7, <2>8
<1>9. CASE source.tool = "script"
  <2> DEFINE T == TablesRead(Len(source.results))
  <2>1. blocks = got \o Closing /\ read = Len(source.results)
    BY <1>1, <1>9 DEF Handed
  <2>2. Available = [n \in DOMAIN blocks |-> IF n <= Len(T) THEN Everything(T[n].rows) ELSE blocks[n].lines]
    BY <1>9 DEF Available, Those, TablesRead, Columns
  <2>3. /\ got \in Seq(Shapes) /\ Len(got) = Len(T) /\ Len(got) \in Nat
        /\ \A n \in 1..Len(got) : got[n] = Kept(T[n]) /\ T[n] \in Results
    BY <2>1, GotType DEF AnswerInv
  <2>4. /\ Closing \in Seq(Shapes) /\ Len(Closing) \in Nat
        /\ \A n \in 1..Len(Closing) : \E sizes \in Seq(Nat \ {0}) : Closing[n] = Text(sizes)
    BY <1>1, ClosingType
  <2> HIDE DEF T
  <2>5. /\ DOMAIN blocks = 1..Len(blocks) /\ Len(blocks) = Len(got) + Len(Closing) /\ Len(blocks) \in Nat
        /\ \A n \in 1..Len(blocks) :
             blocks[n] = IF n <= Len(got) THEN got[n] ELSE Closing[n - Len(got)]
    <3> DEFINE C == Closing
    <3>1. got \in Seq(Shapes) /\ C \in Seq(Shapes) /\ blocks = got \o C
      BY <2>1, <2>3, <2>4
    <3> HIDE DEF C
    <3>2. Len(got \o C) = Len(got) + Len(C) /\ DOMAIN (got \o C) = 1..(Len(got) + Len(C))
      BY <3>1
    <3>3. \A n \in 1..(Len(got) + Len(C)) : (got \o C)[n] = IF n <= Len(got) THEN got[n] ELSE C[n - Len(got)]
      BY <3>1
    <3> QED BY <2>3, <3>1, <3>2, <3>3 DEF C
  <2>6. DOMAIN Available = DOMAIN blocks /\ Len(Available) = Len(blocks)
    BY <2>2, <2>5
  <2>7. ASSUME NEW j \in 1..Len(blocks) PROVE Faithful(blocks[j], Available[j])
    <3>1. CASE j <= Len(got)
      <4>1. j \in 1..Len(got)
        BY <2>3, <2>5, <3>1
      <4>2. blocks[j] = Kept(T[j]) /\ T[j] \in Results /\ Available[j] = TableRows(T[j].rows)
        BY <1>9, <2>2, <2>3, <2>5, <3>1, <4>1, EverythingOfTable
      <4>3. T[j].rows \in Seq(Values) /\ Len(T[j].rows) <= MaxInt
        BY <4>2 DEF Results
      <4> QED BY <1>1, <4>2, <4>3, RowsFaithful DEF Kept
    <3>2. CASE ~(j <= Len(got))
      <4>1. j - Len(got) \in 1..Len(Closing)
        BY <2>3, <2>4, <2>5, <3>2
      <4>2. PICK sizes \in Seq(Nat \ {0}) : Closing[j - Len(got)] = Text(sizes)
        BY <2>4, <4>1
      <4>3. blocks[j] = Text(sizes) /\ Available[j] = blocks[j].lines
        BY <2>2, <2>3, <2>5, <3>2, <4>2
      <4> QED BY <4>3, TextFaithful
    <3> QED BY <3>1, <3>2
  <2> QED BY <2>5, <2>6, <2>7
<1> QED BY <1>1, <1>4, <1>5, <1>6, <1>7, <1>8, <1>9 DEF Handed

------------------------------------------------------------------------------
(* What the notice says *)

\* The blocks of which not all is shown.
ShortBlocks == {j \in DOMAIN Available : Short(j)}

\* Each of them ended with a notice or was not begun, and they are counted.
LEMMA ShortAreNoted ==
    ASSUME AnswerInv, Answered
    PROVE  /\ DOMAIN Available = 1..Len(blocks) /\ Len(blocks) \in Nat /\ Len(shown) \in 0..Len(blocks)
           /\ \A j \in 1..Len(shown) : /\ Faithful(blocks[j], Available[j])
                                       /\ shown[j].lines \in 0..Rows(blocks[j])
                                       /\ j \in Noted <=> shown[j].lines < Len(Available[j])
           /\ ShortBlocks = Noted \cup ((Len(shown) + 1)..Len(blocks))
           /\ Noted \subseteq 1..Len(shown)
           /\ dropped \in Nat /\ dropped = Len(blocks) - Len(shown)
           /\ Cardinality(ShortBlocks) = Len(notices) + dropped
<1>1. phase = "done" /\ ~failed /\ WrittenInv
  BY DEF Answered, AnswerInv
<1>2. /\ blocks \in Seq(Blocks) /\ Len(blocks) \in Nat /\ DOMAIN blocks = 1..Len(blocks)
      /\ Len(shown) \in 0..Len(blocks) /\ DOMAIN shown = 1..Len(shown)
  BY <1>1 DEF WrittenInv, RenderInv, TypeOK, Progress, Responses
<1>3. /\ DOMAIN Available = DOMAIN blocks
      /\ \A j \in DOMAIN blocks : Faithful(blocks[j], Available[j])
  BY <1>1, AnswerFaithful
<1>4. ASSUME NEW j \in 1..Len(shown)
      PROVE  /\ Faithful(blocks[j], Available[j]) /\ shown[j].lines \in 0..Rows(blocks[j])
             /\ j \in Noted <=> shown[j].lines < Len(Available[j])
  <2>1. j \in DOMAIN blocks
    BY <1>2
  <2>2. shown[j].lines \in 0..Rows(blocks[j])
    BY <1>1, <1>2 DEF WrittenInv, Ended
  <2>3. Faithful(blocks[j], Available[j])
    BY <1>3, <2>1
  <2>4. NoticeOf(blocks[j], shown[j].lines) # <<>> <=> shown[j].lines < Len(Available[j])
    BY <2>2, <2>3 DEF Faithful
  <2> QED BY <1>2, <2>2, <2>3, <2>4 DEF Noted
<1>5. Noted \subseteq 1..Len(shown)
  BY <1>2 DEF Noted
<1>6. ShortBlocks = Noted \cup ((Len(shown) + 1)..Len(blocks))
  <2>1. \A j \in 1..Len(blocks) : Short(j) <=> j \in Noted \cup ((Len(shown) + 1)..Len(blocks))
    <3> SUFFICES ASSUME NEW j \in 1..Len(blocks)
                 PROVE  Short(j) <=> j \in Noted \cup ((Len(shown) + 1)..Len(blocks))
      OBVIOUS
    <3>1. CASE j <= Len(shown)
      <4>1. j \in 1..Len(shown) /\ ~(j > Len(shown)) /\ j \notin (Len(shown) + 1)..Len(blocks)
        BY <1>2, <3>1
      <4>2. Short(j) <=> shown[j].lines < Len(Available[j])
        BY <3>1, <4>1 DEF Short
      <4> QED BY <1>4, <4>1, <4>2
    <3>2. CASE ~(j <= Len(shown))
      <4>1. j > Len(shown) /\ j \in (Len(shown) + 1)..Len(blocks)
        BY <1>2, <3>2
      <4> QED BY <4>1 DEF Short
    <3> QED BY <3>1, <3>2
  <2>2. Noted \cup ((Len(shown) + 1)..Len(blocks)) \subseteq 1..Len(blocks)
    <3>1. 1..Len(shown) \subseteq 1..Len(blocks) /\ (Len(shown) + 1)..Len(blocks) \subseteq 1..Len(blocks)
      BY <1>2
    <3> QED BY <1>5, <3>1
  <2>3. ShortBlocks = {j \in 1..Len(blocks) : Short(j)}
    BY <1>2, <1>3 DEF ShortBlocks
  <2> QED BY <2>1, <2>2, <2>3
<1>7. dropped = Len(blocks) - Len(shown) /\ dropped \in Nat
  BY <1>1, <1>2 DEF WrittenInv, Reported, Left
<1>8. Cardinality(ShortBlocks) = Len(notices) + dropped
  <2> DEFINE Unbegun == (Len(shown) + 1)..Len(blocks)
  <2>1. IsFiniteSet(Noted) /\ Cardinality(Noted) = Len(notices)
    BY <1>1 DEF WrittenInv, Reported
  <2>2. IsFiniteSet(Unbegun) /\ Cardinality(Unbegun) = dropped
    <3>1. Len(shown) + 1 \in Int /\ Len(blocks) \in Int
      BY <1>2
    <3>2. /\ IsFiniteSet(Unbegun)
          /\ Cardinality(Unbegun) = IF Len(shown) + 1 > Len(blocks) THEN 0 ELSE Len(blocks) - (Len(shown) + 1) + 1
      BY <3>1, FS_Interval
    <3> QED BY <1>2, <1>7, <3>2
  <2>3. Noted \cap Unbegun = {}
    BY <1>2, <1>5
  <2> HIDE DEF Unbegun
  <2>4. Cardinality(Noted \cup Unbegun) = Cardinality(Noted) + Cardinality(Unbegun) - Cardinality(Noted \cap Unbegun)
    BY <2>1, <2>2, FS_Union
  <2>5. Cardinality(Noted \cap Unbegun) = 0
    BY <2>3, FS_EmptySet
  <2>6. Len(notices) \in Nat
    BY <1>1 DEF WrittenInv, RenderInv, TypeOK
  <2> QED BY <1>6, <1>7, <2>1, <2>2, <2>4, <2>5, <2>6 DEF Unbegun
<1> QED BY <1>2, <1>3, <1>4, <1>5, <1>6, <1>7, <1>8

\* No notice has no bytes.
LEMMA SilentHead ==
    ASSUME TypeOK, HeadBytes = 0
    PROVE  notices = <<>> /\ dropped = 0 /\ ~cellsCut
<1>1. Digits(dropped) \in Nat /\ Digits(bud.cells) \in Nat /\ dropped \in Nat /\ cellsCut \in BOOLEAN
  <2>1. dropped \in Nat /\ bud.cells \in Nat /\ cellsCut \in BOOLEAN
    BY RenderAssumption DEF TypeOK, Budgets
  <2> QED BY <2>1, DigitsMonotone
<1>2. notices # <<>> => NoticeBytes(notices[1]) \in Nat /\ NoticeBytes(notices[1]) > 0
  <2>1. notices # <<>> => notices[1] \in Notices
    BY DEF TypeOK
  <2> QED BY <2>1, NoticeNarrow
<1>3. Truncation \in Nat /\ (Truncation = 0 => notices = <<>> /\ dropped = 0)
  BY <1>1, <1>2 DEF Truncation, MoreTruncated, DroppedBytes
<1>4. ~cellsCut
  BY <1>1, <1>3 DEF HeadBytes, CellClause
<1> QED BY <1>3, <1>4 DEF HeadBytes

\* The three properties, read off the invariant.
LEMMA SilentWhole == AnswerInv => SilenceMeansWhole
<1> SUFFICES ASSUME AnswerInv, Answered, HeadBytes = 0, NEW j \in DOMAIN Available
             PROVE  ~Short(j) /\ \A n \in DOMAIN Available[j] : ~Cut(blocks[j], Available[j][n])
  BY DEF SilenceMeansWhole
<1>1. notices = <<>> /\ dropped = 0 /\ ~cellsCut
  BY SilentHead DEF AnswerInv, WrittenInv, RenderInv
<1>2. Noted = {} /\ Len(shown) = Len(blocks)
  <2>1. Cardinality(Noted) = 0 /\ IsFiniteSet(Noted)
    BY <1>1 DEF AnswerInv, WrittenInv, Reported
  <2>2. Noted = {}
    BY <2>1, FS_EmptySet
  <2> QED BY <1>1, <2>2, ShortAreNoted
<1>3. j \in 1..Len(shown) /\ j \notin Noted
  BY <1>2, ShortAreNoted
<1>4. j \notin ShortBlocks
  BY <1>2, <1>3, ShortAreNoted
<1>5. ~Short(j)
  BY <1>4 DEF ShortBlocks
<1>6. ASSUME NEW n \in DOMAIN Available[j] PROVE ~Cut(blocks[j], Available[j][n])
  <2>1. Faithful(blocks[j], Available[j]) /\ shown[j].lines \in 0..Rows(blocks[j]) /\ ~(shown[j].lines < Len(Available[j]))
    BY <1>3, ShortAreNoted
  <2>2. n \in 1..Rows(blocks[j]) /\ n \in 1..Len(blocks[j].lines)
    BY <2>1 DEF Faithful
  <2>3. ~CellsCut(blocks[j])
    BY <1>1, <1>3 DEF AnswerInv, WrittenInv, Reported
  <2>4. ~Cut(blocks[j], blocks[j].lines[n])
    BY <2>2, <2>3 DEF CellsCut
  <2> QED BY <2>1, <2>2, <2>4 DEF Faithful
<1> QED BY <1>5, <1>6

\* A block is short at the budget of rows, or its next line, as it is at the source, had no room.
LEMMA ShortAtABudget ==
    ASSUME AnswerInv, Answered, NEW j \in 1..Len(shown), shown[j].lines < Len(Available[j])
    PROVE  \/ /\ blocks[j].kind = "table" /\ output.rows > 0 /\ shown[j].lines = output.rows
              /\ shown[j].lines = Rows(blocks[j])
           \/ /\ output.bytes > 0 /\ (shown[j].lines < Rows(blocks[j]) \/ blocks[j].kind # "table")
              /\ shown[j].text + Bytes(blocks[j], Available[j][shown[j].lines + 1]) > shown[j].room
<1> DEFINE b == blocks[j]
           A == Available[j]
           n == shown[j].lines
<1>1. Faithful(b, A) /\ n \in 0..Rows(b)
  BY ShortAreNoted
<1>2. output = bud /\ bud \in Budgets /\ source \in Sources /\ phase = "done" /\ ~failed /\ Handed
  BY OutputType DEF AnswerInv, Reading, Answered
<1>3. /\ n < Rows(b) => bud.bytes > 0 /\ shown[j].text + Bytes(b, b.lines[n + 1]) > shown[j].room
      /\ bud.bytes > 0 => shown[j].room <= bud.bytes
      /\ shown[j] \in [lines : 0..MaxInt, text : Nat, room : Int]
  <2> DEFINE R == [lines : 0..MaxInt, text : Nat, room : Int]
  <2>1. shown \in Seq(R)
    BY DEF AnswerInv, WrittenInv, RenderInv, TypeOK
  <2>2. j \in DOMAIN shown /\ shown[j] \in R
    <3> HIDE DEF R
    <3> QED BY <2>1
  <2> QED BY <2>2 DEF AnswerInv, WrittenInv, Ended
<1>4. n \in Nat /\ Rows(b) \in Nat /\ Len(A) \in Nat /\ n < Len(A) /\ Rows(b) <= Len(b.lines) /\ Len(b.lines) \in Nat
  BY <1>1 DEF Faithful
<1>5. CASE n < Rows(b)
  <2>1. n + 1 \in 1..Len(b.lines)
    BY <1>4, <1>5
  <2>2. Bytes(b, A[n + 1]) = Bytes(b, b.lines[n + 1])
    BY <1>1, <2>1 DEF Faithful
  <2> QED BY <1>2, <1>3, <1>5, <2>2
<1>6. CASE n = Rows(b)
  <2>1. CASE b.kind = "table" /\ bud.rows > 0 /\ Rows(b) = bud.rows
    BY <1>2, <1>6, <2>1
  <2>2. CASE /\ source.tool = "explain" /\ b.kind = "code"
             /\ bud.bytes > 0 /\ PlanBytes(Result.rows)[Rows(b)] >= bud.bytes
    <3>1. shown[j].text = 12 + PlanBytes(Result.rows)[n]
      <4>1. j \in DOMAIN shown
        BY <1>3 DEF AnswerInv, WrittenInv, RenderInv, TypeOK
      <4> QED BY <1>2, <2>2, <4>1 DEF AnswerInv, PlanWritten
    <3>2. PlanBytes(Result.rows)[n] \in Nat
      <4>1. PlanLines(Result.rows) \in Seq(Nat) /\ Len(PlanLines(Result.rows)) = Len(Result.rows)
        BY <1>2, <2>2, SourceType, PlanLinesType
      <4>2. n \in 0..Len(Result.rows)
        <5>1. blocks = Planned
          BY <1>2, <2>2 DEF Handed
        <5>2. b = Planned[1]
          <6>1. Len(blocks) = 1 /\ Len(shown) \in 0..Len(blocks)
            BY <1>2, <2>2, <5>1, PlannedType, ShortAreNoted
          <6>2. j = 1
            BY <6>1
          <6> QED BY <5>1, <6>2
        <5>3. Len(b.lines) = Cardinality(Within) /\ Cardinality(Within) \in 0..Len(Result.rows) /\ Len(Result.rows) \in Nat
          BY <1>2, <2>2, <5>2, PlannedType, WithinType
        <5> QED BY <1>4, <1>6, <5>3
      <4>3. Sums(PlanLines(Result.rows)) \in [0..Len(Result.rows) -> Nat]
        BY <4>1, SumsLaw
      <4> QED BY <4>2, <4>3 DEF PlanBytes
    <3>3. Bytes(b, A[n + 1]) \in Nat /\ Bytes(b, A[n + 1]) >= 1
      <4>1. n + 1 \in 1..Len(A) /\ A \in Seq(Lines)
        BY <1>1, <1>4 DEF Faithful
      <4>2. A[n + 1] \in Lines /\ TypeOK
        BY <4>1 DEF AnswerInv, WrittenInv, RenderInv
      <4> QED BY <4>2, BytesWithin
    <3>4. shown[j].text + Bytes(b, A[n + 1]) > shown[j].room
      <4>1. bud.bytes \in Nat /\ shown[j].room \in Int /\ shown[j].room <= bud.bytes
        BY <1>2, <1>3, <2>2 DEF Budgets
      <4>2. PlanBytes(Result.rows)[n] >= bud.bytes
        BY <1>6, <2>2
      <4> QED BY <3>1, <3>2, <3>3, <4>1, <4>2
    <3> QED BY <1>2, <2>2, <3>4
  <2> QED BY <1>1, <1>4, <1>6, <2>1, <2>2 DEF Faithful
<1> QED BY <1>1, <1>4, <1>5, <1>6

LEMMA TrueNotice == AnswerInv => NoticeIsTrue
<1> SUFFICES ASSUME AnswerInv, Answered PROVE NoticeIsTrue
  BY DEF NoticeIsTrue
<1> DEFINE first == CHOOSE j \in ShortBlocks : \A i \in ShortBlocks : j <= i
           n == notices[1]
<1>1. /\ DOMAIN Available = 1..Len(blocks) /\ Len(blocks) \in Nat /\ Len(shown) \in 0..Len(blocks)
      /\ ShortBlocks = Noted \cup ((Len(shown) + 1)..Len(blocks)) /\ Noted \subseteq 1..Len(shown)
      /\ dropped \in Nat /\ Cardinality(ShortBlocks) = Len(notices) + dropped
  BY ShortAreNoted
<1>2. notices \in Seq(Notices) /\ Len(notices) \in Nat
  BY DEF AnswerInv, WrittenInv, RenderInv, TypeOK
<1>3. notices = <<>> => dropped = Cardinality(ShortBlocks)
  BY <1>1
<1>4. ASSUME notices # <<>>
      PROVE  /\ ShortBlocks # {} /\ first <= Len(shown)
             /\ n.shown = shown[first].lines
             /\ n.total \in {Unknown, Len(Available[first])}
             /\ IF n.cap = "maxRows" THEN n.shown = output.rows
                ELSE /\ output.bytes > 0
                     /\ shown[first].text + Bytes(blocks[first], Available[first][n.shown + 1]) > shown[first].room
             /\ (Len(notices) > 1 \/ dropped > 0) <=> Cardinality(ShortBlocks) > 1
  <2>1. PICK f \in Noted : (\A i \in Noted : f <= i) /\ NoticeOf(blocks[f], shown[f].lines) = <<n>>
    BY <1>4 DEF AnswerInv, WrittenInv, Reported
  <2>2. f \in 1..Len(shown) /\ f \in ShortBlocks
    BY <1>1, <2>1
  <2>3. \A i \in ShortBlocks : f <= i
    <3>1. \A i \in (Len(shown) + 1)..Len(blocks) : f <= i
      BY <1>1, <2>2
    <3> QED BY <1>1, <2>1, <3>1
  <2>4. first = f
    <3>1. \A j \in ShortBlocks : j \in Int
      BY <1>1
    <3>2. \A j \in ShortBlocks : (\A i \in ShortBlocks : j <= i) => j = f
      BY <2>2, <2>3, <3>1
    <3> QED BY <2>2, <2>3, <3>2
  <2> HIDE DEF first, n
  <2> DEFINE b == blocks[f]
             lines == shown[f].lines
             A == Available[f]
  <2>5. Faithful(b, A) /\ lines \in 0..Rows(b) /\ lines < Len(A)
    BY <2>1, <2>2, ShortAreNoted
  <2>6. n = [kind |-> b.kind, shown |-> lines, total |-> Total(b),
             cap |-> IF lines < Rows(b) \/ b.kind # "table" THEN "maxBytes" ELSE "maxRows"]
    <3> HIDE DEF b, lines
    <3>1. NoticeOf(b, lines) = <<n>>
      BY <2>1 DEF b, lines
    <3>2. <<n>> # <<>>
      OBVIOUS
    <3>3. <<n>> = <<[kind |-> b.kind, shown |-> lines, total |-> Total(b),
                     cap |-> IF lines < Rows(b) \/ b.kind # "table" THEN "maxBytes" ELSE "maxRows"]>>
      BY <3>1, <3>2 DEF NoticeOf
    <3> QED BY <3>3
  <2>7. \/ b.kind = "table" /\ output.rows > 0 /\ lines = output.rows /\ lines = Rows(b)
        \/ /\ output.bytes > 0 /\ (lines < Rows(b) \/ b.kind # "table")
           /\ shown[f].text + Bytes(b, A[lines + 1]) > shown[f].room
    BY <2>2, <2>5, ShortAtABudget
  <2>8. lines \in Nat /\ Rows(b) \in Nat
    BY <2>5 DEF Faithful
  <2>9. Total(b) \in {Unknown, Len(A)}
    BY <2>5 DEF Faithful
  <2> HIDE DEF b, lines, A
  <2>10. n.shown = lines /\ n.total = Total(b)
         /\ (n.cap = "maxRows" <=> ~(lines < Rows(b) \/ b.kind # "table"))
    BY <2>6
  <2>11. IF n.cap = "maxRows" THEN n.shown = output.rows
         ELSE output.bytes > 0 /\ shown[f].text + Bytes(b, A[n.shown + 1]) > shown[f].room
    BY <2>7, <2>8, <2>10
  <2>12. (Len(notices) > 1 \/ dropped > 0) <=> Cardinality(ShortBlocks) > 1
    <3>1. Len(notices) >= 1
      BY <1>2, <1>4
    <3> QED BY <1>1, <1>2, <3>1
  <2>13. ShortBlocks # {} /\ f <= Len(shown)
    BY <1>1, <2>2
  <2> QED BY <2>4, <2>9, <2>10, <2>11, <2>12, <2>13 DEF b, lines, A
<1> QED BY <1>3, <1>4 DEF NoticeIsTrue, ShortBlocks, first, n

LEMMA CutAtABudget == AnswerInv => CutOnlyAtABudget
<1> SUFFICES ASSUME AnswerInv, Answered PROVE CutOnlyAtABudget
  BY DEF CutOnlyAtABudget
<1>1. Len(Available) = Len(blocks) /\ DOMAIN shown = 1..Len(shown) /\ output = bud
  BY AnswerFaithful DEF AnswerInv, Reading, Answered, WrittenInv, RenderInv, TypeOK
<1>2. ASSUME NEW j \in 1..Len(shown), NEW n \in 1..shown[j].lines
      PROVE  Bytes(blocks[j], Available[j][n]) = Bytes(blocks[j], blocks[j].lines[n])
  <2>1. Faithful(blocks[j], Available[j]) /\ shown[j].lines \in 0..Rows(blocks[j])
    BY ShortAreNoted
  <2>2. n \in 1..Len(blocks[j].lines)
    BY <2>1 DEF Faithful
  <2> QED BY <2>1, <2>2 DEF Faithful
<1>3. dropped > 0 => output.bytes > 0 /\ rem <= 0
  BY <1>1 DEF AnswerInv, Answered, WrittenInv, Reported
<1> QED BY <1>1, <1>2, <1>3, ShortAtABudget DEF CutOnlyAtABudget

------------------------------------------------------------------------------
(* Theorems about answers *)

\* Every variable of the rendering keeps its type in an answer of any tool.
THEOREM AnswerTypeCorrect == AnswerSpec => []TypeOK
  BY AnswersAreRendered, TypeCorrect, PTL

\* The answer of any tool, with all its notices, is within maxBytes, but for the frame of
\* its last block.
THEOREM AnswerWithinBudget == AnswerSpec => []WithinBudget
  BY AnswersAreRendered, AnswersFitTheBudget, PTL

\* An answer without a notice is whole, whatever the server sends and whatever the budgets.
THEOREM SilenceIsWhole == AnswerSpec => []SilenceMeansWhole
  BY AnswerSpecInv, SilentWhole, PTL

\* The notice of an answer is true of the first block cut, and says that later blocks are cut
\* or dropped exactly when one is.
THEOREM NoticesAreTrue == AnswerSpec => []NoticeIsTrue
  BY AnswerSpecInv, TrueNotice, PTL

\* Nothing is left out of an answer but at a budget, and what is there is what the source has.
THEOREM CutsAreBudgets == AnswerSpec => []CutOnlyAtABudget
  BY AnswerSpecInv, CutAtABudget, PTL
==============================================================================
