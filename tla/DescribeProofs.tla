--------------------------- MODULE DescribeProofs ---------------------------
(***************************************************************************)
(* Proofs about Describe, for any names, any lists of names, any limits and *)
(* any number of changes by other sessions.                                 *)
(***************************************************************************)
EXTENDS Describe, FiniteSetTheorems, TLAPS

\* What a name means: it leads to one relation, which is there and of which it is the
\* only name; an oid that was not used yet leads nowhere.
Dictionary ==
    /\ \A n \in Names : named[n] # None => catalog[named[n]] # None
    /\ \A n, m \in Names : named[n] = named[m] /\ named[n] # None => n = m
    /\ \A o \in fresh : catalog[o] = None

\* The queries asked before one of them, of a kind of relation.
Before(query, kind) ==
    IF query \in {"view", "columns"} THEN {}
    ELSE IF query = "constraints" THEN {"columns"}
    ELSE IF query = "foreign" THEN {"columns", "constraints"}
    ELSE IF query = "indexes" THEN PartsOf(kind) \ {"indexes", "partitions", "references"}
    ELSE IF query = "partitions" THEN PartsOf(kind) \ {"partitions", "references"}
    ELSE PartsOf(kind) \ {"references"}

\* Where the call is, and how many queries that has cost.
Position ==
    /\ pc = "start" => answer = <<>> /\ outcome = "none"
    /\ pc \notin {"start", "done"} => Len(answer) < Len(asked) /\ outcome = "none"
    /\ pc \in Queries => rel.kind \in Views \cup Tables
    /\ pc = "refuse" => queries = 1
    /\ pc = "view" => rel.kind \in Views /\ queries = 1
    /\ pc = "columns" => rel.kind \in Tables /\ queries = 1
    /\ pc = "constraints" => rel.kind \in Tables /\ queries = 2
    /\ pc = "foreign" => rel.kind = "f" /\ queries = 3
    /\ pc = "indexes" => queries = IF rel.kind \in Views THEN 2 ELSE IF rel.kind = "f" THEN 4 ELSE 3
    /\ pc = "partitions" => rel.kind = "p" /\ queries = 4
    /\ pc = "references" => queries = IF rel.kind \in Views THEN 3 ELSE IF rel.kind \in {"p", "f"} THEN 5 ELSE 4

\* The relation of the name in hand: nobody else can get its oid, its definition only
\* moves on, and stays what it was until somebody changes it.
Subjected ==
    pc \in Queries =>
      /\ rel.oid \in Oids \ fresh /\ rel.version # 0
      /\ catalog[rel.oid] # None => catalog[rel.oid].version >= rel.version
      /\ ~disturbed => /\ catalog[rel.oid] # None
                       /\ catalog[rel.oid].version = rel.version /\ catalog[rel.oid].parts = rel.parts

FactOf(query) == [query |-> query, oid |-> rel.oid, version |-> rel.version]

Collected ==
    pc \in Queries =>
      /\ \A f \in facts : f.oid = rel.oid /\ (f.version = Gone \/ f.version >= rel.version)
      /\ ~disturbed => facts = {FactOf(q) : q \in Before(pc, rel.kind)}
      /\ ~disturbed /\ pc = "references" /\ rel.kind = "p" => listed = Listed(rel.parts)

DescribeInv == TypeOK /\ Dictionary /\ Position /\ Subjected /\ Collected /\ OneRelation /\ WholeWhenUndisturbed

------------------------------------------------------------------------------
(* Sets and sequences *)

LEMMA PartsFinite == ASSUME NEW kind PROVE IsFiniteSet(PartsOf(kind))
<1>1. IsFiniteSet({"view"}) /\ IsFiniteSet({"foreign"}) /\ IsFiniteSet({"partitions"}) /\ IsFiniteSet({})
  BY FS_Singleton, FS_EmptySet
<1>2. IsFiniteSet({"columns"} \cup {"constraints"}) /\ IsFiniteSet({"indexes"} \cup {"references"})
  BY FS_Singleton, FS_Union
<1>3. {"columns"} \cup {"constraints"} = {"columns", "constraints"} /\ {"indexes"} \cup {"references"} = {"indexes", "references"}
  OBVIOUS
<1> QED BY <1>1, <1>2, <1>3, FS_Union DEF PartsOf

\* There are as many facts as queries that found them.
LEMMA OneFactEach ==
    ASSUME NEW S, IsFiniteSet(S)
    PROVE  Cardinality({FactOf(q) : q \in S}) = Cardinality(S)
<1> DEFINE f == [q \in S |-> FactOf(q)]
           T == {FactOf(q) : q \in S}
<1>1. \A q, p \in S : f[q] = f[p] => q = p
  BY DEF FactOf
<1>2. f \in [S -> T] /\ \A t \in T : \E q \in S : f[q] = t
  OBVIOUS
<1>3. f \in Bijection(S, T)
  BY <1>1, <1>2 DEF Bijection, Injection, Surjection, IsInjective
<1> QED BY <1>3, FS_Bijection DEF ExistsBijection

LEMMA NameInHand ==
    ASSUME TypeOK, Position, pc \notin {"start", "done"}
    PROVE  /\ Name \in Names
           /\ asked \in Seq(Names)
  BY DescribeAssumption DEF TypeOK, Position, Name

------------------------------------------------------------------------------
(* What most steps do to the answer *)

\* The call goes on with the blocks it has.
LEMMA AnswersStay ==
    ASSUME OneRelation, WholeWhenUndisturbed, answer' = answer, pc' # "done", outcome' = "none"
    PROVE  OneRelation' /\ WholeWhenUndisturbed'
  BY DEF OneRelation, WholeWhenUndisturbed

\* The call ends with no block at all.
LEMMA AnswersGo ==
    ASSUME answer' = <<>>, outcome' # "ok", outcome' = "internal" => broke' \/ disturbed'
    PROVE  OneRelation' /\ WholeWhenUndisturbed'
  BY DEF OneRelation, WholeWhenUndisturbed

\* The call ends without an answer: nothing is left to say of the relation in hand.
LEMMA EndsEmpty ==
    ASSUME DescribeInv, NEW how \in {"refused", "badArgument", "internal"}, End(how),
           UNCHANGED <<others, asked, rel, facts, listed, disturbed>>,
           queries' \in 0..6, broke' \in BOOLEAN, how = "internal" => broke' \/ disturbed'
    PROVE  DescribeInv'
<1> USE DEF DescribeInv, End, others
<1>1. TypeOK'
  BY DEF TypeOK
<1>2. Dictionary'
  BY DEF Dictionary
<1>3. Position' /\ Subjected' /\ Collected'
  BY DEF Position, Subjected, Collected, Queries
<1>4. OneRelation' /\ WholeWhenUndisturbed'
  BY AnswersGo
<1> QED BY <1>1, <1>2, <1>3, <1>4

\* The call goes on without touching the catalog or what it resolved.
LEMMA GoesOn ==
    ASSUME DescribeInv, UNCHANGED <<others, asked, rel, broke, answer, outcome, disturbed>>,
           pc \in Queries, pc' \in Queries, facts' \subseteq Facts, listed' \in 0..MaxPartitions, queries' \in 0..6,
           Position', Collected'
    PROVE  DescribeInv'
<1> USE DEF DescribeInv, others
<1>1. TypeOK'
  BY DEF TypeOK
<1>2. Dictionary'
  BY DEF Dictionary
<1>3. Subjected'
  BY DEF Subjected
<1>4. OneRelation' /\ WholeWhenUndisturbed'
  <2>1. outcome = "none" /\ pc' # "done"
    BY DEF Position, Queries
  <2> QED BY <2>1, AnswersStay
<1> QED BY <1>1, <1>2, <1>3, <1>4

------------------------------------------------------------------------------
(* Other sessions *)

\* A change that leaves what the call knows: types and the dictionary are up to each
\* change, and so is the relation in hand if it is that which changed.
LEMMA ChangeKeeps ==
    ASSUME DescribeInv, NEW o, Change(o), catalog' \in [Oids -> Relations \cup {None}],
           named' \in [Names -> Oids \cup {None}], fresh' \subseteq fresh, Dictionary',
           \A i \in Oids \ {o} : catalog'[i] = catalog[i],
           \/ o \in fresh
           \/ catalog'[o] = None
           \/ catalog[o] # None /\ catalog'[o].version >= catalog[o].version
    PROVE  DescribeInv'
<1> USE DEF DescribeInv, Change, call
<1>1. TypeOK'
  BY DescribeAssumption DEF TypeOK
<1>2. Position'
  BY DEF Position
<1>3. Subjected'
  <2> SUFFICES ASSUME pc \in Queries PROVE Subjected'
    BY DEF Subjected
  <2>1. rel.oid \in Oids \ fresh /\ rel.version # 0
    BY DEF Subjected
  <2>2. CASE rel.oid # o
    BY <2>1, <2>2 DEF Subjected
  <2>3. CASE rel.oid = o
    <3>1. catalog'[o] # None => catalog'[o].version >= rel.version
      <4> SUFFICES ASSUME catalog'[o] # None PROVE catalog'[o].version >= rel.version
        OBVIOUS
      <4>1. catalog[o] # None /\ catalog'[o].version >= catalog[o].version /\ catalog[o].version >= rel.version
        BY <2>1, <2>3 DEF Subjected
      <4>2. catalog[o] \in Relations /\ catalog'[o] \in Relations /\ rel.version \in Nat
        BY <2>1, <2>3, <4>1 DEF TypeOK
      <4> QED BY <4>1, <4>2 DEF Relations
    <3> QED BY <2>1, <2>3, <3>1 DEF Subjected
  <2> QED BY <2>2, <2>3
<1>4. Collected'
  BY DEF Collected, FactOf
<1>5. OneRelation' /\ WholeWhenUndisturbed'
  BY DEF OneRelation, WholeWhenUndisturbed, Position
<1> QED BY <1>1, <1>2, <1>3, <1>4, <1>5

LEMMA DropKeeps == ASSUME DescribeInv, NEW n \in Names, Drop(n) PROVE DescribeInv'
<1> USE DEF DescribeInv
<1>1. named[n] \in Oids /\ Change(named[n])
  BY DEF Drop, TypeOK
<1>2. /\ catalog' \in [Oids -> Relations \cup {None}] /\ named' \in [Names -> Oids \cup {None}] /\ fresh' = fresh
      /\ \A i \in Oids : catalog'[i] = IF i = named[n] THEN None ELSE catalog[i]
      /\ \A m \in Names : named'[m] = IF m = n THEN None ELSE named[m]
  BY <1>1 DEF Drop, TypeOK
<1>3. Dictionary'
  <2>1. \A m \in Names : named'[m] # None => named'[m] \in Oids /\ catalog'[named'[m]] # None
    BY <1>1, <1>2 DEF Dictionary, TypeOK
  <2>2. \A m, k \in Names : named'[m] = named'[k] /\ named'[m] # None => m = k
    BY <1>2 DEF Dictionary
  <2>3. \A o \in fresh' : catalog'[o] = None
    BY <1>2 DEF Dictionary, TypeOK
  <2> QED BY <2>1, <2>2, <2>3 DEF Dictionary
<1> QED BY <1>1, <1>2, <1>3, ChangeKeeps

LEMMA CreateKeeps == ASSUME DescribeInv, NEW n \in Names, NEW o \in Oids, NEW r \in NewRelations, Create(n, o, r) PROVE DescribeInv'
<1> USE DEF DescribeInv
<1>1. o \in fresh /\ catalog[o] = None /\ Change(o)
  BY DEF Create, Dictionary
<1>2. r \in Relations /\ r # None
  BY DescribeAssumption DEF NewRelations, Relations
<1>3. /\ catalog' \in [Oids -> Relations \cup {None}] /\ named' \in [Names -> Oids \cup {None}] /\ fresh' = fresh \ {o}
      /\ \A i \in Oids : catalog'[i] = IF i = o THEN r ELSE catalog[i]
      /\ \A m \in Names : named'[m] = IF m = n THEN o ELSE named[m]
  BY <1>2 DEF Create, TypeOK
<1>4. Dictionary'
  <2>1. \A m \in Names : named[m] # o
    BY <1>1, DescribeAssumption DEF Dictionary
  <2>2. \A m \in Names : named'[m] # None => catalog'[named'[m]] # None
    BY <1>2, <1>3, <2>1 DEF Dictionary, TypeOK
  <2>3. \A m, k \in Names : named'[m] = named'[k] /\ named'[m] # None => m = k
    BY <1>3, <2>1 DEF Dictionary
  <2>4. \A i \in fresh' : catalog'[i] = None
    BY <1>3 DEF Dictionary, TypeOK
  <2> QED BY <2>2, <2>3, <2>4 DEF Dictionary
<1>5. fresh' \subseteq fresh /\ \A i \in Oids \ {o} : catalog'[i] = catalog[i]
  BY <1>3
<1>6. named' \in [Names -> Oids \cup {None}] /\ catalog' \in [Oids -> Relations \cup {None}]
  BY <1>3
<1> HIDE DEF DescribeInv
<1> QED BY <1>1, <1>4, <1>5, <1>6, ChangeKeeps

LEMMA AlterKeeps == ASSUME DescribeInv, NEW o \in Oids, Alter(o) PROVE DescribeInv'
<1> USE DEF DescribeInv
<1>1. catalog[o] # None /\ catalog[o] \in Relations /\ Change(o) /\ named' = named /\ fresh' = fresh
  BY DEF Alter, TypeOK
<1> DEFINE new == [catalog[o] EXCEPT !.version = @ + 1]
<1>2. new \in Relations /\ new.version >= catalog[o].version
  BY <1>1 DEF Relations
<1>3. new # None
  BY <1>2, DescribeAssumption
<1>4. catalog' \in [Oids -> Relations \cup {None}] /\ \A i \in Oids : catalog'[i] = IF i = o THEN new ELSE catalog[i]
  BY <1>2 DEF Alter, TypeOK
<1> HIDE DEF new
<1>5. Dictionary'
  BY <1>1, <1>3, <1>4 DEF Dictionary, TypeOK
<1>6. named' \in [Names -> Oids \cup {None}]
  BY <1>1 DEF TypeOK
<1> QED BY <1>1, <1>2, <1>4, <1>5, <1>6, ChangeKeeps

LEMMA RepartitionKeeps == ASSUME DescribeInv, NEW o \in Oids, NEW n \in 0..MaxParts, Repartition(o, n) PROVE DescribeInv'
<1> USE DEF DescribeInv
<1>1. catalog[o] # None /\ catalog[o] \in Relations /\ Change(o) /\ named' = named /\ fresh' = fresh
  BY DEF Repartition, TypeOK
<1> DEFINE new == [catalog[o] EXCEPT !.parts = n]
<1>2. new \in Relations /\ new.version >= catalog[o].version
  BY <1>1 DEF Relations
<1>3. new # None
  BY <1>2, DescribeAssumption
<1>4. catalog' \in [Oids -> Relations \cup {None}] /\ \A i \in Oids : catalog'[i] = IF i = o THEN new ELSE catalog[i]
  BY <1>2 DEF Repartition, TypeOK
<1> HIDE DEF new
<1>5. Dictionary'
  BY <1>1, <1>3, <1>4 DEF Dictionary, TypeOK
<1>6. named' \in [Names -> Oids \cup {None}]
  BY <1>1 DEF TypeOK
<1> QED BY <1>1, <1>2, <1>4, <1>5, <1>6, ChangeKeeps

------------------------------------------------------------------------------
(* The call *)

LEMMA ResolveKeeps == ASSUME DescribeInv, Resolve PROVE DescribeInv'
<1> USE DEF DescribeInv, Resolve, others
<1> DEFINE o == named[Name]
<1>1. Name \in Names
  BY NameInHand
<1>2. o \in Oids /\ catalog[o] # None /\ o \notin fresh
  BY <1>1 DEF TypeOK, Dictionary
<1>3. catalog[o] \in Relations
  BY <1>2 DEF TypeOK
<1>4. /\ rel' = [oid |-> o, kind |-> catalog[o].kind, version |-> catalog[o].version, parts |-> catalog[o].parts]
      /\ pc' = FirstQuery(catalog[o].kind) /\ facts' = {} /\ listed' = 0 /\ queries' = 1 /\ ~disturbed'
  OBVIOUS
<1> HIDE DEF o
<1>5. rel'.kind \in Kinds /\ pc' = FirstQuery(rel'.kind) /\ pc' \in {"view", "columns", "refuse"}
  BY <1>3, <1>4 DEF Relations, FirstQuery
<1>6. TypeOK'
  <2>1. rel' \in [oid : Oids \cup {None}, kind : Kinds, version : Nat, parts : 0..MaxParts]
    BY <1>2, <1>3, <1>4 DEF Relations
  <2>2. listed' \in 0..MaxPartitions /\ queries' \in 0..6 /\ facts' \subseteq Facts
    BY <1>4, DescribeAssumption
  <2>3. pc' \in {"start", "resolve", "refuse", "done"} \cup Queries
    BY <1>5 DEF Queries
  <2> QED BY <1>4, <2>1, <2>2, <2>3 DEF TypeOK
<1>7. Dictionary'
  BY DEF Dictionary
<1>8. Position'
  BY <1>4, <1>5 DEF Position, FirstQuery, Queries
<1>9. Subjected'
  BY <1>2, <1>3, <1>4 DEF Subjected, Relations
<1>10. Collected'
  <2>1. pc' \in Queries => Before(pc', rel'.kind) = {}
    BY <1>5 DEF Before, Queries
  <2>2. facts' = {} /\ pc' # "references"
    BY <1>4, <1>5
  <2> QED BY <2>1, <2>2 DEF Collected
<1>11. OneRelation' /\ WholeWhenUndisturbed'
  <2>1. outcome = "none" /\ pc' # "done"
    BY <1>5 DEF Position
  <2> QED BY <2>1, AnswersStay
<1> QED BY <1>6, <1>7, <1>8, <1>9, <1>10, <1>11

\* What any query finds of the relation in hand.
LEMMA FoundOfIt ==
    ASSUME DescribeInv, pc \in Queries, NEW q \in Queries
    PROVE  /\ Found(q) \in Facts /\ Found(q).oid = rel.oid
           /\ Found(q).version = Gone \/ Found(q).version >= rel.version
           /\ ~disturbed => Found(q) = FactOf(q)
<1>1. rel.oid \in Oids
  BY DEF DescribeInv, Subjected
<1>2. Exists => catalog[rel.oid] \in Relations
  BY <1>1 DEF DescribeInv, TypeOK, Exists, Subject
<1>3. Found(q).version \in Nat
  BY <1>2 DEF Found, Relations, Gone, Subject
<1>4. Found(q) \in Facts
  BY <1>1, <1>3 DEF Found, Facts, Subject
<1> QED BY <1>4 DEF DescribeInv, Subjected, Found, FactOf, Subject, Exists

\* A query adds what it found: one more of the parts there are to ask for.
LEMMA AskKeeps ==
    ASSUME DescribeInv, NEW next \in Queries, Ask(pc, next), pc \in Queries,
           Before(next, rel.kind) = Before(pc, rel.kind) \cup {pc},
           listed' \in 0..MaxPartitions, queries \in 0..5, Position',
           ~disturbed /\ next = "references" /\ rel.kind = "p" => listed' = Listed(rel.parts)
    PROVE  DescribeInv'
<1> USE DEF DescribeInv, Ask
<1>1. facts' \subseteq Facts
  BY FoundOfIt DEF TypeOK
<1>2. Collected'
  <2>1. \A f \in facts' : f.oid = rel.oid /\ (f.version = Gone \/ f.version >= rel.version)
    BY FoundOfIt DEF Collected
  <2>2. ASSUME ~disturbed PROVE facts' = {FactOf(q) : q \in Before(next, rel.kind)}
    BY <2>2, FoundOfIt DEF Collected
  <2>3. \A q : FactOf(q)' = FactOf(q)
    BY DEF FactOf
  <2> QED BY <2>1, <2>2, <2>3 DEF Collected
<1> QED BY <1>1, <1>2, GoesOn

\* The six queries of a table, and the two of a view, in the order they are asked.
LEMMA QueriesKeep ==
    ASSUME DescribeInv,
           AskColumns \/ AskConstraints \/ AskForeign \/ AskView \/ AskIndexes \/ AskPartitions
    PROVE  DescribeInv'
<1> USE DEF DescribeInv
<1>0. listed \in 0..MaxPartitions /\ queries \in 0..6 /\ rel.kind \in Kinds
  BY DEF TypeOK
<1>1. CASE AskColumns
  <2>1. pc = "columns" /\ pc' = "constraints" /\ Ask(pc, "constraints") /\ rel.kind \in Tables /\ queries = 1
    BY <1>1 DEF AskColumns, Ask, Position
  <2>2. Position'
    BY <1>1, <2>1 DEF AskColumns, Ask, Position, Queries
  <2>3. Before("constraints", rel.kind) = Before("columns", rel.kind) \cup {"columns"}
    BY DEF Before
  <2> QED BY <1>0, <1>1, <2>1, <2>2, <2>3, AskKeeps DEF AskColumns, Queries
<1>2. CASE AskConstraints
  <2> DEFINE next == IF rel.kind = "f" THEN "foreign" ELSE "indexes"
  <2>1. pc = "constraints" /\ pc' = next /\ Ask(pc, next) /\ rel.kind \in Tables /\ queries = 2
    BY <1>2 DEF AskConstraints, Ask, Position
  <2>2. Position'
    BY <1>2, <2>1 DEF AskConstraints, Ask, Position, Queries, Views, Tables
  <2>3. Before(next, rel.kind) = Before("constraints", rel.kind) \cup {"constraints"}
    BY <2>1 DEF Before, PartsOf, Views, Tables
  <2> QED BY <1>0, <1>2, <2>1, <2>2, <2>3, AskKeeps DEF AskConstraints, Queries
<1>3. CASE AskForeign
  <2>1. pc = "foreign" /\ pc' = "indexes" /\ Ask(pc, "indexes") /\ rel.kind = "f" /\ queries = 3
    BY <1>3 DEF AskForeign, Ask, Position
  <2>2. Position'
    BY <1>3, <2>1 DEF AskForeign, Ask, Position, Queries, Views, Tables
  <2>3. Before("indexes", rel.kind) = Before("foreign", rel.kind) \cup {"foreign"}
    BY <2>1 DEF Before, PartsOf, Views
  <2> QED BY <1>0, <1>3, <2>1, <2>2, <2>3, AskKeeps DEF AskForeign, Queries
<1>4. CASE AskView
  <2>1. pc = "view" /\ pc' = "indexes" /\ Ask(pc, "indexes") /\ rel.kind \in Views /\ queries = 1
    BY <1>4 DEF AskView, Ask, Position
  <2>2. Position'
    BY <1>4, <2>1 DEF AskView, Ask, Position, Queries
  <2>3. Before("indexes", rel.kind) = Before("view", rel.kind) \cup {"view"}
    BY <2>1 DEF Before, PartsOf, Views
  <2> QED BY <1>0, <1>4, <2>1, <2>2, <2>3, AskKeeps DEF AskView, Queries
<1>5. CASE AskIndexes
  <2> DEFINE next == AfterIndexes(rel.kind)
  <2>1. pc = "indexes" /\ pc' = next /\ Ask(pc, next) /\ rel.kind \in Views \cup Tables
        /\ queries = IF rel.kind \in Views THEN 2 ELSE IF rel.kind = "f" THEN 4 ELSE 3
    BY <1>5 DEF AskIndexes, Ask, Position, Queries
  <2>2. Position'
    BY <1>5, <2>1 DEF AskIndexes, Ask, AfterIndexes, Position, Queries, Views, Tables
  <2>3. Before(next, rel.kind) = Before("indexes", rel.kind) \cup {"indexes"}
    BY <2>1 DEF Before, PartsOf, AfterIndexes, Views, Tables
  <2>4. next \in Queries /\ ~(next = "references" /\ rel.kind = "p")
    BY DEF AfterIndexes, Queries
  <2> QED BY <1>0, <1>5, <2>1, <2>2, <2>3, <2>4, AskKeeps DEF AskIndexes, Queries
<1>6. CASE AskPartitions
  <2>1. pc = "partitions" /\ pc' = "references" /\ Ask(pc, "references") /\ rel.kind = "p" /\ queries = 4
    BY <1>6 DEF AskPartitions, Ask, Position
  <2>2. Position'
    BY <1>6, <2>1 DEF AskPartitions, Ask, Position, Queries, Views, Tables
  <2>3. Before("references", rel.kind) = Before("partitions", rel.kind) \cup {"partitions"}
    BY <2>1 DEF Before, PartsOf, Views
  <2>4. /\ listed' \in 0..MaxPartitions
        /\ ~disturbed => listed' = Listed(rel.parts)
    <3>1. rel.oid \in Oids /\ (~disturbed => Exists /\ catalog[rel.oid].parts = rel.parts)
      BY <2>1 DEF Subjected, Exists, Subject, Queries
    <3>2. Exists => catalog[rel.oid].parts \in Nat
      BY <3>1, DescribeAssumption DEF TypeOK, Exists, Subject, Relations
    <3> QED BY <1>6, <3>1, <3>2, DescribeAssumption DEF AskPartitions, Listed, Subject
  <2> QED BY <1>0, <2>1, <2>2, <2>3, <2>4, AskKeeps DEF Queries
<1> QED BY <1>1, <1>2, <1>3, <1>4, <1>5, <1>6

\* The description a name ends in says what the properties ask of it.
LEMMA DescriptionHolds ==
    ASSUME DescribeInv, pc = "references", NEW d, d = Description
    PROVE  /\ d \in Descriptions
           /\ \A f \in d.facts : /\ f.oid = d.oid
                                 /\ f.version = Gone \/ f.version >= d.version
                                 /\ d.whole => f.version = d.version
           /\ d.whole => /\ {f.query : f \in d.facts} = PartsOf(d.kind)
                         /\ Cardinality(d.facts) = Cardinality(PartsOf(d.kind))
                         /\ d.kind = "p" => /\ d.listed + d.rest = d.parts
                                            /\ d.rest > 0 => d.listed = MaxPartitions
<1> USE DEF DescribeInv
<1>0. pc \in Queries /\ "references" \in Queries
  BY DEF Queries
<1>1. rel.oid \in Oids /\ rel.kind \in Views \cup Tables /\ rel.version \in Nat \ {0} /\ rel.parts \in 0..MaxParts
  BY <1>0 DEF Subjected, Position, TypeOK
<1>2. /\ d.oid = rel.oid /\ d.kind = rel.kind /\ d.version = rel.version /\ d.parts = rel.parts
      /\ d.facts = facts \cup {Found("references")} /\ d.listed = listed /\ d.rest = Rest /\ d.whole = ~disturbed
  BY DEF Description
<1>3. listed \in 0..MaxPartitions /\ Rest \in 0..MaxParts
  BY <1>1, DescribeAssumption DEF TypeOK, Rest
<1>4. d.facts \subseteq Facts
  BY <1>0, <1>2, FoundOfIt DEF TypeOK
<1>5. d \in Descriptions
  <2>1. (~disturbed) \in BOOLEAN
    OBVIOUS
  <2> QED BY <1>1, <1>2, <1>3, <1>4, <2>1 DEF Description, Descriptions
<1>6. \A f \in d.facts : f.oid = d.oid /\ (f.version = Gone \/ f.version >= d.version)
  BY <1>0, <1>2, FoundOfIt DEF Collected
<1>7. ASSUME d.whole
      PROVE  d.facts = {FactOf(q) : q \in PartsOf(rel.kind)}
  <2>1. facts = {FactOf(q) : q \in PartsOf(rel.kind) \ {"references"}}
    BY <1>0, <1>2, <1>7 DEF Collected, Before
  <2>2. Found("references") = FactOf("references") /\ "references" \in PartsOf(rel.kind)
    BY <1>0, <1>2, <1>7, FoundOfIt DEF PartsOf
  <2> QED BY <1>2, <2>1, <2>2
<1>8. d.whole => \A f \in d.facts : f.version = d.version
  BY <1>2, <1>7 DEF FactOf
<1>9. d.whole => {f.query : f \in d.facts} = PartsOf(d.kind)
  <2>1. \A q : FactOf(q).query = q
    BY DEF FactOf
  <2>2. ASSUME d.whole PROVE {FactOf(q).query : q \in PartsOf(rel.kind)} = {f.query : f \in d.facts}
    BY <1>7, <2>2
  <2>3. {FactOf(q).query : q \in PartsOf(rel.kind)} = PartsOf(rel.kind)
    BY <2>1
  <2> QED BY <1>2, <2>2, <2>3
<1>10. d.whole => Cardinality(d.facts) = Cardinality(PartsOf(d.kind))
  BY <1>2, <1>7, OneFactEach, PartsFinite
<1>11. d.whole /\ d.kind = "p" => /\ d.listed + d.rest = d.parts
                                  /\ d.rest > 0 => d.listed = MaxPartitions
  <2> SUFFICES ASSUME d.whole, d.kind = "p"
               PROVE  d.listed + d.rest = d.parts /\ (d.rest > 0 => d.listed = MaxPartitions)
    OBVIOUS
  <2>1. listed = Listed(rel.parts) /\ rel.kind = "p"
    BY <1>0, <1>2 DEF Collected
  <2> QED BY <1>1, <1>2, <2>1, DescribeAssumption DEF Listed, Rest
<1> QED BY <1>5, <1>6, <1>8, <1>9, <1>10, <1>11

LEMMA ReferencesKeep == ASSUME DescribeInv, AskReferences PROVE DescribeInv'
<1> USE DEF DescribeInv, AskReferences
<1> DEFINE d == Description
<1>0. pc = "references" /\ pc \in Queries /\ answer' = Append(answer, d)
  BY DEF Queries
<1>1. d \in Descriptions /\ answer \in Seq(Descriptions)
  BY <1>0, DescriptionHolds DEF TypeOK
<1>2. /\ answer' \in Seq(Descriptions) /\ DOMAIN answer' = 1..Len(answer) + 1 /\ Len(answer') = Len(answer) + 1
      /\ \A j \in DOMAIN answer : j \in 1..Len(answer) /\ answer'[j] = answer[j]
      /\ answer'[Len(answer) + 1] = d
  BY <1>0, <1>1
<1>3. \A j \in DOMAIN answer' : j \in DOMAIN answer \/ j = Len(answer) + 1
  BY <1>1, <1>2
<1> HIDE DEF d
<1>4. Len(answer) < Len(asked) /\ outcome = "none" /\ asked' = asked /\ asked \in Seq(Names) /\ queries \in 0..5
  BY <1>0, DescribeAssumption DEF Position, TypeOK
<1>5. IF Len(answer') = Len(asked) THEN pc' = "done" /\ outcome' = "ok" ELSE pc' = "resolve" /\ outcome' = outcome
  OBVIOUS
<1>6. TypeOK'
  BY <1>2, <1>4, <1>5 DEF TypeOK, others
<1>7. Dictionary'
  BY DEF Dictionary, others
<1>8. Position'
  BY <1>1, <1>2, <1>4, <1>5 DEF Position, Queries
<1>9. Subjected' /\ Collected'
  BY <1>5 DEF Subjected, Collected, Queries
<1>10. OneRelation'
  BY <1>0, <1>2, <1>3, DescriptionHolds DEF OneRelation, d
<1>11. WholeWhenUndisturbed'
  <2>1. \A j \in DOMAIN answer' : answer'[j].whole =>
          /\ {f.query : f \in answer'[j].facts} = PartsOf(answer'[j].kind)
          /\ Cardinality(answer'[j].facts) = Cardinality(PartsOf(answer'[j].kind))
          /\ answer'[j].kind = "p" => /\ answer'[j].listed + answer'[j].rest = answer'[j].parts
                                      /\ answer'[j].rest > 0 => answer'[j].listed = MaxPartitions
    <3> SUFFICES ASSUME NEW j \in DOMAIN answer', answer'[j].whole
                 PROVE  /\ {f.query : f \in answer'[j].facts} = PartsOf(answer'[j].kind)
                        /\ Cardinality(answer'[j].facts) = Cardinality(PartsOf(answer'[j].kind))
                        /\ answer'[j].kind = "p" => /\ answer'[j].listed + answer'[j].rest = answer'[j].parts
                                                    /\ answer'[j].rest > 0 => answer'[j].listed = MaxPartitions
      OBVIOUS
    <3>1. CASE j \in DOMAIN answer
      BY <1>2, <3>1 DEF WholeWhenUndisturbed
    <3>2. CASE j = Len(answer) + 1
      BY <1>0, <1>2, <3>2, DescriptionHolds DEF d
    <3> QED BY <1>3, <3>1, <3>2
  <2> QED BY <1>4, <1>5, <2>1 DEF WholeWhenUndisturbed
<1> QED BY <1>6, <1>7, <1>8, <1>9, <1>10, <1>11

------------------------------------------------------------------------------
(* Theorems *)

LEMMA InvInit == Init => DescribeInv
<1> SUFFICES ASSUME Init PROVE DescribeInv
  OBVIOUS
<1> USE DEF Init
<1>1. NewRelations \subseteq Relations
  BY DescribeAssumption DEF NewRelations, Relations
<1>2. TypeOK
  <2>1. catalog \in [Oids -> Relations \cup {None}]
    BY <1>1
  <2>2. rel \in [oid : Oids \cup {None}, kind : Kinds, version : Nat, parts : 0..MaxParts]
    BY DescribeAssumption DEF NoRelation, Kinds, Tables
  <2>3. fresh \subseteq Oids /\ changes \in 0..MaxChanges /\ facts \subseteq Facts /\ listed \in 0..MaxPartitions /\ queries \in 0..6
    BY DescribeAssumption
  <2>4. answer \in Seq(Descriptions)
    OBVIOUS
  <2> QED BY <2>1, <2>2, <2>3, <2>4 DEF TypeOK
<1>3. Dictionary
  <2>1. \A n \in Names : named[n] # None => named[n] \in Oids /\ catalog[named[n]] # None
    OBVIOUS
  <2> QED BY <2>1 DEF Dictionary
<1>4. Position /\ Subjected /\ Collected
  BY DEF Position, Subjected, Collected, Queries
<1>5. OneRelation /\ WholeWhenUndisturbed
  BY DEF OneRelation, WholeWhenUndisturbed
<1> QED BY <1>2, <1>3, <1>4, <1>5 DEF DescribeInv

LEMMA InvNext == DescribeInv /\ [Next]_vars => DescribeInv'
<1> SUFFICES ASSUME DescribeInv, [Next]_vars PROVE DescribeInv'
  OBVIOUS
<1>0. queries \in 0..6 /\ broke \in BOOLEAN
  BY DEF DescribeInv, TypeOK
<1>1. CASE RefuseCall
  BY <1>0, <1>1, EndsEmpty DEF RefuseCall
<1>2. CASE Begin
  <2> USE <1>2 DEF Begin, DescribeInv, others
  <2>1. answer = <<>> /\ asked \in Seq(Names) /\ Len(asked) > 0
    BY DescribeAssumption DEF Position, TypeOK
  <2>2. TypeOK' /\ Dictionary'
    BY DEF TypeOK, Dictionary
  <2>3. Position' /\ Subjected' /\ Collected'
    BY <2>1 DEF Position, Subjected, Collected, Queries
  <2>4. OneRelation' /\ WholeWhenUndisturbed'
    BY AnswersStay DEF Position
  <2> QED BY <2>2, <2>3, <2>4
<1>3. CASE NoSuchName
  BY <1>0, <1>3, EndsEmpty DEF NoSuchName
<1>4. CASE Resolve
  BY <1>4, ResolveKeeps
<1>5. CASE RefuseKind
  <2>1. queries = 1
    BY <1>5 DEF RefuseKind, DescribeInv, Position
  <2>2. queries' \in 0..6
    BY <1>5, <2>1 DEF RefuseKind
  <2> QED BY <1>0, <1>5, <2>2, EndsEmpty DEF RefuseKind
<1>6. CASE AskColumns \/ AskConstraints \/ AskForeign \/ AskView \/ AskIndexes \/ AskPartitions
  BY <1>6, QueriesKeep
<1>7. CASE AskReferences
  BY <1>7, ReferencesKeep
<1>8. CASE QueryFails
  BY <1>0, <1>8, EndsEmpty DEF QueryFails
<1>9. CASE ScanFails
  \* Only a relation that was dropped has no row.
  <2>1. disturbed
    BY <1>9 DEF ScanFails, DescribeInv, Subjected, Exists, Subject, Queries
  <2> QED BY <1>0, <1>9, <2>1, EndsEmpty DEF ScanFails
<1>10. CASE Others
  BY <1>10, DropKeeps, CreateKeeps, AlterKeeps, RepartitionKeeps DEF Others
<1>11. CASE UNCHANGED vars
  <2> USE <1>11 DEF vars, others, call, DescribeInv
  <2>1. TypeOK' /\ Dictionary' /\ Position' /\ Subjected'
    BY DEF TypeOK, Dictionary, Position, Subjected
  <2>2. Collected'
    BY DEF Collected, FactOf
  <2>3. OneRelation' /\ WholeWhenUndisturbed'
    BY DEF OneRelation, WholeWhenUndisturbed
  <2> QED BY <2>1, <2>2, <2>3
<1> QED BY <1>1, <1>2, <1>3, <1>4, <1>5, <1>6, <1>7, <1>8, <1>9, <1>10, <1>11 DEF Next

\* The invariant of a call and its catalog holds in every behaviour.
THEOREM SpecInv == Spec => []DescribeInv
  BY InvInit, InvNext, PTL DEF Spec

\* Every variable keeps its type: no name costs more than six queries, whatever its kind.
THEOREM TypeCorrect == Spec => []TypeOK
<1>1. DescribeInv => TypeOK
  BY DEF DescribeInv
<1> QED BY SpecInv, <1>1, PTL

\* Whatever other sessions do to the names meanwhile, a description is of one relation.
THEOREM DescribesOneRelation == Spec => []OneRelation
<1>1. DescribeInv => OneRelation
  BY DEF DescribeInv
<1> QED BY SpecInv, <1>1, PTL

\* Of a relation nobody changes meanwhile the description is complete, for any limit on
\* partitions and any list of names.
THEOREM DescribesTheWhole == Spec => []WholeWhenUndisturbed
<1>1. DescribeInv => WholeWhenUndisturbed
  BY DEF DescribeInv
<1> QED BY SpecInv, <1>1, PTL
=============================================================================
