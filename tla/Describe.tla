------------------------------ MODULE Describe ------------------------------
(* pg_read_describe_table (internal/source/postgres/describe.go): every name is *)
(* resolved once, and what it resolved to is described by up to six queries.    *)
(* The transaction is READ COMMITTED: each query has a snapshot of its own, and *)
(* other sessions change the catalog between two of them.                       *)
EXTENDS Integers, Sequences, FiniteSets

CONSTANTS
    Names, Oids, Asked,         \* Asked: the lists of names a call may carry
    MaxPartitions, MaxTables,   \* maxPartitionsListed, maxTablesDescribed: both 20
    MaxParts, MaxChanges,       \* bounds of this model: partitions, and changes by others
    Present,                    \* the kinds of relation there are
    None

Views    == {"v", "m"}
Tables   == {"r", "p", "f"}
Indexes  == {"i", "I"}
Kinds    == Views \cup Tables \cup Indexes \cup {"S", "c", "t"}
Queries  == {"columns", "constraints", "foreign", "view", "indexes", "partitions", "references"}

\* A relation: its kind, the version of its definition, how many partitions it has.
Relations == [kind : Kinds, version : Nat \ {0}, parts : 0..MaxParts]

ASSUME DescribeAssumption ==
    /\ Asked \subseteq Seq(Names)
    /\ MaxPartitions \in Nat \ {0} /\ MaxTables \in Nat \ {0} /\ MaxParts \in Nat /\ MaxChanges \in Nat
    /\ Present \subseteq Kinds
    /\ None \notin Names \cup Oids \cup Relations

NewRelations ==
    {r \in [kind : Present, version : {1}, parts : 0..MaxParts] : r.kind # "p" => r.parts = 0}

\* What a query finds of a relation that was dropped: no rows.
Gone == 0

VARIABLES
    catalog,    \* the relations by oid, None for an oid that is free or was dropped
    named,      \* pg_class by name, as to_regclass reads it
    fresh,      \* the oids not used yet
    changes,
    pc,         \* the query the call is at, or "done"
    asked, rel, \* in.Tables, and the relation of the current name
    facts,      \* what its queries have found: the query, the oid and the version
    listed,     \* its partitions listed
    queries,    \* how many were asked of it
    disturbed,  \* somebody changed it since it was resolved
    broke,      \* a query of the call failed
    answer,     \* the blocks so far
    outcome

others == <<catalog, named, fresh, changes>>
call   == <<pc, asked, rel, facts, listed, queries, broke, answer, outcome>>
vars   == <<others, call, disturbed>>

NoRelation == [oid |-> None, kind |-> "r", version |-> 0, parts |-> 0]

------------------------------------------------------------------------------
(* Other sessions *)

Change(o) ==
    /\ changes < MaxChanges /\ pc # "done"
    /\ changes' = changes + 1
    /\ disturbed' = (disturbed \/ o = rel.oid)
    /\ UNCHANGED call

Drop(n) ==
    /\ named[n] # None
    /\ Change(named[n])
    /\ catalog' = [catalog EXCEPT ![named[n]] = None]
    /\ named' = [named EXCEPT ![n] = None]
    /\ UNCHANGED fresh

Create(n, o, r) ==
    /\ named[n] = None /\ o \in fresh
    /\ Change(o)
    /\ catalog' = [catalog EXCEPT ![o] = r]
    /\ named' = [named EXCEPT ![n] = o]
    /\ fresh' = fresh \ {o}

Alter(o) ==
    /\ catalog[o] # None
    /\ Change(o)
    /\ catalog' = [catalog EXCEPT ![o].version = @ + 1]
    /\ UNCHANGED <<named, fresh>>

\* A partition is attached or detached; the definition of the parent stays.
Repartition(o, n) ==
    /\ catalog[o] # None /\ catalog[o].kind = "p" /\ catalog[o].parts # n
    /\ Change(o)
    /\ catalog' = [catalog EXCEPT ![o].parts = n]
    /\ UNCHANGED <<named, fresh>>

------------------------------------------------------------------------------
(* The call *)

Name == asked[Len(answer) + 1]

\* Mistake: the queries after the first go by the name again.
SubjectByName == IF named[Name] = None THEN rel.oid ELSE named[Name]

\* The queries after the first go by the oid the name resolved to.
Subject == rel.oid

Exists == catalog[Subject] # None

Found(query) == [query |-> query, oid |-> Subject, version |-> IF Exists THEN catalog[Subject].version ELSE Gone]

\* Mistake: a failed call hands over what it has.
EndWithBlocks(how) == pc' = "done" /\ outcome' = how /\ UNCHANGED answer

\* The call ends; blocks are handed over only with success.
End(how) ==
    /\ pc' = "done" /\ outcome' = how
    /\ answer' = IF how = "ok" THEN answer ELSE <<>>

\* No name, or more names than fit in one call.
RefuseCall ==
    /\ pc = "start" /\ Len(asked) \notin 1..MaxTables
    /\ End("badArgument")
    /\ UNCHANGED <<others, asked, rel, facts, listed, queries, broke, disturbed>>

Begin ==
    /\ pc = "start" /\ Len(asked) \in 1..MaxTables
    /\ pc' = "resolve"
    /\ UNCHANGED <<others, asked, rel, facts, listed, queries, broke, answer, outcome, disturbed>>

\* Nothing has the name, or it is not a name at all.
NoSuchName ==
    /\ pc = "resolve" /\ named[Name] = None
    /\ End("badArgument")
    /\ UNCHANGED <<others, asked, rel, facts, listed, queries, broke, disturbed>>

\* Where describeOne goes with the relation of a name.
FirstQuery(kind) ==
    IF kind \in Views THEN "view" ELSE IF kind \in Tables THEN "columns" ELSE "refuse"

\* relationSQL: the relation and what its headline says, the number of partitions included.
Resolve ==
    /\ pc = "resolve" /\ named[Name] # None
    /\ LET o == named[Name]
       IN  /\ rel' = [oid |-> o, kind |-> catalog[o].kind, version |-> catalog[o].version, parts |-> catalog[o].parts]
           /\ pc' = FirstQuery(catalog[o].kind)
    /\ facts' = {} /\ listed' = 0 /\ queries' = 1 /\ disturbed' = FALSE
    /\ UNCHANGED <<others, asked, broke, answer, outcome>>

\* refuseKind: it is no table; of an index the table is looked up for the hint, and the
\* refusal stands whatever that query finds.
RefuseKind ==
    /\ pc = "refuse"
    /\ queries' = queries + (IF rel.kind \in Indexes THEN 1 ELSE 0)
    /\ End("refused")
    /\ UNCHANGED <<others, asked, rel, facts, listed, broke, disturbed>>

\* A query that finds nothing of a dropped relation: no rows are no error.
Ask(query, next) ==
    /\ pc = query
    /\ pc' = next
    /\ facts' = facts \cup {Found(query)}
    /\ queries' = queries + 1
    /\ UNCHANGED <<others, asked, rel, broke, answer, outcome, disturbed>>

\* Mistake: partitions are asked of every kind.
PartitionsOfAll(kind) == "partitions"

\* writePartitions returns at once for any other kind.
AfterIndexes(kind) == IF kind = "p" THEN "partitions" ELSE "references"

AskColumns     == Ask("columns", "constraints") /\ UNCHANGED listed
AskConstraints == Ask("constraints", IF rel.kind = "f" THEN "foreign" ELSE "indexes") /\ UNCHANGED listed
AskIndexes     == Ask("indexes", AfterIndexes(rel.kind)) /\ UNCHANGED listed

\* The definition of a view and the server of a foreign table are one row: of a dropped
\* one there is none, or its definition is NULL, and scanning it fails.
AskView    == pc = "view" /\ Exists /\ Ask("view", "indexes") /\ UNCHANGED listed
AskForeign == pc = "foreign" /\ Exists /\ Ask("foreign", "indexes") /\ UNCHANGED listed

\* partitionsSQL with its LIMIT.
Listed(parts) == IF parts > MaxPartitions THEN MaxPartitions ELSE parts

AskPartitions ==
    /\ Ask("partitions", "references")
    /\ listed' = IF Exists THEN Listed(catalog[Subject].parts) ELSE 0

\* "and N partitions not listed": of the number the first query counted.
Rest == IF rel.kind = "p" /\ rel.parts > listed THEN rel.parts - listed ELSE 0

Description ==
    [oid |-> rel.oid, kind |-> rel.kind, version |-> rel.version, parts |-> rel.parts,
     facts |-> facts \cup {Found("references")}, listed |-> listed, rest |-> Rest, whole |-> ~disturbed]

\* The last query of a name; the next name begins, or the call is answered.
AskReferences ==
    /\ pc = "references"
    /\ queries' = queries + 1
    /\ answer' = Append(answer, Description)
    /\ IF Len(answer') = Len(asked)
       THEN pc' = "done" /\ outcome' = "ok"
       ELSE pc' = "resolve" /\ UNCHANGED outcome
    /\ UNCHANGED <<others, asked, rel, facts, listed, broke, disturbed>>

\* Any query but the one for a hint fails the call: there is no partial answer.
QueryFails ==
    /\ pc \in {"resolve"} \cup Queries
    /\ broke' = TRUE
    /\ End("internal")
    /\ UNCHANGED <<others, asked, rel, facts, listed, queries, disturbed>>

\* Scanning the one row that is not there.
ScanFails ==
    /\ pc \in {"view", "foreign"} /\ ~Exists
    /\ End("internal")
    /\ UNCHANGED <<others, asked, rel, facts, listed, queries, broke, disturbed>>

Init ==
    /\ named \in [Names -> Oids \cup {None}]
    /\ \A n, m \in Names : named[n] = named[m] /\ named[n] # None => n = m
    /\ catalog \in [Oids -> NewRelations \cup {None}]
    /\ \A o \in Oids : catalog[o] # None <=> \E n \in Names : named[n] = o
    /\ fresh = {o \in Oids : catalog[o] = None}
    /\ changes = 0
    /\ asked \in Asked
    /\ pc = "start" /\ rel = NoRelation /\ facts = {} /\ listed = 0 /\ queries = 0
    /\ disturbed = FALSE /\ broke = FALSE /\ answer = <<>> /\ outcome = "none"

Others ==
    \/ \E n \in Names : Drop(n) \/ \E o \in Oids, r \in NewRelations : Create(n, o, r)
    \/ \E o \in Oids : Alter(o) \/ \E n \in 0..MaxParts : Repartition(o, n)

Next ==
    \/ RefuseCall \/ Begin \/ NoSuchName \/ Resolve \/ RefuseKind
    \/ AskColumns \/ AskConstraints \/ AskForeign \/ AskView \/ AskIndexes \/ AskPartitions \/ AskReferences
    \/ QueryFails \/ ScanFails
    \/ Others

Spec == Init /\ [][Next]_vars

------------------------------------------------------------------------------
(* Safety *)

Facts == [query : Queries, oid : Oids, version : Nat]

Descriptions ==
    [oid : Oids, kind : Views \cup Tables, version : Nat \ {0}, parts : 0..MaxParts, facts : SUBSET Facts,
     listed : 0..MaxPartitions, rest : 0..MaxParts, whole : BOOLEAN]

\* Every name costs at most six queries (describe.go:128-130).
TypeOK ==
    /\ catalog \in [Oids -> Relations \cup {None}]
    /\ named \in [Names -> Oids \cup {None}]
    /\ fresh \subseteq Oids
    /\ changes \in 0..MaxChanges
    /\ pc \in {"start", "resolve", "refuse", "done"} \cup Queries
    /\ asked \in Asked
    /\ rel \in [oid : Oids \cup {None}, kind : Kinds, version : Nat, parts : 0..MaxParts]
    /\ facts \subseteq Facts
    /\ listed \in 0..MaxPartitions
    /\ queries \in 0..6
    /\ disturbed \in BOOLEAN /\ broke \in BOOLEAN
    /\ answer \in Seq(Descriptions)
    /\ outcome \in {"none", "ok", "refused", "badArgument", "internal"}

\* A description is of one relation, the one its name resolved to, whatever takes that
\* name meanwhile; nothing in it is older than its headline, and an empty part of it
\* means the relation is gone (describe.go:337, :352, :487, :511).
OneRelation ==
    \A j \in DOMAIN answer : \A f \in answer[j].facts :
      /\ f.oid = answer[j].oid
      /\ f.version = Gone \/ f.version >= answer[j].version
      /\ answer[j].whole => f.version = answer[j].version

PartsOf(kind) ==
    (IF kind \in Views THEN {"view"} ELSE {"columns", "constraints"}) \cup {"indexes", "references"}
      \cup (IF kind = "f" THEN {"foreign"} ELSE {}) \cup (IF kind = "p" THEN {"partitions"} ELSE {})

\* Of a relation nobody changes meanwhile the description is complete, each part once
\* and the number of partitions the list and its rest together (docs/adr/0004: the
\* number has to agree with the list). A call is answered for every name or for
\* none; it ends in an internal failure only if a query failed or the relation went
\* away, and never because of the hint of a refusal (describe.go:315-317).
WholeWhenUndisturbed ==
    /\ \A j \in DOMAIN answer : answer[j].whole =>
         /\ {f.query : f \in answer[j].facts} = PartsOf(answer[j].kind)
         /\ Cardinality(answer[j].facts) = Cardinality(PartsOf(answer[j].kind))
         /\ answer[j].kind = "p" =>
              /\ answer[j].listed + answer[j].rest = answer[j].parts
              /\ answer[j].rest > 0 => answer[j].listed = MaxPartitions
    /\ pc = "done" => Len(answer) = IF outcome = "ok" THEN Len(asked) ELSE 0
    /\ outcome = "internal" => broke \/ disturbed
=============================================================================
