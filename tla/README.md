# infra-mcp in TLA+

`infra-mcp` is a family of MCP servers, one process per source of infrastructure; the repository
holds the core (`internal/mcpsrv`) and one source, PostgreSQL (`internal/source/postgres`). A
process serves tool calls of a language model over stdio or HTTP. Every call names an
environment, a cluster and (mostly) a database, runs in a transaction on a connection of a
cached pool, and answers with text inside a byte budget.

This directory keeps the TLA+ model of it: what is modelled, what TLC checks and what TLAPS
proves. Paths below are relative to the repository, `pg/` stands for `internal/source/postgres/`
and `core/` for `internal/mcpsrv/`.

## Inventory

| component | state | operations | what is hard | what makes it correct |
|---|---|---|---|---|
| Pool cache `pg/pool.go` | entries by address, recency list, users per entry, `dead`, `closed` | `acquire`, `release`, `forget`, `Close` | goroutines interleave between lock regions; pools are closed outside the lock; eviction takes pools in use | a pool in use stays open, each pool is closed once and by somebody, the limit holds, evictions are justified |
| Call lease `pg/lease.go`, `pg/query.go` | one transaction on one connection | `inTx`, `runQuery`, `explain`, `execute` | every message can fail, time out or lose the server; scripts can end the transaction they run in | read tools change nothing, limits hold, connections come back clean, the answer is true |
| Process lifecycle `core/main.go`, `core/serve.go`, `pg/source.go` | transport, signal, drain, the source | `serve`, `serveStdio`, `serveListener`, `drain`, `warm`, `Close` | two timers race the last answer; calls may never end | a signal ends the process, the source is closed only when quiet |
| Tool dispatch and failures `core/registry.go`, `core/cluster.go`, `core/failure.go`, `pg/errors.go` | none after start | `call`, `Find`, `failure` | which failure a chain of causes is | an unknown or read-only address never reaches a handler |
| Config loading `core/config.go`, `core/expand.go`, `pg/config.go` | none after start | `Load`, `Resolve`, `inherit`, `decode`, `checkSecrets`, `expand`, `Init` | three levels, checks before and after the merge | a literal secret on any level is refused |
| Block rendering `core/block/` | byte budget | `Markdown` | notices need room of their own, every kind of block can be cut | the answer stays in the budget and says what it cut |
| Readers of rows `pg/query.go`, `pg/catalog.go`, `core/status.go` | none | `runQuery`, `explain`, `execute`, `listTables`, `listDatabases`, the status | rows are cut by the reader and again by the renderer, in different units | what is shown is what there was; nothing is left out silently |
| Database reachability `pg/lease.go`, `pg/catalog.go` | none | `resolveDatabase`, `listDatabases` | include, exclude and the cut at the row budget interact | listed exactly when the tools accept it |
| Table description `pg/describe.go` | several queries in a transaction | `describeTable` | every query has a snapshot of its own | a description is of one relation, and whole if nobody changed it |
| Plugin launcher `plugins/postgres/bin/` | one cache directory | build, prune, exec | launchers of several versions at once, without a lock | one version is kept; launchers of one version do not harm each other |
| Read guard and lexer `pg/guard.go`, `pg/lex.go` | none | `guardRead`, `tokens` | text | a denied call is found wherever it stands |
| Declarations `pg/conn.go`, `pg/tools.go`, `core/schema.go`, `core/instructions.go`; tests' support | none | - | - | not modelled: derived text and wiring |

How they interact: the transport calls `Registry.call`, which finds the cluster and calls the
handler `inTx` made; `inTx` acquires a pool, leases a connection with a transaction and calls
the tool. `warm` acquires pools in goroutines of its own. `serve` closes the source, and with it
the cache, when the transport is done. What a tool returns goes through a reader of rows into
blocks, and through `Markdown` into the text of the answer. The only shared mutable state in a
process is the pool cache, under one mutex; processes share the config file and, when started by
the plugin, the launcher's cache directory; and every transaction shares its database with the
sessions of others.

## The modules

`PoolCache` is `pg/pool.go`. A caller (a call or a warmer) is a process with a `pc`; every
action is one lock region or one thing done outside it, which is where the code can be
interleaved.

| code | model |
|---|---|
| `byAddr`, `lru`, `refs`, `dead`, `closed` | the variables of these names; `lru` is the order as a relation, `<<e, f>>` when `e` is nearer the back |
| `entry.idleSince` and the clock | `aged`: the entries whose `idleSince` lies an `idleTimeout` back; `IdleTimeoutPasses` is time passing, `Sweeps` the clusters whose timeout is positive |
| `pgxpool.Pool` | `driver`: "none", "open", "closed" |
| `acquire` | `Acquire` and its failing forms, sweep, lookup, open and eviction in one step; the deferred closes are steps of their own on the caller's `stale` |
| `release`, `forget`, `Close` | actions for the lock region, then the close outside it; the goroutines of `Close` are `closers` |

`PoolPromise` is what the rest of the program may rely on: a user gets a serving pool, a pool
closes only when retired and without users, and after a shutdown none is handed out. `PoolCache`
is checked to implement it (`KeepsPromise`), liveness of the closes included, its safety half is
proved (`CacheKeepsItsPromise`), and `Server` uses it in place of the cache.

`Lease` is one call on one connection: `inTx` with `runQuery` or `execute`. The client side is
the code. The driver and the server session are external and modelled by what the code uses of
them: statements of a message run in order, an error skips the rest, statements outside a
transaction form an implicit one, `SET LOCAL` ends with its transaction, a COMMIT of a failed
transaction rolls back, a connection whose context expires is closed, a connection still in a
transaction after a failed Commit is closed. The client's `pc` is the message it is at: begin,
limits, declare, script, commit, rollback. A script is made of statements of eight kinds: one
that succeeds and reads or writes, one that fails, COMMIT, ROLLBACK and BEGIN, and two that
switch off the limit of the transaction, `SET LOCAL` and a query that calls `set_config`. The
guard of a read tool knows the first keyword of the text and finds the call wherever it stands
(`RefusedByGuard`); a write script is sent as it is. `lifted` records that a script used one of
them, so that `LimitHolds` can say who may run past `timeouts.query`: a read tool never, a write
tool only after its script ended the transaction or lifted the limit. A query that has read the
row past its budget has its answer and ignores how the rest of the reply ends (`Answers`). `CallPromise` is the same call seen from outside:
changes land all at once or not at all, success comes after the fact, failure is final.

`Server` is one process from start to exit: transport, signal, drain, close, exit status, with
calls and warmers as users of `PoolPromise`. `DrainTimesOut` and `Drained` are the two arms of
the select of `drain` (`core/serve.go:94-102`). The transport's stop ends well, at its deadline
or, once nothing runs any more, with an error of its own, which `DrainResult` passes on and
which makes the exit a failure (`FailsOnlyWithStop`).

`Config` is what `Load` computes: `Inherit` over the three levels, `CheckSecrets`, `Expand`,
`Decode` on top of the defaults, `Validate`, and `Loads`, which puts them in the order of
`core/config.go`. A level is a partial function of keys, nested once as the source's groups are;
values are literals, `${VAR}` or `${VAR:-text}`. `Unfit` are the values of a setting that match
the schema and not the Go type (a duration or an integer that overflows): a level that is decoded
on its own fails on them (`Fits`), the global one even if every cluster says something else.
`Invalid` are those `Validate` refuses. Beside it stands what an operator means by a
document, without a merge in it: `Word` is what the lowest level says, `InForce` its value,
`Usable` a file a server can work with.

`Startup` puts `Load` and `Init` at the file system, one access per action: a server resolves
the path, looks for the file, reads it, resolves again for the status; `--init` looks, opens
(which truncates) and writes, and may be killed in between; an operator changes any file at any
time. A server that has started answers calls (`Result` is `Registry.call` with `Find`).
`touched` marks the servers whose file changed after they began to start.

`Render` is `block.Markdown`. A step is one turn of a loop: a block begins, one of its lines is
kept, the block ends. A text is its length in bytes, the fixed words of the notices included; a
cell is a number of characters and what each takes when it is written, escaped where it has to
be. `Reserve` is `noticeReserve`. A table has a column, as every table the sources make. A
response and the text of all of it are in memory (`InMemory`), so an int counts their bytes:
that is why the `math.MaxInt` of a call without a budget never cuts anything.

`Answer` EXTENDS it with what comes before: the rows the server has, what each reader keeps of
them (the row past the budget, the bytes `textRow` copies, the databases `resolveDatabase`
accepts), and a failure at any result. `Those` is the loop that keeps the rows a test accepts,
in order. Its properties compare the text with `Available`: what a reader that knows no budget
would have handed over.

`Describe` is `describeTable`: each of its queries is an action that reads `catalog` as it is at
that moment, because the transaction is READ COMMITTED and holds no locks on what it describes.
The other sessions are external: they drop, create, alter and repartition relations between any
two queries. A name is resolved once, to an oid, and an oid is never reused.

`Launcher` is the shell script of the plugin, one command per action, for any number of
launchers on one cache directory. `go install` is external: it puts a binary in place at once or
fails. `rm` may fail, which ends the launcher (`PruneFails`), as a manifest without a version
does. A launcher may be killed anywhere; the command it waits for is a process of its own and
goes on: a build gets its version in place with no loop to follow (`OrphanInstalls`), one `rm`
gets to its end (`OrphanPrunes`). `strays` are the versions left in the cache by a build whose
loop did not end, and the manifest changes when the plugin is updated.

The modules named `MC...` hold the instances; those named `...Proofs`, and `PoolCacheEviction`,
the theorems. Definitions marked *Mistake* are plausible errors of the code next to the
definition they would replace; no specification uses them, they document what each property
would catch.

## The runs

| run | bounds | what it shows |
|---|---|---|
| `pool_safety` | 2 callers, 2 clusters (limits 1 and 2, idle timeout in one), 3 databases, 4 pools | no interleaving closes a pool in use or closes one twice, loses one, overfills a cluster or evicts one that should stay |
| `pool_liveness` | 2 callers, limit 1, 2 databases, 3 pools, sweep on | `KeepsPromise` and that a shutdown closes every pool, under fairness |
| `pool_ceiling` | 2 callers, limit 1 | finding, see below |
| `lease` | a read and a write tool, scripts of up to 3 of the eight kinds of statement, limit 2, margin 1 | read-only, limits, clean return, survival of the connection, truth of the answer, `CallPromise`, that every call ends and nothing is retried |
| `lease_script_end`, `lease_expiry` | scripts of up to 3, limit 1 | findings |
| `server` | 2 calls, 1 warmer, 2 pools, both transports, configured and degraded | the order of drain, close and exit; a signal ends the process |
| `startup` | 1 server, 1 `--init`, 1 edit, 2 paths, 3 ways to name them, about 210 documents of up to 2 environments and 3 addresses | `Load` against the reference definitions, calls against the file, every order of the accesses to the file system |
| `startup_init` | the same | finding |
| `answer` | every reading tool, up to 4 rows against row budgets of 0 and 2, cell caps of 0 and 2, byte budgets of none and from 100 to 500 | within the budget; whole without a notice; a notice is true; nothing left out but at a budget |
| `describe` | up to 2 names (3 in a call), 3 oids, 2 changes by others, up to 2 partitions with 1 listed, up to 2 relations described | of one relation; whole if undisturbed; every name or none |
| `launcher` | 3 launchers, 3 versions | one version left at rest, apart from builds no loop followed to its end; who can take a binary from whom |

Why these bounds are enough to be interesting: an eviction of a pool in use needs one pool more
than the limit and a caller that holds the victim while another acquires (2 callers, limit 1); a
wrong choice needs two candidates that stay or go (limit 2, 3 databases); a successor at a
forgotten address needs a second entry for one address (pools outnumber databases); clusters
interfere only when there are two. `Entries` bounds how many pools a behaviour opens: when they
are used up, an acquire that would open one more is not taken. A script of three statements has
room for a statement before and after the one that ends the transaction. The clock of `Lease`
counts units up to `ClientDeadline`, which is `QueryTimeout + Margin` as in `pg/config.go`; two
units of limit let a statement stop short of it, reach it and be cancelled. Server's calls
differ in nothing but where they are, so two give one that ends in time and one that does not.
The documents of `Startup` combine, level by level, what the properties tell apart: nothing
said, part of a group, a literal secret, a secret with a default, a variable that is not set or
set and empty, a default overridden by the empty value, a duration that overflows, is zero or is
proper on each level, `readOnly` set and cleared. Files start
out absent, so one edit puts any of them anywhere at any moment of a start; the interesting
races (a file that comes or goes between two accesses, an edit after `--init` looked) need one
edit.

The notices and their reserve take 257 bytes of a budget, 376 with the clause on cells, so the
byte budgets of `answer` lie below, just above and well above them; the values lie on both sides
of the two characters of the cap and of the twelve bytes `textRow` keeps for them, and a row
budget of two meets results of none to four rows, which is below, at, one above and two above.
`MaxInt` is 999999999 there, the largest nine digits; the reserve depends on its digits alone.
In `describe` the code's limits of 20 are 1 and 2, met from both sides; two changes allow a
relation to be dropped and another to take its name, or one to be altered on both sides of a
query; the third oid is the successor's. In `launcher` two versions are enough for a race, and
the third launcher and version allow a prune of two directories to be overtaken.

Deadlock is checked in the runs of the pool, of `Startup` and of `Launcher`. A call of `Lease`,
`Answer` or `Describe` and a process of `Server` end, so their runs do not check it.

### Fairness

`PoolCache`: goroutines run, so each caller's steps after an acquire (release, closing what it
dropped) and the goroutines of `Close` are weakly fair. No call need ever begin, and `Close`
need never be called. A held pool is released because every call ends, which is `CallEnds` of
`Lease`. `Lease`: the client's own steps and the clock are weakly fair and the server cancels a
statement at its limit; it need not do anything else, not even answer. `Server`: the main
goroutine and the timers are weakly fair; no call need end, no signal need come. `Startup`,
`Answer`, `Describe` and `Launcher` have safety properties only and assume no fairness.

### Findings

Four statements of the repository do not hold of the code. Each run shows one.

- `pool_ceiling`: "Pool caps how much of someone else's server we occupy: maxDatabases times
  maxConnsPerDatabase is the ceiling" (`pg/config.go:81-82`). An evicted pool keeps its
  connections until its last call ends (`pg/pool.go:145`), so more pools are in use.
- `lease_script_end`: `pg_write_execute` "reports it when the script closed the transaction
  itself" (`docs/adr/0001`, line 73). A script that commits and then fails answers with the
  error alone (`pg/query.go:133-135`).
- `lease_expiry`: the expiry of the client's deadline "is evidence, not just a timeout"
  (`pg/errors.go:55-57`) of a pooler dropping `statement_timeout`. The deadline covers the call
  and `statement_timeout` each statement: a script of short statements runs past the one and
  never reaches the other.
- `startup_init`: "an existing file is not overwritten" (`docs/adr/0002`, line 29, in Russian;
  "--init refuses to overwrite", `core/config.go:216`). `Init` looks and then truncates
  (`core/config.go:373`, `:387`); a file that came to be in between is lost.

Some statements are met on the way and have no run, because the model states them as narrowly as
they are true, or leaves out the part they are about:

- An error of the second `Resolve` "is the same one Load already turned into a degraded start"
  (`core/main.go:161-162`) holds only of a start nobody disturbs. A file removed between the two
  leaves a server that serves and shows no path; `ShowsWhatItRead` allows it of the default path
  and not of a named one.
- "Calls in flight get 5s, then the pools are closed hard" (`docs/adr/0003`, line 38, in
  Russian): a drain that times out leaves without closing the source (`core/main.go:187-190`),
  and a pool in use would not be closed there either.
- "Later blocks of this response were cut or dropped for the same reason"
  (`block/markdown.go:200`): the first block may be cut by `maxRows` and a later one by
  `maxBytes`. `NoticeIsTrue` asks that later blocks were cut, not why.
- "Listed exactly when reachable" (`pg/catalog.go:42`): template databases are left out of the
  list by its query, and `resolveDatabase` accepts them.
- The number of partitions "has to agree with the list" (`docs/adr/0004`, line 77, in Russian):
  it does, as `WholeWhenUndisturbed` says, unless somebody attaches or detaches one between the
  two queries.
- A byte budget below the reserve of the notices cannot be kept: the answer is then a notice
  alone, which `WithinBudget` states.

## The proofs

TLAPS proves the following for every value of the constants; the assumptions are the named
`ASSUME`s of each module (`PoolCacheAssumption`, `LeaseAssumption`, `ServerAssumption`,
`ConfigAssumption`, `StartupAssumption`, `RenderAssumption`, `AnswerAssumption`,
`DescribeAssumption`, `LauncherAssumption`), which TLC evaluates in every run of the module.
They say no more than what a constant is: a number, a finite set, a value that is not one of the
others. `AnswerAssumption` says two things of the world outside besides: only a script has more
results than one, and every database has a name.

`PoolCacheProofs`. The conjuncts of `PoolInv` hold each other up, which is why none of them is
proved alone. `HeldIsOpen` needs that whoever is about to close an entry found it unreferenced
and out of the cache (`ClosedOnce`), and that "unreferenced" means what it says
(`RefsCountHolders`, the cardinality lemmas `HeldByOneMore` and `HeldByOneLess`). `ClosedOnce`
needs that an entry leaves the cache once (`Lifecycle`) and that map and list agree on what is
in it (`CacheAgrees`), or an eviction and a forget could both drop it. `PhasesAgree` says what a
caller holds in each phase. Every action has a lemma of its own, `HandOutInv` for the long lock
region of `acquire`; the theorems after `SpecInv` read the safety properties off it.

`PoolCacheEviction` adds what evictions need: `EvictInv` is `PoolInv` with `LruIsOrdered` (the
recency list is a total order of what it holds), `WithinLimit`, and that a pool the sweep may
take rests unused. `OneIsPreferred` finds the one victim, as the entry of least rank;
`BeforeOverflow` shows that a cluster is over its limit by one at most when the loop of
`evictOverflow` begins, which is why one victim is enough; `ShedsOne` says that it is the least
useful and not the pool just opened. From these follow the limit and both action properties. The
last section takes each step to a step of `PoolPromise` or to none: `CacheKeepsItsPromise` is
the safety half of `KeepsPromise`.

`LeaseProofs`. The invariant follows the transaction the tool opened (`Stands`): it is there,
READ ONLY for a read tool, and limited once the limits are set, at every message between the
answer to BEGIN and the end of the script (`StandsInside`), unless the script of a write tool
lifted its limit. With `Guarded` and the lemma `Messages` (what the server can find in the
message of a phase) a read tool's text can neither write nor end the transaction nor lift the
limit, which is `ReadStaysRead`; the limit holding is what makes `Tick`
stop at it; `OverAtTheEnd` is the clean connection. Scripts, limits and margins are of any
length.

Two further invariants build on it. `WritesFollow` ties what is durable to the messages that
were answered, for `SuccessIsTrue`: a success is answered only once the changes are there,
whatever the script did to its transaction. `PromiseInv` with `LandsAtOnce` does the same for
every change at once, and `CallsKeepTheirPromise` is the whole refinement: every step of `Lease`
is one of `CallPromise` or none, for every script that leaves its transaction alone.

`CallsAdvance` is the half of termination that needs no fairness. `Distance` counts what is
left: phases ahead, their messages, statements the server still has, an open transaction, time.
Every step takes some of it and none gives it back, because nothing is retried; a new phase
outweighs all the work its message gives the server (`PhaseOutweighs`). `WorkInv` adds that the
server never runs past its message, and that a rollback meets neither an error nor a limit. So a
call, with what it leaves running on the server, has finitely many steps; that it does not stop
before its end is the other half, which needs fairness and is `CallEnds`.

`ServerProofs`. Once a drain has begun nothing new arrives (`AcceptsWhileServing`), so what stop
found out stays true until the source is closed (`StopIsRight`): an error of stop, as well as its
success, comes with nothing in flight, and a drain that leaves calls behind carries the error
that keeps the source open (`EndIsKnown`, `ExitIsKnown`).

`StartupProofs` has two parts. The first is about `Config` alone: `InheritLaw` says what one
merge does to one setting, `ClusterLevelHasTheWord` that two merges leave the lowest word,
`SecretsOnEveryLevel` that the three checks of merged levels amount to a check of every level as
written, and `LoadsTheUsable` that `Load` accepts exactly the usable documents, whatever the
document. The second follows a start: `PhaseInv` and `LoadInv` say what each phase has found
out, `PathInv` that it is still so while nobody touches the file, which is what the property on
paths, the one on advice and the one on the status need; `FileStep` is the one lemma for every
change of a file. `NamedInv` is the part of paths and status that holds whatever happens to
files: a start looks where `--init` would write, and a named path is the one that is read and
shown.

`AnswerProofs` goes from the rows of the server to the text, in four parts.

- `RenderInv` keeps the accounts of the bytes: what is spent and what is left make up the room,
  and only the frame of a block that got no line is overspent. The lemmas on digits and words
  show that no notice a response can end in is wider than `Reserve`. Together they are
  `WithinBudget`, for every response of any blocks and every budget.
- `WrittenInv` adds what was written and what is said of it. `Ended`: a block kept its lines up
  to the last, or to one that did not fit. `Reported`: there is a notice for each block that ended
  short and for no other, the first of them first, and the rest was dropped with no room left.
  `Memory` is why an answer without a byte budget is never cut: as long as the response is in
  memory, what is written stays below what it takes there (`EveryLineFits`).
- `Reading` follows the reader: which blocks it has handed over, for each tool, and after each
  result of a script. `AnswersAreRendered` is a refinement: `Answer` takes only steps of
  `Render`, so `TypeOK` and `WithinBudget` hold of the answers of the tools.
- `Faithful` joins the two. A block is faithful to all the lines there are if it has the first of
  them, as far as a cell cap lets see, has a notice exactly if there are more, and lacks the rest
  at a budget. There is a lemma for each way a reader makes a block: what `textRow` cuts off a
  value is past the cap (`CellBytes`), the row past the budget is enough to know that there is
  more, a count of all rows is the total, the databases filtered are the reachable ones, and the
  lines of a plan that were not kept would not have fitted, since the text of a plan is the sum
  of its lines (`PlanWritten`). `AnswerFaithful` says it of every block of every answer, and the
  three properties of `Answer` are read off it with `WrittenInv`.

Sums of bytes and the loop that filters are recursive functions. What holds at every index of one
is proved by the least counterexample (`UpTo`, from the well-foundedness of `<` on the naturals),
with the law of the function stated first (`SumsLaw`, `PassingLaw`).

`DescribeProofs`. `Dictionary` says that a name leads to one relation, `Subjected` that the
relation in hand only moves on from what it was when it was resolved, `Collected` that what the
queries found so far is of it, and of exactly the queries asked if nobody disturbed it. The two
properties are conjuncts of the invariant, because an answer once given is kept.

`LauncherProofs`. `OneWillGo` is why one version is left: as long as there are two that are no
strays, some launcher will still see one of them in its glob and remove it. `KeptUnlessRivalled`
is why launchers of one version agree: a binary goes only with a launcher of another version
that built.

Some theorems state an invariant no run names, because it is a conjunct of one:
`RefsCountHolders`, `EmptyOnceClosed`, `FailsOnlyWithStop`, `LruIsOrdered`, and the types of
`Launcher` and `Server`.

Every invariant and every action property a passing run checks is a theorem. Only model-checked:
the fairness of `PoolPromise` in `KeepsPromise` of the cache, and all liveness
(`ShutdownClosesEverything`, `CallEnds`, `SignalEnds`). Fairness and ENABLED are out of the
prover's reach, as are the library's induction theorems that take an operator for a parameter;
no module uses a RECURSIVE operator.

## Not modelled

Of the modelled components: wording, logging, what a pool reads of its config, which characters
are escaped (a number of bytes here), timeouts of locks, the flags that answer and exit. The
catalog tools and `explain` are the same call as in `Lease` with other statements; what they
read is in `Answer` and `Describe`. The driver's own pool of connections is one connection per
call. A write tool may leave session settings behind that outlive its transaction (`SET` without
`LOCAL`, committed): the session of `Lease` has only what the call itself sets. `Lease` and
`PoolCache` are not composed: `PoolCache` lets any call forget its pool at any moment it could,
which is more than a failed connection attempt does.

Of the configuration: the schema (a file that does not match is `Malformed`), which of several
faults is reported, the walk over Go types that finds the fields tagged secret (`SecretFields`
is given), and the `output` and `tools` groups, which only the global level has (`Answer` takes
any `output`). Of the dispatch: tools that name no cluster and the classification of errors, of
which `Lease` has what decides whether a change is durable.

The guard (`pg/guard.go`) and its lexer are one pure function on text, character by character; a
model would repeat the code rather than check it. The READ ONLY transaction, "what actually
holds" (`pg/guard.go:15`), is in `Lease`, with what the guard decides about a first keyword and a
call of `set_config`; the effects of the other functions on the deny list are not. Connection strings, tool tables, schemas and
instructions are derived once from static data. Test support is not part of the program.

## Plan

1. *done* `PoolCache`, `PoolPromise`, and the proof of the invariant.
2. *done* `Lease`, `CallPromise`, the proof of the invariant, and that every step uses something
   up.
3. *done* `Server`, and the proof of the invariant.
4. *done* `Config` and `Startup` with the dispatch of calls, and the proofs of both.
5. *done* `Render`, and the proof that the budget holds.
6. *done* `Answer`: the readers of rows, `listDatabases` with reachability, and the rendering as
   one; that it implements `Render`, and the proofs of its three properties.
7. *done* `Describe`, and the proof of the invariant.
8. *done* `Launcher`, and the proof of the invariant.
9. *done* the limit and the evictions of the cache, and both refinements, proved.

What is left would be: `failure` over chains of causes against a table of kinds; the guard on
sequences of tokens; the composition of `Lease` and `PoolCache` for `forget`.
