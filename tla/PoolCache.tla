------------------------------ MODULE PoolCache ------------------------------
(***************************************************************************)
(* The pool cache of the postgres source, internal/source/postgres/pool.go. *)
(*                                                                         *)
(* One address (a database of a cluster) is one pgxpool.  Calls acquire a   *)
(* pool, use it and release it; the cache drops pools on four occasions:   *)
(* the cluster is over its pool.maxDatabases, the pool was idle for the    *)
(* cluster's pool.idleTimeout, its server never answered, or the process   *)
(* is leaving.  A dropped pool is closed outside the lock, by whoever       *)
(* dropped it or, when somebody still holds it, by the last release.       *)
(*                                                                         *)
(* Every function of the cache holds one mutex from its first to its last  *)
(* read of the cache, so its critical section is one step.  What it does   *)
(* after the unlock - closing pools - is steps of its own, interleaved     *)
(* with every other call.                                                  *)
(***************************************************************************)
EXTENDS Integers, FiniteSets

CONSTANTS Callers,      \* goroutines: tool calls and the warm-up of Source.warm
          Clusters,     \* mcpsrv.Address values
          Databases,
          Entries,      \* the entries ever made; each gets a pgxpool of its own
          MaxDatabases, \* pool.maxDatabases of every cluster
          Sweeps,       \* clusters whose pool.idleTimeout is positive
          None          \* no entry

Address == [cluster : Clusters, database : Databases]

ASSUME PoolCacheAssumption ==
    /\ IsFiniteSet(Callers)
    /\ IsFiniteSet(Clusters)
    /\ IsFiniteSet(Databases)
    /\ MaxDatabases \in [Clusters -> Int]
    /\ Sweeps \subseteq Clusters
    /\ None \notin Entries \cup Address

VARIABLES
    byAddr,   \* address -> the entry cached for it, or None
    lru,      \* the list, as the order it keeps: <<e, f>> when e is f or further back
    addr,     \* entry -> the address it was made for
    refs,     \* entry -> how many calls hold it
    dead,     \* the entries dropped from the cache
    aged,     \* entries whose idleSince lies further back than their idle
    closed,   \* Close has run
    driver,   \* entry -> its pgxpool: "none" before NewWithConfig, "open", "closed"
    pc,       \* caller -> where it is
    held,     \* caller -> the entry it holds
    stale,    \* caller -> the pools it has to close, outside the lock
    closers,  \* pools a goroutine of Close is about to close
    rested    \* history: entries unused for a whole idleTimeout

cache == <<byAddr, lru, addr, refs, dead>>
vars  == <<cache, aged, closed, driver, pc, held, stale, closers, rested>>

------------------------------------------------------------------------------
(* The data structures *)

Listed(list) == {e \in Entries : <<e, e>> \in list}

\* list.PushFront, and list.MoveToFront when e is in the list already.
ToFront(list, e) ==
    {p \in list : e \notin {p[1], p[2]}} \cup ((Listed(list) \cup {e}) \X {e})

\* Mistake: drop leaves the entry in the list.
NotRemoved(list, S) == list

\* list.Remove of every entry of S.
Removed(list, S) == {p \in list : p[1] \notin S /\ p[2] \notin S}

\* delete(byAddr, e.addr) for every entry e of S.
Deleted(map, S, at) == [a \in Address |-> IF \E e \in S : at[e] = a THEN None ELSE map[a]]

Count(map, cluster) == Cardinality({a \in Address : a.cluster = cluster /\ map[a] # None})

AtLeastOne(n) == IF n > 1 THEN n ELSE 1

\* Mistake: the sweep does not ask whether somebody holds the entry.
IdleOrBusy == {e \in Listed(lru) : addr[e].cluster \in Sweeps /\ e \in aged}

\* The entries sweepIdle drops.
Idle == {e \in Listed(lru) : addr[e].cluster \in Sweeps /\ refs[e] = 0 /\ e \in aged}

\* Mistake: the least recently used entry goes, busy or not.
PrefersOlder(e, f, list, count) == e # f /\ <<e, f>> \in list

\* evictable prefers e to f: one nobody is using, then the least recently used.
Prefers(e, f, list, count) ==
    /\ e # f
    /\ IF (count[e] = 0) = (count[f] = 0) THEN <<e, f>> \in list ELSE count[e] = 0

\* Mistake: a cluster may hold one entry more than its limit.
ExcessLate(cluster, map) == Count(map, cluster) - AtLeastOne(MaxDatabases[cluster]) - 1

Excess(cluster, map) == Count(map, cluster) - AtLeastOne(MaxDatabases[cluster])

\* The entries evictOverflow drops.  Dropping one changes neither the order nor
\* the references of the others, so the loop takes the entries of the cluster in
\* order of preference until it is back within the limit.
Overflow(cluster, map, list, count, at) ==
    LET ofCluster == {e \in Listed(list) : at[e].cluster = cluster}
    IN  {e \in ofCluster :
           Cardinality({f \in ofCluster : Prefers(f, e, list, count)}) < Excess(cluster, map)}

\* drop takes the entries of S out of the cache; closing them is up to the caller.
Drop(S) ==
    /\ byAddr' = Deleted(byAddr, S, addr)
    /\ lru'    = Removed(lru, S)
    /\ dead'   = dead \cup S

------------------------------------------------------------------------------
(* acquire *)

Referenced(e) == [refs EXCEPT ![e] = @ + 1]

\* The lock section of acquire once it has an entry e for address a: e is at the
\* front of the list, referenced, and only then does the cluster shed overflow.
HandOut(c, a, e, at) ==
    LET map     == [Deleted(byAddr, Idle, addr) EXCEPT ![a] = e]
        list    == ToFront(Removed(lru, Idle), e)
        count   == Referenced(e)
        evicted == Overflow(a.cluster, map, list, count, at)
    IN  /\ addr'   = at
        /\ refs'   = count
        /\ byAddr' = Deleted(map, evicted, at)
        /\ lru'    = Removed(list, evicted)
        /\ dead'   = dead \cup Idle \cup evicted
        /\ stale'  = [stale EXCEPT ![c] = Idle \cup {x \in evicted : count[x] = 0}]
        /\ held'   = [held EXCEPT ![c] = e]
        /\ rested' = rested \ {e}

\* Mistake: the entry is used before looking whether there is one.
AcquireBlindly(c, a) ==
    /\ HandOut(c, a, Deleted(byAddr, Idle, addr)[a], addr)
    /\ UNCHANGED <<aged, driver>>

AcquireHit(c, a) ==
    LET e == Deleted(byAddr, Idle, addr)[a]
    IN  /\ e # None
        /\ HandOut(c, a, e, addr)
        /\ UNCHANGED <<aged, driver>>

AcquireMiss(c, a) ==
    /\ Deleted(byAddr, Idle, addr)[a] = None
    /\ \E e \in Entries :
         /\ driver[e] = "none"
         /\ driver' = [driver EXCEPT ![e] = "open"]
         /\ aged'   = aged \ {e}
         /\ HandOut(c, a, e, [addr EXCEPT ![e] = a])

\* Mistake: the error path forgets the pools the sweep dropped.
AcquireLosesStale(c, a) ==
    /\ Deleted(byAddr, Idle, addr)[a] = None
    /\ Drop(Idle)
    /\ UNCHANGED <<addr, refs, aged, driver, held, stale, rested>>

\* poolConfig or NewWithConfig refuses the address: what the sweep dropped is
\* still closed on the way out.
AcquireCannotOpen(c, a) ==
    /\ Deleted(byAddr, Idle, addr)[a] = None
    /\ Drop(Idle)
    /\ stale'  = [stale EXCEPT ![c] = Idle]
    /\ UNCHANGED <<addr, refs, aged, driver, held, rested>>

Serving == ~closed

Acquire(c) ==
    /\ pc[c] = "idle"
    /\ Serving
    /\ \E a \in Address : AcquireHit(c, a) \/ AcquireMiss(c, a) \/ AcquireCannotOpen(c, a)
    /\ pc' = [pc EXCEPT ![c] = "acquired"]
    /\ UNCHANGED <<closed, closers>>

\* The cache is closed, or the caller's context is done: an error, nothing read.
AcquireRefused(c) ==
    /\ pc[c] = "idle"
    /\ pc' = [pc EXCEPT ![c] = "acquired"]
    /\ UNCHANGED <<cache, aged, closed, driver, held, stale, closers, rested>>

\* acquire returns once its deferred closes are done: with a pool, or an error.
AcquireReturns(c) ==
    /\ pc[c] = "acquired"
    /\ stale[c] = {}
    /\ pc' = [pc EXCEPT ![c] = IF held[c] = None THEN "idle" ELSE "using"]
    /\ UNCHANGED <<cache, aged, closed, driver, held, stale, closers, rested>>

------------------------------------------------------------------------------
(* forget and release *)

\* Mistake: drop hands back every pool it drops.
CloseAll(S) == S

\* What drop hands back for an entry: its pool, unless somebody holds it.
ToClose(S) == {e \in S : refs[e] = 0}

\* Mistake: forget does not compare the pool, and drops whatever is at the address.
CachedThere(e) == {byAddr[addr[e]]} \ {None}

\* The entry a caller forgets, if it is still the one at its address.
StillCached(e) == {x \in {e} : byAddr[addr[e]] = x}

\* The call never got a connection; it drops the pool it holds and only that one.
Forget(c) ==
    LET dropped == StillCached(held[c])
    IN  /\ pc[c] = "using"
        /\ Drop(dropped)
        /\ stale'  = [stale EXCEPT ![c] = ToClose(dropped)]
        /\ pc'     = [pc EXCEPT ![c] = "forgot"]
        /\ UNCHANGED <<addr, refs, aged, closed, driver, held, closers, rested>>

\* Mistake: the last release leaves a dropped pool to the eviction.
CloseNever(e, count) == {}

\* Mistake: release closes a dropped pool, whoever else still uses it.
CloseDead(e, count) == {x \in {e} : x \in dead}

\* closeNow: e was dropped and this was its last reference.
CloseNow(e, count) == {x \in {e} : x \in dead /\ count[x] = 0}

Release(c) ==
    LET e == held[c]
    IN  /\ pc[c] \in {"using", "forgot"}
        /\ stale[c] = {}
        /\ refs'  = [refs EXCEPT ![e] = @ - 1]
        /\ aged'  = IF refs'[e] = 0 THEN aged \ {e} ELSE aged
        /\ stale' = [stale EXCEPT ![c] = CloseNow(e, refs')]
        /\ held'  = [held EXCEPT ![c] = None]
        /\ pc'    = [pc EXCEPT ![c] = "released"]
        /\ UNCHANGED <<byAddr, lru, addr, dead, closed, driver, closers, rested>>

ReleaseReturns(c) ==
    /\ pc[c] = "released"
    /\ stale[c] = {}
    /\ pc' = [pc EXCEPT ![c] = "idle"]
    /\ UNCHANGED <<cache, aged, closed, driver, held, stale, closers, rested>>

\* pool.Close of one of the pools c took out of the cache, without the lock.
CloseStale(c) ==
    /\ \E e \in stale[c] :
         /\ driver' = [driver EXCEPT ![e] = "closed"]
         /\ stale'  = [stale EXCEPT ![c] = @ \ {e}]
    /\ UNCHANGED <<cache, aged, closed, pc, held, closers, rested>>

------------------------------------------------------------------------------
(* Close, and the clock *)

Close ==
    /\ closed'  = TRUE
    /\ Drop(Listed(lru))
    /\ closers' = closers \cup ToClose(Listed(lru))
    /\ UNCHANGED <<addr, refs, aged, driver, pc, held, stale, rested>>

\* A goroutine of Close closes its pool.
CloseInBackground ==
    /\ \E e \in closers :
         /\ driver'  = [driver EXCEPT ![e] = "closed"]
         /\ closers' = closers \ {e}
    /\ UNCHANGED <<cache, aged, closed, pc, held, stale, rested>>

\* More than the idleTimeout of its cluster has passed since e.idleSince.
IdleTimeoutPasses(e) ==
    /\ e \in Listed(lru)
    /\ addr[e].cluster \in Sweeps
    /\ e \notin aged
    /\ aged'   = aged \cup {e}
    /\ rested' = IF refs[e] = 0 THEN rested \cup {e} ELSE rested
    /\ UNCHANGED <<cache, closed, driver, pc, held, stale, closers>>

------------------------------------------------------------------------------
Init ==
    /\ byAddr  = [a \in Address |-> None]
    /\ lru     = {}
    /\ addr    = [e \in Entries |-> None]
    /\ refs    = [e \in Entries |-> 0]
    /\ dead    = {}
    /\ aged    = {}
    /\ closed  = FALSE
    /\ driver  = [e \in Entries |-> "none"]
    /\ pc      = [c \in Callers |-> "idle"]
    /\ held    = [c \in Callers |-> None]
    /\ stale   = [c \in Callers |-> {}]
    /\ closers = {}
    /\ rested  = {}

Next ==
    \/ \E c \in Callers :
         \/ Acquire(c) \/ AcquireRefused(c) \/ AcquireReturns(c)
         \/ Forget(c) \/ Release(c) \/ ReleaseReturns(c) \/ CloseStale(c)
    \/ \E e \in Entries : IdleTimeoutPasses(e)
    \/ Close
    \/ CloseInBackground

\* A call ends by its own deadline, and pgxpool's Close gives up on a silent
\* socket after the driver's cleanup timeout, so what was begun is finished.
\* Nobody has to call, to shut down or to wait for an idle timeout.
Fairness ==
    /\ \A c \in Callers :
         WF_vars(AcquireReturns(c)) /\ WF_vars(Release(c))
         /\ WF_vars(ReleaseReturns(c)) /\ WF_vars(CloseStale(c))
    /\ WF_vars(CloseInBackground)

Spec     == Init /\ [][Next]_vars
FairSpec == Spec /\ Fairness

------------------------------------------------------------------------------
(* Safety *)

TypeOK ==
    /\ byAddr \in [Address -> Entries \cup {None}]
    /\ lru \subseteq Entries \X Entries
    /\ addr \in [Entries -> Address \cup {None}]
    /\ refs \in [Entries -> Int]
    /\ dead \subseteq Entries
    /\ aged \subseteq Entries
    /\ rested \subseteq Entries
    /\ closed \in BOOLEAN
    /\ driver \in [Entries -> {"none", "open", "closed"}]
    /\ pc \in [Callers -> {"idle", "acquired", "using", "forgot", "released"}]
    /\ held \in [Callers -> Entries \cup {None}]
    /\ stale \in [Callers -> SUBSET Entries]
    /\ closers \subseteq Entries

Holders(e) == {c \in Callers : held[c] = e}

\* A pool is never closed under a call that holds it, whatever evicts, forgets,
\* sweeps or shuts down meanwhile ("eviction never pulls a pool out from under a
\* running call", pool.go:29).
HeldIsOpen == \A c \in Callers : held[c] # None => driver[held[c]] = "open"

\* The reference count is the number of calls that hold the entry: no release is
\* lost and none is counted twice (pool.go:110, 118).
RefsCountHolders == \A e \in Entries : refs[e] = Cardinality(Holders(e))

\* The map and the list hold the same entries, each under its own address, and no
\* dropped one: forget goes by the map, eviction and Close by the list.
CacheAgrees ==
    /\ \A a \in Address : byAddr[a] # None =>
          byAddr[a] \in Listed(lru) /\ addr[byAddr[a]] = a
    /\ \A e \in Listed(lru) : addr[e] # None /\ byAddr[addr[e]] = e /\ e \notin dead

\* The list is a total order of its entries.
LruIsOrdered ==
    /\ lru \subseteq Listed(lru) \X Listed(lru)
    /\ \A e, f \in Listed(lru) :
          /\ <<e, f>> \in lru \/ <<f, e>> \in lru
          /\ <<e, f>> \in lru /\ <<f, e>> \in lru => e = f
    /\ \A e, f, g \in Listed(lru) : <<e, f>> \in lru /\ <<f, g>> \in lru => <<e, g>> \in lru

\* Somebody is bound to close e: one caller or one goroutine of Close, never two.
ClosedByOne(e) ==
    /\ \A c, d \in Callers : e \in stale[c] /\ e \in stale[d] => c = d
    /\ e \in closers => \A c \in Callers : e \notin stale[c]

\* A pool is closed once, by the one that dropped it or released it last, and what
\* it waits to be closed by is an entry out of the cache that nobody holds.
ClosedOnce ==
    \A e \in Entries :
      /\ ClosedByOne(e)
      /\ e \in closers \cup UNION {stale[c] : c \in Callers} =>
            driver[e] = "open" /\ e \in dead /\ refs[e] = 0

\* No pool is lost: an open one is in the cache, in somebody's hands, or about to be
\* closed - also after an acquire that failed behind a sweep (pool.go:92-101).
NothingLeaks ==
    \A e \in Entries : driver[e] = "open" =>
      \/ e \in Listed(lru)
      \/ Holders(e) # {}
      \/ e \in closers
      \/ \E c \in Callers : e \in stale[c]

\* No cluster keeps more pools than its pool.maxDatabases, and a limit below one
\* means one (pool.go:139).
WithinLimit ==
    \A k \in Clusters : Count(byAddr, k) <= 1 \/ Count(byAddr, k) <= MaxDatabases[k]

\* "maxDatabases times maxConnsPerDatabase is the ceiling" of what a cluster's server is
\* made to hold (config.go:81): no more pools of it are in use than its limit.
InUseWithinLimit ==
    \A k \in Clusters :
      Cardinality({e \in Entries : Holders(e) # {} /\ addr[e].cluster = k})
        <= AtLeastOne(MaxDatabases[k])

\* After Close the cache stays empty: an acquire under way cannot bring a pool back
\* that nobody would close (pool.go:80).
EmptyOnceClosed == closed => Listed(lru) = {} /\ \A a \in Address : byAddr[a] = None

\* Where a caller stands decides what it holds and what it still has to close.
PhasesAgree ==
    \A c \in Callers :
      /\ pc[c] \in {"using", "forgot"} => held[c] # None
      /\ pc[c] \in {"idle", "released"} => held[c] = None
      /\ pc[c] \in {"idle", "using"} => stale[c] = {}

\* An entry is made for an address, listed with an open pool, and then dropped.
Lifecycle ==
    \A e \in Entries :
      /\ e \in Listed(lru) => driver[e] = "open"
      /\ e \in dead => driver[e] # "none"
      /\ driver[e] # "none" => addr[e] # None /\ (e \in Listed(lru) \/ e \in dead)

\* The inductive invariant behind the safety properties above.
PoolInv ==
    /\ TypeOK
    /\ PhasesAgree
    /\ RefsCountHolders
    /\ HeldIsOpen
    /\ CacheAgrees
    /\ Lifecycle
    /\ ClosedOnce
    /\ NothingLeaks
    /\ EmptyOnceClosed

------------------------------------------------------------------------------
(* What a step may never do *)

Dropped     == Listed(lru) \ Listed(lru')
Acquires(c) == pc[c] = "idle" /\ pc'[c] = "acquired" /\ held'[c] # None
Forgets(c)  == pc[c] = "using" /\ pc'[c] = "forgot"

\* A drop that is neither a sweep of an unused entry, nor a forget of the caller's
\* own pool, nor the shutdown, is an eviction.
Evicted ==
    {e \in Dropped : /\ ~(closed' /\ ~closed)
                     /\ ~(e \in rested /\ refs[e] = 0 /\ addr[e].cluster \in Sweeps)
                     /\ ~\E c \in Callers : Forgets(c) /\ held[c] = e}

\* An entry is evicted only by an acquire in its own cluster, for a database not
\* cached yet, when the cluster is full: a pool used within its idleTimeout, a pool
\* of another cluster and a successor that took over a forgotten address all stay
\* (pool.go:133-136, 203-207).
EvictsForRoomOnly ==
    [][\A e \in Evicted : \E c \in Callers :
         /\ Acquires(c)
         /\ held'[c] \notin Listed(lru)
         /\ addr'[held'[c]].cluster = addr[e].cluster
         /\ Count(byAddr, addr[e].cluster) = AtLeastOne(MaxDatabases[addr[e].cluster])]_vars

\* What an eviction leaves behind in the cluster was the better choice to keep: the
\* evicted one was idle and they busy, or it was used longer ago. The entry an acquire
\* hands out stays, even when every other pool of the cluster is busy (pool.go:108-111).
EvictsTheLeastUseful ==
    [][/\ \A e \in Evicted : \A f \in Listed(lru) \cap Listed(lru') :
            addr[f].cluster = addr[e].cluster =>
              \/ refs[e] = 0 /\ refs[f] > 0
              \/ <<e, f>> \in lru /\ ~(refs[f] = 0 /\ refs[e] > 0)
       /\ \A c \in Callers : Acquires(c) =>
            held'[c] \in Listed(lru') /\ byAddr'[addr'[held'[c]]] = held'[c]]_vars

------------------------------------------------------------------------------
(* Liveness and refinement *)

\* Once the cache is closed every pool is closed, those in use included: their last
\* release closes them (pool.go:238-241).
ShutdownClosesEverything == closed ~> \A e \in Entries : driver[e] # "open"

\* The cache keeps the promise of PoolPromise, its liveness included.
Promise == INSTANCE PoolPromise WITH
    Users   <- Callers,
    Pools   <- Entries,
    fresh   <- {e \in Entries : driver[e] = "none"},
    serving <- {e \in Entries : driver[e] = "open" /\ e \notin dead},
    retired <- {e \in Entries : driver[e] = "open" /\ e \in dead},
    users   <- [e \in Entries |-> Holders(e)],
    shut    <- closed

KeepsPromise == Promise!Spec
=============================================================================
