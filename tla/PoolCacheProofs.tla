--------------------------- MODULE PoolCacheProofs ---------------------------
(* Proofs about PoolCache, for any number of calls, clusters, databases and    *)
(* pools and any limits.                                                       *)
EXTENDS PoolCache, FiniteSetTheorems, TLAPS

------------------------------------------------------------------------------
(* The data structures *)

\* Moving an entry to the front of the list lists it and nothing else anew.
LEMMA ListedToFront ==
    ASSUME NEW list, NEW e \in Entries
    PROVE  Listed(ToFront(list, e)) = Listed(list) \cup {e}
BY DEF Listed, ToFront

\* Removing entries from the list unlists exactly them.
LEMMA ListedRemoved ==
    ASSUME NEW list, NEW S
    PROVE  Listed(Removed(list, S)) = Listed(list) \ S
BY DEF Listed, Removed

\* The list stays a set of pairs of entries.
LEMMA ListType ==
    ASSUME NEW list \in SUBSET (Entries \X Entries), NEW e \in Entries, NEW S
    PROVE  /\ ToFront(list, e) \subseteq Entries \X Entries
           /\ Removed(list, S) \subseteq Entries \X Entries
BY DEF Listed, ToFront, Removed

\* The holders of an entry are finitely many.
LEMMA HoldersFinite == \A e : IsFiniteSet(Holders(e))
BY FS_Subset, PoolCacheAssumption DEF Holders

\* An entry with no reference has no holder, and one with a holder has a reference.
LEMMA NoRefsNoHolders ==
    ASSUME RefsCountHolders, NEW e \in Entries
    PROVE  /\ refs[e] \in Nat
           /\ refs[e] = 0 <=> Holders(e) = {}
BY HoldersFinite, FS_CardinalityType, FS_EmptySet DEF RefsCountHolders

\* One caller more, or one less, changes the count of what it holds by one.
LEMMA HeldByOneMore ==
    ASSUME NEW c \in Callers, NEW e \in Entries,
           held \in [Callers -> Entries \cup {None}], held[c] = None,
           held' = [held EXCEPT ![c] = e], RefsCountHolders,
           refs \in [Entries -> Int], refs' = [refs EXCEPT ![e] = @ + 1]
    PROVE  RefsCountHolders'
<1>1. None \notin Entries
  BY PoolCacheAssumption
<1>2. ASSUME NEW x \in Entries
      PROVE  refs'[x] = Cardinality(Holders(x)')
  <2>1. CASE x = e
    <3>1. Holders(e)' = Holders(e) \cup {c} /\ c \notin Holders(e)
      BY <1>1 DEF Holders
    <3>2. Cardinality(Holders(e)') = Cardinality(Holders(e)) + 1
      BY <3>1, HoldersFinite, FS_AddElement
    <3> QED BY <2>1, <3>2 DEF RefsCountHolders
  <2>2. CASE x # e
    <3>1. Holders(x)' = Holders(x)
      BY <2>2, <1>1 DEF Holders
    <3> QED BY <2>2, <3>1 DEF RefsCountHolders
  <2> QED BY <2>1, <2>2
<1> QED BY <1>2 DEF RefsCountHolders

LEMMA HeldByOneLess ==
    ASSUME NEW c \in Callers, NEW e \in Entries,
           held \in [Callers -> Entries \cup {None}], held[c] = e,
           held' = [held EXCEPT ![c] = None], RefsCountHolders,
           refs \in [Entries -> Int], refs' = [refs EXCEPT ![e] = @ - 1]
    PROVE  RefsCountHolders'
<1>1. None \notin Entries
  BY PoolCacheAssumption
<1>2. ASSUME NEW x \in Entries
      PROVE  refs'[x] = Cardinality(Holders(x)')
  <2>1. CASE x = e
    <3>1. Holders(e)' = Holders(e) \ {c} /\ c \in Holders(e)
      BY <1>1 DEF Holders
    <3>2. Cardinality(Holders(e)') = Cardinality(Holders(e)) - 1
      BY <3>1, HoldersFinite, FS_RemoveElement
    <3> QED BY <2>1, <3>2 DEF RefsCountHolders
  <2>2. CASE x # e
    <3>1. Holders(x)' = Holders(x)
      BY <2>2, <1>1 DEF Holders
    <3> QED BY <2>2, <3>1 DEF RefsCountHolders
  <2> QED BY <2>1, <2>2
<1> QED BY <1>2 DEF RefsCountHolders

------------------------------------------------------------------------------
(* The inductive invariant, action by action *)

\* The entries a sweep drops are cached, unused and in nobody's hands.
LEMMA IdleFacts ==
    ASSUME PoolInv
    PROVE  /\ Idle \subseteq Listed(lru)
           /\ \A e \in Idle : /\ refs[e] = 0
                              /\ e \notin dead
                              /\ driver[e] = "open"
                              /\ e \notin closers
                              /\ \A c \in Callers : e \notin stale[c]
BY DEF Idle, Listed, PoolInv, Lifecycle, CacheAgrees, ClosedOnce

LEMMA InitInv == Init => PoolInv
<1> SUFFICES ASSUME Init PROVE PoolInv
  OBVIOUS
<1>1. \A e \in Entries : Holders(e) = {}
  BY PoolCacheAssumption DEF Init, Holders
<1>2. RefsCountHolders
  BY <1>1, FS_EmptySet DEF Init, RefsCountHolders
<1>3. TypeOK
  <2>1. /\ pc \in [Callers -> {"idle", "acquired", "using", "forgot", "released"}]
        /\ driver \in [Entries -> {"none", "open", "closed"}]
    BY DEF Init
  <2>2. byAddr \in [Address -> Entries \cup {None}] /\ addr \in [Entries -> Address \cup {None}]
    BY DEF Init
  <2>3. refs \in [Entries -> Int] /\ held \in [Callers -> Entries \cup {None}]
        /\ stale \in [Callers -> SUBSET Entries]
    BY DEF Init
  <2> QED BY <2>1, <2>2, <2>3 DEF Init, TypeOK
<1>4. PhasesAgree /\ HeldIsOpen BY DEF Init, PhasesAgree, HeldIsOpen
<1>5. Listed(lru) = {} BY DEF Init, Listed
<1>6. CacheAgrees /\ Lifecycle /\ EmptyOnceClosed /\ NothingLeaks
  BY <1>5 DEF Init, CacheAgrees, Lifecycle, EmptyOnceClosed, NothingLeaks
<1>7. ClosedOnce BY DEF Init, ClosedOnce, ClosedByOne
<1> QED BY <1>2, <1>3, <1>4, <1>6, <1>7 DEF PoolInv

\* A step that only moves a caller on, between two phases that ask no more of it.
LEMMA MoveOn ==
    ASSUME PoolInv, NEW c \in Callers, NEW phase \in {"idle", "acquired", "using", "released"},
           pc' = [pc EXCEPT ![c] = phase],
           phase \in {"idle", "released"} => held[c] = None,
           phase = "using" => held[c] # None,
           phase \in {"idle", "using"} => stale[c] = {},
           UNCHANGED <<cache, aged, closed, driver, held, stale, closers, rested>>
    PROVE  PoolInv'
<1> USE DEF PoolInv, cache
<1>1. TypeOK' BY DEF TypeOK
<1>2. PhasesAgree' BY DEF PhasesAgree, TypeOK
<1>3. RefsCountHolders' /\ HeldIsOpen' BY DEF RefsCountHolders, HeldIsOpen, Holders
<1>4. CacheAgrees' /\ Lifecycle' /\ EmptyOnceClosed'
  BY DEF CacheAgrees, Lifecycle, EmptyOnceClosed, Listed
<1>5. ClosedOnce' BY DEF ClosedOnce, ClosedByOne
<1>6. NothingLeaks' BY DEF NothingLeaks, Listed, Holders
<1> QED BY <1>1, <1>2, <1>3, <1>4, <1>5, <1>6

\* Closing a pool that was dropped and released leaves everybody else's alone.
LEMMA CloseStaleInv ==
    ASSUME PoolInv, NEW c \in Callers, CloseStale(c)
    PROVE  PoolInv'
<1> USE DEF PoolInv, cache
<1> PICK e \in stale[c] : /\ driver' = [driver EXCEPT ![e] = "closed"]
                          /\ stale'  = [stale EXCEPT ![c] = @ \ {e}]
  BY DEF CloseStale
<1> UNCHANGED <<cache, aged, closed, pc, held, closers, rested>>
  BY DEF CloseStale
<1>0. e \in Entries /\ e \in dead /\ refs[e] = 0 /\ Holders(e) = {} /\ e \notin Listed(lru)
      /\ e \notin closers /\ (\A d \in Callers : e \in stale[d] => d = c)
  BY NoRefsNoHolders DEF TypeOK, ClosedOnce, ClosedByOne, CacheAgrees
<1>1. TypeOK' BY <1>0 DEF TypeOK
<1>2. PhasesAgree' BY DEF PhasesAgree, TypeOK
<1>3. RefsCountHolders' BY DEF RefsCountHolders, Holders
<1>4. HeldIsOpen' BY <1>0 DEF HeldIsOpen, Holders, TypeOK
<1>5. CacheAgrees' /\ EmptyOnceClosed'
  BY <1>0 DEF CacheAgrees, EmptyOnceClosed, Listed, TypeOK
<1>6. Lifecycle' BY <1>0 DEF Lifecycle, Listed, TypeOK
<1>7. ClosedOnce' BY <1>0 DEF ClosedOnce, ClosedByOne, TypeOK
<1>8. NothingLeaks' BY <1>0 DEF NothingLeaks, Listed, Holders, TypeOK
<1> QED BY <1>1, <1>2, <1>3, <1>4, <1>5, <1>6, <1>7, <1>8

LEMMA CloseInBackgroundInv ==
    ASSUME PoolInv, CloseInBackground
    PROVE  PoolInv'
<1> USE DEF PoolInv, cache
<1> PICK e \in closers : /\ driver'  = [driver EXCEPT ![e] = "closed"]
                         /\ closers' = closers \ {e}
  BY DEF CloseInBackground
<1> UNCHANGED <<cache, aged, closed, pc, held, stale, rested>>
  BY DEF CloseInBackground
<1>0. e \in Entries /\ e \in dead /\ refs[e] = 0 /\ Holders(e) = {} /\ e \notin Listed(lru)
      /\ (\A d \in Callers : e \notin stale[d])
  BY NoRefsNoHolders DEF TypeOK, ClosedOnce, ClosedByOne, CacheAgrees
<1>1. TypeOK' BY <1>0 DEF TypeOK
<1>2. PhasesAgree' BY DEF PhasesAgree
<1>3. RefsCountHolders' BY DEF RefsCountHolders, Holders
<1>4. HeldIsOpen' BY <1>0 DEF HeldIsOpen, Holders, TypeOK
<1>5. CacheAgrees' /\ EmptyOnceClosed'
  BY <1>0 DEF CacheAgrees, EmptyOnceClosed, Listed, TypeOK
<1>6. Lifecycle' BY <1>0 DEF Lifecycle, Listed, TypeOK
<1>7. ClosedOnce' BY <1>0 DEF ClosedOnce, ClosedByOne, TypeOK
<1>8. NothingLeaks' BY <1>0 DEF NothingLeaks, Listed, Holders, TypeOK
<1> QED BY <1>1, <1>2, <1>3, <1>4, <1>5, <1>6, <1>7, <1>8

LEMMA IdleTimeoutPassesInv ==
    ASSUME PoolInv, NEW e \in Entries, IdleTimeoutPasses(e)
    PROVE  PoolInv'
<1> USE DEF PoolInv, cache
<1>0. /\ aged' = aged \cup {e} /\ rested' \in {rested, rested \cup {e}}
      /\ UNCHANGED <<byAddr, lru, addr, refs, dead, closed, driver, pc, held, stale, closers>>
  BY DEF IdleTimeoutPasses
<1>1. TypeOK' BY <1>0 DEF TypeOK
<1>2. PhasesAgree' /\ RefsCountHolders' /\ HeldIsOpen'
  BY <1>0 DEF PhasesAgree, RefsCountHolders, HeldIsOpen, Holders
<1>3. CacheAgrees' /\ Lifecycle' /\ EmptyOnceClosed'
  BY <1>0 DEF CacheAgrees, Lifecycle, EmptyOnceClosed, Listed
<1>4. ClosedOnce' /\ NothingLeaks'
  BY <1>0 DEF ClosedOnce, ClosedByOne, NothingLeaks, Listed, Holders
<1> QED BY <1>1, <1>2, <1>3, <1>4

\* Dropping cached entries, as a sweep, an eviction, a forget and Close do: the map
\* and the list still agree on the rest.
LEMMA DropKeepsTheRest ==
    ASSUME CacheAgrees, TypeOK, NEW S \in SUBSET Listed(lru),
           byAddr' = Deleted(byAddr, S, addr), lru' = Removed(lru, S),
           dead' = dead \cup S, addr' = addr
    PROVE  /\ CacheAgrees'
           /\ Listed(lru)' = Listed(lru) \ S
           /\ byAddr' \in [Address -> Entries \cup {None}]
           /\ lru' \subseteq Entries \X Entries
<1>1. Listed(lru)' = Listed(lru) \ S
  BY ListedRemoved DEF Listed
<1>2. lru' \subseteq Entries \X Entries
  BY DEF TypeOK, Removed
<1>3. byAddr' \in [Address -> Entries \cup {None}]
  BY DEF TypeOK, Deleted
<1>4. ASSUME NEW a \in Address, byAddr'[a] # None
      PROVE  byAddr'[a] \in Listed(lru)' /\ addr'[byAddr'[a]] = a
  <2>1. byAddr'[a] = byAddr[a] /\ ~\E e \in S : addr[e] = a
    BY <1>4 DEF Deleted
  <2>2. byAddr[a] \in Listed(lru) /\ addr[byAddr[a]] = a
    BY <1>4, <2>1 DEF CacheAgrees
  <2> QED BY <1>1, <2>1, <2>2
<1>5. ASSUME NEW e \in Listed(lru)'
      PROVE  addr'[e] # None /\ byAddr'[addr'[e]] = e /\ e \notin dead'
  <2>1. e \in Listed(lru) /\ e \notin S /\ e \in Entries
    BY <1>1 DEF Listed
  <2>2. addr[e] # None /\ byAddr[addr[e]] = e /\ e \notin dead /\ addr[e] \in Address
    BY <2>1 DEF CacheAgrees, TypeOK
  <2>3. ~\E x \in S : addr[x] = addr[e]
    BY <2>1, <2>2 DEF CacheAgrees
  <2> QED BY <2>1, <2>2, <2>3 DEF Deleted
<1>6. CacheAgrees'
  BY <1>4, <1>5 DEF CacheAgrees, Listed
<1> QED BY <1>1, <1>2, <1>3, <1>6

LEMMA CloseInv ==
    ASSUME PoolInv, Close
    PROVE  PoolInv'
<1> USE DEF PoolInv
<1> DEFINE S == Listed(lru)
<1>0. /\ byAddr' = Deleted(byAddr, S, addr) /\ lru' = Removed(lru, S) /\ dead' = dead \cup S
      /\ closers' = closers \cup ToClose(S) /\ closed' = TRUE
      /\ UNCHANGED <<addr, refs, aged, driver, pc, held, stale, rested>>
  BY DEF Close, Drop
<1>1. /\ CacheAgrees' /\ Listed(lru)' = {}
      /\ byAddr' \in [Address -> Entries \cup {None}] /\ lru' \subseteq Entries \X Entries
  BY <1>0, DropKeepsTheRest
<1>2. S \subseteq Entries
  BY DEF Listed
<1>3. TypeOK' BY <1>0, <1>1, <1>2 DEF TypeOK, ToClose
<1>4. PhasesAgree' BY <1>0 DEF PhasesAgree
<1>5. RefsCountHolders' /\ HeldIsOpen' BY <1>0 DEF RefsCountHolders, HeldIsOpen, Holders
<1>6. Lifecycle' BY <1>0, <1>1, <1>2 DEF Lifecycle, TypeOK
<1>8. ClosedOnce'
  BY <1>0, <1>2 DEF ClosedOnce, ClosedByOne, ToClose, Lifecycle, CacheAgrees
<1>9. NothingLeaks'
  <2>1. ASSUME NEW e \in Entries, driver'[e] = "open"
        PROVE  Holders(e)' # {} \/ e \in closers' \/ \E c \in Callers : e \in stale'[c]
    <3>1. CASE e \in S
      <4>1. CASE refs[e] = 0 BY <1>0, <3>1, <4>1 DEF ToClose
      <4>2. CASE refs[e] # 0 BY <1>0, <4>2, NoRefsNoHolders DEF Holders
      <4> QED BY <4>1, <4>2
    <3>2. CASE e \notin S BY <1>0, <2>1, <3>2 DEF NothingLeaks, Holders
    <3> QED BY <3>1, <3>2
  <2> QED BY <2>1 DEF NothingLeaks, Holders
<1>10. EmptyOnceClosed'
  BY <1>1 DEF EmptyOnceClosed, CacheAgrees
<1> QED BY <1>1, <1>3, <1>4, <1>5, <1>6, <1>8, <1>9, <1>10

LEMMA ForgetInv ==
    ASSUME PoolInv, NEW c \in Callers, Forget(c)
    PROVE  PoolInv'
<1> USE DEF PoolInv
<1> DEFINE e == held[c]
           S == StillCached(e)
<1>0. /\ pc[c] = "using"
      /\ byAddr' = Deleted(byAddr, S, addr) /\ lru' = Removed(lru, S) /\ dead' = dead \cup S
      /\ stale' = [stale EXCEPT ![c] = ToClose(S)] /\ pc' = [pc EXCEPT ![c] = "forgot"]
      /\ UNCHANGED <<addr, refs, aged, closed, driver, held, closers, rested>>
  BY DEF Forget, Drop
<1>1. e \in Entries /\ e # None /\ Holders(e) # {} /\ driver[e] = "open"
  BY <1>0 DEF TypeOK, PhasesAgree, Holders, HeldIsOpen
<1>2. refs[e] # 0
  BY <1>1, NoRefsNoHolders
<1>3. stale[c] = {} /\ ToClose(S) = {}
  BY <1>0, <1>2 DEF PhasesAgree, ToClose, StillCached
<1>4. stale' = stale
  BY <1>0, <1>3 DEF TypeOK
<1>5. S \subseteq {e}
  BY DEF StillCached
<1>6. S \in SUBSET Listed(lru)
  <2>1. CASE byAddr[addr[e]] = e
    <3>1. addr[e] \in Address
      BY <1>1, <2>1 DEF TypeOK, Lifecycle
    <3> QED BY <1>1, <1>5, <2>1, <3>1 DEF CacheAgrees
  <2>2. CASE byAddr[addr[e]] # e
    BY <2>2 DEF StillCached
  <2> QED BY <2>1, <2>2
<1> HIDE DEF S
<1>7. /\ CacheAgrees' /\ Listed(lru)' = Listed(lru) \ S
      /\ byAddr' \in [Address -> Entries \cup {None}] /\ lru' \subseteq Entries \X Entries
  BY <1>0, <1>6, DropKeepsTheRest
<1>8. TypeOK' BY <1>0, <1>1, <1>4, <1>5, <1>7 DEF TypeOK
<1>9. PhasesAgree' BY <1>0, <1>4 DEF PhasesAgree, TypeOK
<1>10. RefsCountHolders' /\ HeldIsOpen' BY <1>0 DEF RefsCountHolders, HeldIsOpen, Holders
<1>11. Lifecycle' BY <1>0, <1>1, <1>5, <1>7 DEF Lifecycle, TypeOK
<1>13. ClosedOnce' BY <1>0, <1>4 DEF ClosedOnce, ClosedByOne
<1>14. NothingLeaks' BY <1>0, <1>1, <1>4, <1>5, <1>7 DEF NothingLeaks, Holders
<1>15. EmptyOnceClosed'
  BY <1>0, <1>7 DEF EmptyOnceClosed, CacheAgrees
<1> QED BY <1>7, <1>8, <1>9, <1>10, <1>11, <1>13, <1>14, <1>15

LEMMA ReleaseInv ==
    ASSUME PoolInv, NEW c \in Callers, Release(c)
    PROVE  PoolInv'
<1> USE DEF PoolInv
<1> DEFINE e == held[c]
           last == CloseNow(e, refs')
<1>0. /\ pc[c] \in {"using", "forgot"} /\ stale[c] = {}
      /\ refs' = [refs EXCEPT ![e] = @ - 1]
      /\ aged' = IF refs'[e] = 0 THEN aged \ {e} ELSE aged
      /\ stale' = [stale EXCEPT ![c] = last] /\ held' = [held EXCEPT ![c] = None]
      /\ pc' = [pc EXCEPT ![c] = "released"]
      /\ UNCHANGED <<byAddr, lru, addr, dead, closed, driver, closers, rested>>
  BY DEF Release
<1>1. e \in Entries /\ e # None /\ Holders(e) # {} /\ driver[e] = "open" /\ None \notin Entries
  BY <1>0, PoolCacheAssumption DEF TypeOK, PhasesAgree, Holders, HeldIsOpen
<1>2. refs[e] # 0 /\ refs[e] \in Nat
  BY <1>1, NoRefsNoHolders
<1>3. e \notin closers /\ \A d \in Callers : e \notin stale[d]
  BY <1>1, <1>2 DEF ClosedOnce
<1>4. last \subseteq {e} /\ (e \in last <=> e \in dead /\ refs'[e] = 0)
  BY DEF CloseNow
<1> HIDE DEF last
<1>5. RefsCountHolders'
  BY <1>0, <1>1, HeldByOneLess DEF TypeOK
<1>6. \A x \in Entries : refs'[x] = 0 => Holders(x)' = {}
  <2>1. \A x : IsFiniteSet(Holders(x)')
    BY FS_Subset, PoolCacheAssumption DEF Holders
  <2> QED BY <1>5, <2>1, FS_EmptySet DEF RefsCountHolders
<1>7. TypeOK'
  <2>1. refs' \in [Entries -> Int] /\ aged' \subseteq Entries
    <3>1. aged' \subseteq aged BY <1>0
    <3>2. refs' \in [Entries -> Int] BY <1>0, <1>1, <1>2 DEF TypeOK
    <3> QED BY <3>1, <3>2 DEF TypeOK
  <2>2. held' \in [Callers -> Entries \cup {None}] /\ stale' \in [Callers -> SUBSET Entries]
    BY <1>0, <1>1, <1>4 DEF TypeOK
  <2>3. pc' \in [Callers -> {"idle", "acquired", "using", "forgot", "released"}]
    BY <1>0 DEF TypeOK
  <2>4. UNCHANGED <<byAddr, lru, addr, dead, closed, driver, closers, rested>>
    BY <1>0
  <2> QED BY <2>1, <2>2, <2>3, <2>4 DEF TypeOK
<1>8. PhasesAgree' BY <1>0 DEF PhasesAgree, TypeOK
<1>9. HeldIsOpen' BY <1>0 DEF HeldIsOpen, TypeOK
<1>10. CacheAgrees' /\ Lifecycle' /\ EmptyOnceClosed'
  BY <1>0 DEF CacheAgrees, Lifecycle, EmptyOnceClosed, Listed
<1>11. ClosedOnce'
  <2>1. ASSUME NEW x \in Entries PROVE ClosedByOne(x)'
    BY <1>0, <1>3, <1>4 DEF ClosedOnce, ClosedByOne, TypeOK
  <2>2. ASSUME NEW x \in Entries, x \in closers' \cup UNION {stale'[d] : d \in Callers}
        PROVE  driver'[x] = "open" /\ x \in dead' /\ refs'[x] = 0
    <3>1. CASE x = e
      BY <1>0, <1>1, <1>3, <1>4, <2>2, <3>1 DEF TypeOK
    <3>2. CASE x # e
      BY <1>0, <1>4, <2>2, <3>2 DEF TypeOK, ClosedOnce
    <3> QED BY <3>1, <3>2
  <2> QED BY <2>1, <2>2 DEF ClosedOnce
<1>12. NothingLeaks'
  <2>1. ASSUME NEW x \in Entries, driver'[x] = "open", x \notin Listed(lru)
        PROVE  Holders(x)' # {} \/ x \in closers' \/ \E d \in Callers : x \in stale'[d]
    <3>1. CASE x = e
      <4>1. CASE refs'[e] = 0
        <5>1. e \in dead
          BY <1>1, <2>1, <3>1 DEF Lifecycle
        <5> QED BY <1>0, <1>4, <3>1, <4>1, <5>1 DEF TypeOK
      <4>2. CASE refs'[e] # 0
        BY <1>1, <3>1, <4>2, <1>5, HoldersFinite, FS_EmptySet DEF RefsCountHolders
      <4> QED BY <4>1, <4>2
    <3>2. CASE x # e
      <4>1. Holders(x)' = Holders(x)
        BY <1>0, <1>1, <3>2 DEF Holders, TypeOK
      <4> QED BY <1>0, <2>1, <3>2, <4>1 DEF NothingLeaks, TypeOK
    <3> QED BY <3>1, <3>2
  <2> QED BY <1>0, <2>1 DEF NothingLeaks, Listed
<1> QED BY <1>5, <1>7, <1>8, <1>9, <1>10, <1>11, <1>12

\* What a sweep leaves behind, whichever way the acquire that swept goes on.
LEMMA Swept ==
    ASSUME PoolInv
    PROVE  /\ Listed(Removed(lru, Idle)) = Listed(lru) \ Idle
           /\ Deleted(byAddr, Idle, addr) \in [Address -> Entries \cup {None}]
           /\ \A a \in Address : Deleted(byAddr, Idle, addr)[a] # None =>
                /\ Deleted(byAddr, Idle, addr)[a] \in Listed(lru) \ Idle
                /\ addr[Deleted(byAddr, Idle, addr)[a]] = a
           /\ \A e \in Listed(lru) \ Idle :
                addr[e] \in Address /\ Deleted(byAddr, Idle, addr)[addr[e]] = e
<1> USE DEF PoolInv
<1>1. Listed(Removed(lru, Idle)) = Listed(lru) \ Idle
  BY ListedRemoved
<1>2. Deleted(byAddr, Idle, addr) \in [Address -> Entries \cup {None}]
  BY DEF TypeOK, Deleted
<1>3. ASSUME NEW a \in Address, Deleted(byAddr, Idle, addr)[a] # None
      PROVE  /\ Deleted(byAddr, Idle, addr)[a] \in Listed(lru) \ Idle
             /\ addr[Deleted(byAddr, Idle, addr)[a]] = a
  <2>1. Deleted(byAddr, Idle, addr)[a] = byAddr[a] /\ ~\E x \in Idle : addr[x] = a
    BY <1>3 DEF Deleted
  <2>2. byAddr[a] \in Listed(lru) /\ addr[byAddr[a]] = a
    BY <1>3, <2>1 DEF CacheAgrees
  <2> QED BY <2>1, <2>2
<1>4. ASSUME NEW e \in Listed(lru) \ Idle
      PROVE  addr[e] \in Address /\ Deleted(byAddr, Idle, addr)[addr[e]] = e
  <2>1. addr[e] \in Address /\ byAddr[addr[e]] = e
    BY DEF CacheAgrees, TypeOK, Listed
  <2>2. ~\E x \in Idle : addr[x] = addr[e]
    BY <2>1, IdleFacts DEF CacheAgrees
  <2> QED BY <2>1, <2>2 DEF Deleted
<1> QED BY <1>1, <1>2, <1>3, <1>4

LEMMA AcquireCannotOpenInv ==
    ASSUME PoolInv, NEW c \in Callers, NEW a \in Address, pc[c] = "idle", ~closed,
           AcquireCannotOpen(c, a), pc' = [pc EXCEPT ![c] = "acquired"],
           UNCHANGED <<closed, closers>>
    PROVE  PoolInv'
<1> USE DEF PoolInv
<1>0. /\ byAddr' = Deleted(byAddr, Idle, addr) /\ lru' = Removed(lru, Idle)
      /\ dead' = dead \cup Idle /\ stale' = [stale EXCEPT ![c] = Idle]
      /\ UNCHANGED <<addr, refs, aged, driver, held, rested>>
  BY DEF AcquireCannotOpen, Drop
<1>1. Idle \in SUBSET Listed(lru) /\ Idle \subseteq Entries
  BY IdleFacts DEF Listed
<1>2. /\ CacheAgrees' /\ Listed(lru)' = Listed(lru) \ Idle
      /\ byAddr' \in [Address -> Entries \cup {None}] /\ lru' \subseteq Entries \X Entries
  BY <1>0, <1>1, DropKeepsTheRest
<1>3. TypeOK'
  <2>1. /\ stale' \in [Callers -> SUBSET Entries] /\ dead' \subseteq Entries
        /\ pc' \in [Callers -> {"idle", "acquired", "using", "forgot", "released"}]
    BY <1>0, <1>1 DEF TypeOK
  <2> QED BY <1>0, <1>2, <2>1 DEF TypeOK
<1>4. PhasesAgree' BY <1>0 DEF PhasesAgree, TypeOK
<1>5. RefsCountHolders' /\ HeldIsOpen' BY <1>0 DEF RefsCountHolders, HeldIsOpen, Holders
<1>6. Lifecycle' BY <1>0, <1>1, <1>2, IdleFacts DEF Lifecycle, TypeOK
<1>7. stale[c] = {}
  BY DEF PhasesAgree
<1>8. ClosedOnce'
  <2>1. ASSUME NEW x \in Entries PROVE ClosedByOne(x)'
    BY <1>0, <1>7, IdleFacts DEF ClosedOnce, ClosedByOne, TypeOK
  <2>2. ASSUME NEW x \in Entries, x \in closers' \cup UNION {stale'[d] : d \in Callers}
        PROVE  driver'[x] = "open" /\ x \in dead' /\ refs'[x] = 0
    BY <1>0, <1>7, <2>2, IdleFacts DEF ClosedOnce, TypeOK
  <2> QED BY <2>1, <2>2 DEF ClosedOnce
<1>9. NothingLeaks'
  BY <1>0, <1>1, <1>2, <1>7 DEF NothingLeaks, Holders, TypeOK
<1>10. EmptyOnceClosed' BY DEF EmptyOnceClosed
<1> QED BY <1>2, <1>3, <1>4, <1>5, <1>6, <1>8, <1>9, <1>10

\* Handing out e, whether it was cached or has just been made.
LEMMA HandOutInv ==
    ASSUME PoolInv, NEW c \in Callers, NEW a \in Address, NEW e \in Entries, NEW at,
           pc[c] = "idle", ~closed, HandOut(c, a, e, at),
           pc' = [pc EXCEPT ![c] = "acquired"], UNCHANGED <<closed, closers>>,
           aged' \subseteq aged,
           \/ /\ e = Deleted(byAddr, Idle, addr)[a]
              /\ at = addr
              /\ driver' = driver
           \/ /\ Deleted(byAddr, Idle, addr)[a] = None
              /\ driver[e] = "none"
              /\ at = [addr EXCEPT ![e] = a]
              /\ driver' = [driver EXCEPT ![e] = "open"]
    PROVE  PoolInv'
<1> USE DEF PoolInv
<1> DEFINE map     == [Deleted(byAddr, Idle, addr) EXCEPT ![a] = e]
           list    == ToFront(Removed(lru, Idle), e)
           count   == Referenced(e)
           evicted == Overflow(a.cluster, map, list, count, at)
           idle    == {x \in evicted : count[x] = 0}
<1>0. /\ addr' = at /\ refs' = count
      /\ byAddr' = Deleted(map, evicted, at) /\ lru' = Removed(list, evicted)
      /\ dead' = dead \cup Idle \cup evicted
      /\ stale' = [stale EXCEPT ![c] = Idle \cup idle]
      /\ held' = [held EXCEPT ![c] = e] /\ rested' = rested \ {e}
  BY DEF HandOut
<1>1. held[c] = None /\ stale[c] = {} /\ None \notin Entries /\ None \notin Address
  BY PoolCacheAssumption DEF PhasesAgree
<1>2. /\ Listed(list) = (Listed(lru) \ Idle) \cup {e}
      /\ evicted \subseteq Listed(list) /\ Listed(list) \subseteq Entries
  BY ListedToFront, ListedRemoved DEF Overflow, Listed
<1> HIDE DEF evicted, list
\* The entry handed out is alive, filed under a and in nobody's way.
<1>3. /\ at \in [Entries -> Address \cup {None}] /\ at[e] = a
      /\ \A x \in Entries \ {e} : at[x] = addr[x]
      /\ driver' \in [Entries -> {"none", "open", "closed"}] /\ driver'[e] = "open"
      /\ \A x \in Entries \ {e} : driver'[x] = driver[x]
  <2>1. CASE driver' = driver /\ at = addr /\ e = Deleted(byAddr, Idle, addr)[a]
    BY <1>1, <2>1, Swept DEF TypeOK, Lifecycle
  <2>2. CASE driver' = [driver EXCEPT ![e] = "open"] /\ at = [addr EXCEPT ![e] = a]
    BY <2>2 DEF TypeOK
  <2> QED BY <2>1, <2>2
<1>4. /\ e \notin dead /\ e \notin Idle /\ e \notin closers
      /\ \A d \in Callers : e \notin stale[d]
  <2>1. CASE e = Deleted(byAddr, Idle, addr)[a]
    BY <1>1, <2>1, Swept DEF CacheAgrees, ClosedOnce
  <2>2. CASE driver[e] = "none"
    BY <2>2, IdleFacts DEF Lifecycle, ClosedOnce
  <2> QED BY <2>1, <2>2
<1>5. \A b \in Address : b # a => map[b] = Deleted(byAddr, Idle, addr)[b]
  BY Swept
<1>6. map \in [Address -> Entries \cup {None}] /\ map[a] = e
  BY Swept
\* Nobody else is filed under a.
<1>7. \A x \in (Listed(lru) \ Idle) \ {e} : addr[x] \in Address /\ addr[x] # a
  <2>1. ASSUME NEW x \in (Listed(lru) \ Idle) \ {e}
        PROVE  addr[x] \in Address /\ addr[x] # a
    <3>1. addr[x] \in Address /\ Deleted(byAddr, Idle, addr)[addr[x]] = x /\ x # None
      BY <1>1, Swept DEF Listed
    <3>2. Deleted(byAddr, Idle, addr)[a] \in {e, None}
      OBVIOUS
    <3> QED BY <3>1, <3>2
  <2> QED BY <2>1
<1> HIDE DEF map
<1>8. count \in [Entries -> Int] /\ count[e] = refs[e] + 1
      /\ \A x \in Entries \ {e} : count[x] = refs[x]
  BY DEF TypeOK, Referenced
<1> HIDE DEF count
<1>9. RefsCountHolders'
  BY <1>0, <1>1, HeldByOneMore DEF TypeOK, count, Referenced
<1>10. idle \subseteq Listed(lru) \ Idle /\ idle \subseteq evicted /\ \A x \in idle : refs[x] = 0 /\ x # e
  BY <1>2, <1>8, NoRefsNoHolders
<1> HIDE DEF idle
\* The cache after the step.
<1>11. Listed(lru)' = ((Listed(lru) \ Idle) \cup {e}) \ evicted
  BY <1>0, <1>2, ListedRemoved DEF Listed
<1>12. CacheAgrees'
  <2>1. ASSUME NEW b \in Address, byAddr'[b] # None
        PROVE  byAddr'[b] \in Listed(lru)' /\ addr'[byAddr'[b]] = b
    <3>1. byAddr'[b] = map[b] /\ ~\E x \in evicted : at[x] = b
      BY <1>0, <2>1 DEF Deleted
    <3>2. map[b] \in Listed(list) /\ at[map[b]] = b
      <4>1. CASE b = a
        BY <1>2, <1>3, <1>6, <4>1
      <4>2. CASE b # a
        <5>1. map[b] = Deleted(byAddr, Idle, addr)[b] /\ map[b] # None
          BY <1>5, <2>1, <3>1, <4>2
        <5>2. map[b] \in Listed(lru) \ Idle /\ addr[map[b]] = b
          BY <5>1, Swept
        <5>3. map[b] \in Entries
          BY <5>2 DEF Listed
        <5>4. CASE map[b] = e
          BY <1>1, <4>2, <5>1, <5>2, <5>3, <5>4, <1>3, Swept DEF Lifecycle
        <5>5. CASE map[b] # e
          BY <1>2, <1>3, <5>2, <5>3, <5>5
        <5> QED BY <5>4, <5>5
      <4> QED BY <4>1, <4>2
    <3> QED BY <1>0, <1>2, <1>11, <3>1, <3>2
  <2>2. ASSUME NEW x \in Listed(lru)'
        PROVE  addr'[x] # None /\ byAddr'[addr'[x]] = x /\ x \notin dead'
    <3>1. x \in Listed(list) /\ x \notin evicted /\ x \in Entries
      BY <1>2, <1>11, <2>2
    <3>2. /\ at[x] \in Address /\ map[at[x]] = x
          /\ \A y \in evicted : at[y] # at[x]
      <4>1. CASE x = e
        BY <1>2, <1>3, <1>6, <1>7, <3>1, <4>1
      <4>2. CASE x # e
        <5>1. /\ x \in Listed(lru) \ Idle /\ at[x] = addr[x] /\ addr[x] \in Address /\ addr[x] # a
              /\ Deleted(byAddr, Idle, addr)[addr[x]] = x
          BY <1>2, <1>3, <1>7, <3>1, <4>2, Swept
        <5>2. ASSUME NEW y \in evicted, at[y] = at[x] PROVE FALSE
          <6>1. CASE y = e
            BY <1>3, <5>1, <5>2, <6>1
          <6>2. CASE y # e
            <7>1. y \in Listed(lru) \ Idle /\ y \in Entries
              BY <1>2, <6>2
            <7>2. Deleted(byAddr, Idle, addr)[addr[y]] = y /\ at[y] = addr[y]
              BY <1>3, <6>2, <7>1, Swept
            <7> QED BY <3>1, <5>1, <5>2, <7>2
          <6> QED BY <6>1, <6>2
        <5> QED BY <1>5, <5>1, <5>2
      <4> QED BY <4>1, <4>2
    <3>3. x \notin dead /\ x \notin Idle
      BY <1>2, <1>4, <3>1 DEF CacheAgrees
    <3>4. at[x] # None
      <4>1. CASE x = e
        BY <1>1, <1>3, <1>6, <3>2, <4>1
      <4>2. CASE x # e
        BY <1>2, <1>3, <3>1, <4>2 DEF CacheAgrees
      <4> QED BY <4>1, <4>2
    <3> QED BY <1>0, <3>1, <3>2, <3>3, <3>4 DEF Deleted
  <2> QED BY <2>1, <2>2 DEF CacheAgrees, Listed
<1>13. TypeOK'
  <2>1. lru' \subseteq Entries \X Entries
    BY <1>0, ListType DEF TypeOK, list
  <2>2. byAddr' \in [Address -> Entries \cup {None}]
    BY <1>0, <1>6 DEF Deleted
  <2>3. dead' \subseteq Entries /\ rested' \subseteq Entries /\ aged' \subseteq Entries
    BY <1>0, <1>2, IdleFacts DEF TypeOK, Listed
  <2>4. stale' \in [Callers -> SUBSET Entries]
    <3>1. Idle \cup idle \in SUBSET Entries
      BY <1>10, IdleFacts DEF Listed
    <3> QED BY <1>0, <3>1 DEF TypeOK
  <2>5. held' \in [Callers -> Entries \cup {None}]
    BY <1>0 DEF TypeOK
  <2>6. pc' \in [Callers -> {"idle", "acquired", "using", "forgot", "released"}]
    BY DEF TypeOK
  <2> QED BY <1>0, <1>3, <1>8, <2>1, <2>2, <2>3, <2>4, <2>5, <2>6 DEF TypeOK
<1>14. PhasesAgree'
  BY <1>0 DEF PhasesAgree, TypeOK
<1>15. HeldIsOpen'
  BY <1>0, <1>3 DEF HeldIsOpen, TypeOK
<1>16. Lifecycle'
  <2>1. ASSUME NEW x \in Entries
        PROVE  /\ x \in Listed(lru)' => driver'[x] = "open"
               /\ x \in dead' => driver'[x] # "none"
               /\ driver'[x] # "none" => addr'[x] # None /\ (x \in Listed(lru)' \/ x \in dead')
    <3>1. CASE x = e
      BY <1>0, <1>1, <1>3, <1>11, <3>1
    <3>2. CASE x # e
      BY <1>0, <1>2, <1>3, <1>11, <3>2, IdleFacts DEF Lifecycle
    <3> QED BY <3>1, <3>2
  <2> QED BY <2>1 DEF Lifecycle, Listed
<1>17. ClosedOnce'
  <2>1. ASSUME NEW x \in Entries PROVE ClosedByOne(x)'
    <3>1. x \in Idle \cup idle => x \notin dead /\ x \notin closers /\ \A d \in Callers : x \notin stale[d]
      BY <1>10, IdleFacts DEF CacheAgrees, ClosedOnce
    <3> QED BY <1>0, <1>1, <3>1 DEF ClosedOnce, ClosedByOne, TypeOK
  <2>2. ASSUME NEW x \in Entries, x \in closers' \cup UNION {stale'[d] : d \in Callers}
        PROVE  driver'[x] = "open" /\ x \in dead' /\ refs'[x] = 0
    <3>1. CASE x \in Idle \cup idle
      BY <1>0, <1>3, <1>4, <1>8, <1>10, <3>1, IdleFacts DEF Lifecycle, Listed
    <3>2. CASE x \notin Idle \cup idle
      <4>1. x \in closers \cup UNION {stale[d] : d \in Callers}
        BY <1>0, <2>2, <3>2 DEF TypeOK
      <4>2. x # e /\ driver[x] = "open" /\ x \in dead /\ refs[x] = 0
        BY <1>4, <4>1 DEF ClosedOnce
      <4> QED BY <1>0, <1>3, <1>8, <4>2
    <3> QED BY <3>1, <3>2
  <2> QED BY <2>1, <2>2 DEF ClosedOnce
<1>18. NothingLeaks'
  <2>1. ASSUME NEW x \in Entries, driver'[x] = "open", x \notin Listed(lru)'
        PROVE  Holders(x)' # {} \/ x \in closers' \/ \E d \in Callers : x \in stale'[d]
    <3>1. CASE x = e
      <4>1. c \in Holders(e)'
        BY <1>0 DEF Holders, TypeOK
      <4> QED BY <3>1, <4>1
    <3>2. CASE x # e /\ x \in Idle
      BY <1>0, <3>2 DEF TypeOK
    <3>3. CASE x # e /\ x \in evicted
      <4>1. CASE count[x] = 0
        BY <1>0, <3>3, <4>1 DEF TypeOK, idle
      <4>2. CASE count[x] # 0
        <5>1. Holders(x) # {}
          BY <1>8, <3>3, <4>2, NoRefsNoHolders
        <5> QED BY <1>0, <1>1, <3>3, <5>1 DEF Holders, TypeOK
      <4> QED BY <4>1, <4>2
    <3>4. CASE x # e /\ x \notin Idle /\ x \notin evicted
      <4>1. driver[x] = "open" /\ x \notin Listed(lru)
        BY <1>3, <1>11, <2>1, <3>4
      <4> QED BY <1>0, <1>1, <3>4, <4>1 DEF NothingLeaks, Holders, TypeOK
    <3> QED BY <3>1, <3>2, <3>3, <3>4
  <2> QED BY <2>1 DEF NothingLeaks, Listed, Holders
<1>19. EmptyOnceClosed' BY DEF EmptyOnceClosed
<1> QED BY <1>9, <1>12, <1>13, <1>14, <1>15, <1>16, <1>17, <1>18, <1>19

------------------------------------------------------------------------------
(* The theorems *)

\* Every step keeps the invariant.
THEOREM NextInv == PoolInv /\ [Next]_vars => PoolInv'
<1> SUFFICES ASSUME PoolInv, [Next]_vars PROVE PoolInv'
  OBVIOUS
<1>1. ASSUME NEW c \in Callers, Acquire(c) PROVE PoolInv'
  <2> PICK a \in Address : AcquireHit(c, a) \/ AcquireMiss(c, a) \/ AcquireCannotOpen(c, a)
    BY <1>1 DEF Acquire, Serving
  <2>0. pc[c] = "idle" /\ ~closed /\ pc' = [pc EXCEPT ![c] = "acquired"] /\ UNCHANGED <<closed, closers>>
    BY <1>1 DEF Acquire, Serving
  <2>1. CASE AcquireHit(c, a)
    <3> DEFINE e == Deleted(byAddr, Idle, addr)[a]
    <3>1. e \in Entries
      BY <2>1, Swept DEF AcquireHit
    <3>2. HandOut(c, a, e, addr) /\ aged' = aged /\ driver' = driver
      BY <2>1 DEF AcquireHit
    <3> HIDE DEF e
    <3> QED BY <2>0, <3>1, <3>2, HandOutInv DEF e
  <2>2. CASE AcquireMiss(c, a)
    <3> PICK e \in Entries : /\ driver[e] = "none"
                             /\ driver' = [driver EXCEPT ![e] = "open"]
                             /\ aged' = aged \ {e}
                             /\ HandOut(c, a, e, [addr EXCEPT ![e] = a])
      BY <2>2 DEF AcquireMiss
    <3>1. Deleted(byAddr, Idle, addr)[a] = None
      BY <2>2 DEF AcquireMiss
    <3> QED BY <2>0, <3>1, HandOutInv
  <2>3. CASE AcquireCannotOpen(c, a)
    BY <2>0, <2>3, AcquireCannotOpenInv
  <2> QED BY <2>1, <2>2, <2>3
<1>2. ASSUME NEW c \in Callers, AcquireRefused(c) PROVE PoolInv'
  BY <1>2, MoveOn DEF AcquireRefused
<1>3. ASSUME NEW c \in Callers, AcquireReturns(c) PROVE PoolInv'
  <2>1. CASE held[c] = None
    BY <1>3, <2>1, MoveOn DEF AcquireReturns
  <2>2. CASE held[c] # None
    BY <1>3, <2>2, MoveOn DEF AcquireReturns
  <2> QED BY <2>1, <2>2
<1>4. ASSUME NEW c \in Callers, ReleaseReturns(c) PROVE PoolInv'
  BY <1>4, MoveOn DEF ReleaseReturns, PoolInv, PhasesAgree
<1>5. CASE UNCHANGED vars
  BY <1>5 DEF vars, cache, PoolInv, TypeOK, PhasesAgree, RefsCountHolders, HeldIsOpen, CacheAgrees,
     Lifecycle, ClosedOnce, ClosedByOne, NothingLeaks, EmptyOnceClosed, Holders, Listed
<1> QED BY <1>1, <1>2, <1>3, <1>4, <1>5, ForgetInv, ReleaseInv, CloseStaleInv, IdleTimeoutPassesInv,
           CloseInv, CloseInBackgroundInv DEF Next

\* The inductive invariant holds in every reachable state.
THEOREM SpecInv == Spec => []PoolInv
BY InitInv, NextInv, PTL DEF Spec

\* Every variable keeps its type.
THEOREM TypeCorrect == Spec => []TypeOK
<1>1. PoolInv => TypeOK BY DEF PoolInv
<1> QED BY <1>1, SpecInv, PTL

\* No eviction, sweep, forget or shutdown closes a pool somebody holds.
THEOREM NeverClosedUnderACall == Spec => []HeldIsOpen
<1>1. PoolInv => HeldIsOpen BY DEF PoolInv
<1> QED BY <1>1, SpecInv, PTL

\* The reference count is exact, however calls, evictions and forgets interleave.
THEOREM ReferencesAreExact == Spec => []RefsCountHolders
<1>1. PoolInv => RefsCountHolders BY DEF PoolInv
<1> QED BY <1>1, SpecInv, PTL

\* The map and the list never disagree.
THEOREM MapAndListAgree == Spec => []CacheAgrees
<1>1. PoolInv => CacheAgrees BY DEF PoolInv
<1> QED BY <1>1, SpecInv, PTL

\* A pool is closed by one party, once, when nobody holds it.
THEOREM ClosesAreExclusive == Spec => []ClosedOnce
<1>1. PoolInv => ClosedOnce BY DEF PoolInv
<1> QED BY <1>1, SpecInv, PTL

\* Every open pool is cached, held or about to be closed.
THEOREM NoPoolIsLost == Spec => []NothingLeaks
<1>1. PoolInv => NothingLeaks BY DEF PoolInv
<1> QED BY <1>1, SpecInv, PTL

\* The cache stays empty after Close.
THEOREM ClosedStaysEmpty == Spec => []EmptyOnceClosed
<1>1. PoolInv => EmptyOnceClosed BY DEF PoolInv
<1> QED BY <1>1, SpecInv, PTL
=============================================================================
