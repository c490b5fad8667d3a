--------------------------- MODULE PoolCacheEviction ---------------------------
(***************************************************************************)
(* What the pool cache evicts, for any number of calls, clusters, databases *)
(* and pools and any limits.  evictOverflow takes the entry its loop finds  *)
(* last in the order of preference; that there is one, and only one, needs  *)
(* the list to be a total order, and that taking one is enough needs the    *)
(* cluster to have been within its limit before the acquire.  The last      *)
(* section shows that every step is a step of PoolPromise or none.          *)
(***************************************************************************)
EXTENDS PoolCacheProofs, WellFoundedInduction

\* What LruIsOrdered says of the list, of any list.
OrderedList(list) ==
    /\ list \subseteq Listed(list) \X Listed(list)
    /\ \A e, f \in Listed(list) :
          /\ <<e, f>> \in list \/ <<f, e>> \in list
          /\ <<e, f>> \in list /\ <<f, e>> \in list => e = f
    /\ \A e, f, g \in Listed(list) : <<e, f>> \in list /\ <<f, g>> \in list => <<e, g>> \in list

------------------------------------------------------------------------------
(* The list *)

\* list.Remove keeps the order of what it leaves.
LEMMA RemovedIsOrdered ==
    ASSUME NEW list, OrderedList(list), NEW S
    PROVE  OrderedList(Removed(list, S))
<1>1. Listed(Removed(list, S)) = Listed(list) \ S
  BY ListedRemoved
<1>2. \A p \in list : p = <<p[1], p[2]>> /\ p[1] \in Listed(list) /\ p[2] \in Listed(list)
  BY DEF OrderedList
<1>3. \A e, f : <<e, f>> \in Removed(list, S) <=> <<e, f>> \in list /\ e \notin S /\ f \notin S
  BY DEF Removed
<1>4. Removed(list, S) \subseteq (Listed(list) \ S) \X (Listed(list) \ S)
  BY <1>2 DEF Removed
<1> HIDE DEF Removed
<1> QED BY <1>1, <1>3, <1>4 DEF OrderedList

\* list.PushFront and list.MoveToFront put the entry before all others, which keep theirs.
LEMMA ToFrontIsOrdered ==
    ASSUME NEW list, OrderedList(list), NEW e \in Entries
    PROVE  /\ OrderedList(ToFront(list, e))
           /\ \A x \in Listed(ToFront(list, e)) : <<x, e>> \in ToFront(list, e)
           /\ \A x, y \in Listed(list) \ {e} : <<x, y>> \in ToFront(list, e) <=> <<x, y>> \in list
<1> DEFINE new == ToFront(list, e)
<1>1. Listed(new) = Listed(list) \cup {e}
  BY ListedToFront
<1>2. \A p \in list : p = <<p[1], p[2]>> /\ p[1] \in Listed(list) /\ p[2] \in Listed(list)
  BY DEF OrderedList
<1>3. \A x, y : <<x, y>> \in new <=> \/ <<x, y>> \in list /\ x # e /\ y # e
                                     \/ x \in Listed(list) \cup {e} /\ y = e
  BY DEF ToFront
<1>4. new \subseteq (Listed(list) \cup {e}) \X (Listed(list) \cup {e})
  BY <1>2 DEF ToFront
<1> HIDE DEF new
<1>5. OrderedList(new)
  <2>1. ASSUME NEW x \in Listed(new), NEW y \in Listed(new)
        PROVE  /\ <<x, y>> \in new \/ <<y, x>> \in new
               /\ <<x, y>> \in new /\ <<y, x>> \in new => x = y
    <3>1. CASE x # e /\ y # e
      <4>1. x \in Listed(list) /\ y \in Listed(list)
        BY <1>1, <3>1
      <4>2. (<<x, y>> \in new <=> <<x, y>> \in list) /\ (<<y, x>> \in new <=> <<y, x>> \in list)
        BY <1>3, <3>1
      <4> QED BY <4>1, <4>2 DEF OrderedList
    <3>2. CASE x = e \/ y = e
      BY <1>1, <1>3, <3>2
    <3> QED BY <3>1, <3>2
  <2>2. \A x, y, z \in Listed(new) : <<x, y>> \in new /\ <<y, z>> \in new => <<x, z>> \in new
    BY <1>1, <1>3 DEF OrderedList
  <2> QED BY <1>1, <1>4, <2>1, <2>2 DEF OrderedList
<1> QED BY <1>1, <1>3, <1>5 DEF new

\* Nobody is preferred to himself, and preference is total and transitive.
LEMMA PreferenceIsAnOrder ==
    ASSUME NEW list, OrderedList(list), NEW count
    PROVE  /\ \A e, f \in Listed(list) : e # f =>
                (Prefers(e, f, list, count) <=> ~Prefers(f, e, list, count))
           /\ \A e, f, g \in Listed(list) :
                Prefers(e, f, list, count) /\ Prefers(f, g, list, count) => Prefers(e, g, list, count)
  BY DEF OrderedList, Prefers

------------------------------------------------------------------------------
(* The choice of evictable *)

\* Of a finite set of entries in the list one is preferred to all others.
LEMMA OneIsPreferred ==
    ASSUME NEW list, OrderedList(list), NEW count,
           NEW S \in SUBSET Listed(list), IsFiniteSet(S), S # {}
    PROVE  \E e \in S : {f \in S : Prefers(f, e, list, count)} = {}
<1> DEFINE before(e) == {f \in S : Prefers(f, e, list, count)}
           rank(e)   == Cardinality(before(e))
           R         == {rank(e) : e \in S}
<1>1. \A e \in S : IsFiniteSet(before(e)) /\ rank(e) \in Nat
  BY FS_Subset, FS_CardinalityType
<1>2. R \subseteq Nat /\ R # {}
  BY <1>1
<1>3. PICK n \in R : \A m \in R : ~(<<m, n>> \in OpToRel(<, Nat))
  BY <1>2, NatLessThanWellFounded, WFMin
<1>4. PICK e \in S : rank(e) = n
  BY <1>3
<1>5. \A m \in R : m >= n
  <2> SUFFICES ASSUME NEW m \in R, ~(m >= n) PROVE FALSE
    OBVIOUS
  <2>1. m \in Nat /\ n \in Nat
    BY <1>2, <1>3
  <2>2. m < n
    BY <2>1
  <2>3. <<m, n>> \in OpToRel(<, Nat)
    BY <2>1, <2>2 DEF OpToRel
  <2> QED BY <1>3, <2>3
<1> SUFFICES ASSUME NEW f \in before(e) PROVE FALSE
  BY <1>4
<1>6. f \in S /\ Prefers(f, e, list, count)
  OBVIOUS
<1>7. before(f) \subseteq before(e) /\ f \notin before(f)
  <2>1. \A g \in S : Prefers(g, f, list, count) => Prefers(g, e, list, count)
    BY <1>6, PreferenceIsAnOrder
  <2> QED BY <2>1 DEF Prefers
<1>8. rank(f) < rank(e)
  <2>1. before(f) \in SUBSET before(e) /\ before(f) # before(e)
    BY <1>7
  <2> HIDE DEF before
  <2>2. rank(f) <= rank(e) /\ rank(f) # rank(e)
    BY <1>1, <2>1, FS_Subset
  <2> QED BY <1>1, <1>6, <2>2
<1>9. rank(f) \in R /\ rank(f) \in Nat /\ rank(e) \in Nat
  BY <1>1, <1>6
<1> HIDE DEF rank, R
<1> QED BY <1>4, <1>5, <1>8, <1>9

------------------------------------------------------------------------------
(* Counting the pools of a cluster *)

LEMMA AddressIsFinite == IsFiniteSet(Address)
<1> DEFINE f == [a \in Address |-> <<a.cluster, a.database>>]
<1>1. IsFiniteSet(Clusters \X Databases)
  BY FS_Product, PoolCacheAssumption
<1>2. f \in Injection(Address, Clusters \X Databases)
  <2>1. f \in [Address -> Clusters \X Databases]
    BY DEF Address
  <2>2. \A a, b \in Address : f[a] = f[b] => a = b
    BY DEF Address
  <2> HIDE DEF f
  <2> QED BY <2>1, <2>2 DEF Injection, IsInjective
<1> HIDE DEF f
<1> QED BY <1>1, <1>2, FS_Injection

Filed(map, k) == {a \in Address : a.cluster = k /\ map[a] # None}

LEMMA FiledIsFinite ==
    ASSUME NEW map, NEW k
    PROVE  IsFiniteSet(Filed(map, k)) /\ Count(map, k) = Cardinality(Filed(map, k)) /\ Count(map, k) \in Nat
  BY AddressIsFinite, FS_Subset, FS_CardinalityType DEF Filed, Count

\* A map with no more entries counts no more, and less if one of the cluster is gone.
LEMMA CountLess ==
    ASSUME NEW map, NEW less, NEW k, \A a \in Address : less[a] # None => map[a] # None
    PROVE  /\ Count(less, k) <= Count(map, k)
           /\ (\E a \in Address : a.cluster = k /\ map[a] # None /\ less[a] = None) => Count(less, k) < Count(map, k)
<1>1. Filed(less, k) \in SUBSET Filed(map, k)
  BY DEF Filed
<1>2. /\ Cardinality(Filed(less, k)) <= Cardinality(Filed(map, k))
      /\ Cardinality(Filed(less, k)) = Cardinality(Filed(map, k)) => Filed(less, k) = Filed(map, k)
  BY <1>1, FiledIsFinite, FS_Subset
<1>3. ASSUME NEW a \in Address, a.cluster = k, map[a] # None, less[a] = None
      PROVE  Filed(less, k) # Filed(map, k)
  BY <1>3 DEF Filed
<1> QED BY <1>2, <1>3, FiledIsFinite

\* Filing an entry counts one more in its cluster, unless the address had one.
LEMMA CountMore ==
    ASSUME NEW map \in [Address -> Entries \cup {None}], NEW a \in Address, NEW e \in Entries
    PROVE  LET more == [map EXCEPT ![a] = e]
           IN  /\ map[a] = None => Count(more, a.cluster) = Count(map, a.cluster) + 1
               /\ map[a] # None => Count(more, a.cluster) = Count(map, a.cluster)
               /\ \A k : k # a.cluster => Count(more, k) = Count(map, k)
<1> DEFINE more == [map EXCEPT ![a] = e]
<1>1. e # None
  BY PoolCacheAssumption
<1>2. Filed(more, a.cluster) = Filed(map, a.cluster) \cup {a} /\ (a \in Filed(map, a.cluster) <=> map[a] # None)
  BY <1>1 DEF Filed
<1>3. \A k : k # a.cluster => Filed(more, k) = Filed(map, k)
  BY DEF Filed
<1> HIDE DEF more
<1>4. Cardinality(Filed(map, a.cluster) \cup {a}) =
        IF a \in Filed(map, a.cluster) THEN Cardinality(Filed(map, a.cluster)) ELSE Cardinality(Filed(map, a.cluster)) + 1
  BY FiledIsFinite, FS_AddElement
<1>5. /\ map[a] = None => Count(more, a.cluster) = Count(map, a.cluster) + 1
      /\ map[a] # None => Count(more, a.cluster) = Count(map, a.cluster)
  BY <1>2, <1>4, FiledIsFinite
<1>6. \A k : k # a.cluster => Count(more, k) = Count(map, k)
  BY <1>3, FiledIsFinite
<1> QED BY <1>5, <1>6 DEF more

\* WithinLimit, as evictOverflow counts it.
LEMMA LimitIsAtLeastOne ==
    /\ WithinLimit <=> \A k \in Clusters : Count(byAddr, k) <= AtLeastOne(MaxDatabases[k])
    /\ \A k \in Clusters : AtLeastOne(MaxDatabases[k]) \in Nat \ {0}
<1>1. \A k \in Clusters : MaxDatabases[k] \in Int
  BY PoolCacheAssumption
<1>2. \A k \in Clusters : Count(byAddr, k) \in Nat
  BY FiledIsFinite
<1> QED BY <1>1, <1>2 DEF WithinLimit, AtLeastOne

------------------------------------------------------------------------------
(* evictOverflow *)

\* The map and the list agree, as CacheAgrees says of the cache.
Agree(map, list, at) ==
    /\ map \in [Address -> Entries \cup {None}]
    /\ Listed(list) \subseteq Entries
    /\ \A b \in Address : map[b] # None => map[b] \in Listed(list) /\ at[map[b]] = b
    /\ \A x \in Listed(list) : at[x] \in Address /\ map[at[x]] = x

\* Nothing is evicted below the limit; one above it, the entry preferred to all others.
LEMMA OneIsEvicted ==
    ASSUME NEW list, OrderedList(list), NEW map, NEW at, Agree(map, list, at), NEW count,
           NEW k \in Clusters, Excess(k, map) <= 1
    PROVE  LET S         == Overflow(k, map, list, count, at)
               ofCluster == {x \in Listed(list) : at[x].cluster = k}
           IN  /\ Excess(k, map) <= 0 => S = {}
               /\ Excess(k, map) = 1 => \E e \in ofCluster :
                    S = {e} /\ \A f \in ofCluster \ {e} : Prefers(e, f, list, count)
<1> DEFINE ofCluster == {x \in Listed(list) : at[x].cluster = k}
           before(e) == {f \in ofCluster : Prefers(f, e, list, count)}
           S         == Overflow(k, map, list, count, at)
<1>1. IsFiniteSet(ofCluster)
  <2> DEFINE f == [x \in ofCluster |-> at[x]]
  <2>1. f \in [ofCluster -> Address]
    BY DEF Agree
  <2>2. \A x, y \in ofCluster : f[x] = f[y] => x = y
    BY DEF Agree
  <2> HIDE DEF f, ofCluster
  <2>3. f \in Injection(ofCluster, Address)
    BY <2>1, <2>2 DEF Injection, IsInjective
  <2> QED BY <2>3, AddressIsFinite, FS_Injection
<1>2. \A e \in ofCluster : /\ IsFiniteSet(before(e)) /\ Cardinality(before(e)) \in Nat
                           /\ Cardinality(before(e)) = 0 <=> before(e) = {}
  BY <1>1, FS_Subset, FS_CardinalityType, FS_EmptySet
<1>3. Excess(k, map) \in Int
  BY FiledIsFinite, LimitIsAtLeastOne DEF Excess
<1>4. S = {e \in ofCluster : Cardinality(before(e)) < Excess(k, map)}
  BY DEF Overflow
<1> HIDE DEF before, S
<1>5. Excess(k, map) <= 0 => S = {}
  BY <1>2, <1>3, <1>4
<1>6. ASSUME Excess(k, map) = 1
      PROVE  \E e \in ofCluster : S = {e} /\ \A f \in ofCluster \ {e} : Prefers(e, f, list, count)
  <2>1. ofCluster # {}
    <3>1. Count(map, k) # 0
      BY <1>6, FiledIsFinite, LimitIsAtLeastOne DEF Excess
    <3>2. Filed(map, k) # {}
      BY <3>1, FiledIsFinite, FS_EmptySet
    <3> QED BY <3>2 DEF Filed, Agree
  <2>2. S = {e \in ofCluster : before(e) = {}}
    BY <1>2, <1>4, <1>6
  <2>3. PICK e \in ofCluster : before(e) = {}
    <3>1. ofCluster \in SUBSET Listed(list)
      OBVIOUS
    <3> HIDE DEF ofCluster
    <3> QED BY <1>1, <2>1, <3>1, OneIsPreferred DEF before
  <2>4. \A f \in ofCluster \ {e} : Prefers(e, f, list, count)
    BY <2>3, PreferenceIsAnOrder DEF before
  <2>5. \A f \in ofCluster \ {e} : before(f) # {}
    BY <2>3, <2>4 DEF before
  <2> QED BY <2>2, <2>3, <2>4, <2>5
<1> QED BY <1>5, <1>6 DEF S

------------------------------------------------------------------------------
(* acquire *)

\* The lock section of an acquire that hands out e, cached or just made.
Handed(c, a, e, at) ==
    /\ pc[c] = "idle" /\ ~closed /\ HandOut(c, a, e, at)
    /\ \/ /\ e = Deleted(byAddr, Idle, addr)[a]
          /\ at = addr
       \/ /\ Deleted(byAddr, Idle, addr)[a] = None
          /\ driver[e] = "none"
          /\ at = [addr EXCEPT ![e] = a]

\* Before it sheds overflow the cache agrees and is ordered, and it exceeds the limit of
\* the one cluster by one at most, and only for a new entry in a full cluster.
LEMMA BeforeOverflow ==
    ASSUME PoolInv, LruIsOrdered, WithinLimit,
           NEW c \in Callers, NEW a \in Address, NEW e \in Entries, NEW at, Handed(c, a, e, at)
    PROVE  LET map  == [Deleted(byAddr, Idle, addr) EXCEPT ![a] = e]
               list == ToFront(Removed(lru, Idle), e)
           IN  /\ Agree(map, list, at) /\ OrderedList(list)
               /\ Listed(list) = (Listed(lru) \ Idle) \cup {e}
               /\ at[e] = a /\ \A x \in Entries \ {e} : at[x] = addr[x]
               /\ Excess(a.cluster, map) <= 1
               /\ \A k \in Clusters : k # a.cluster => Count(map, k) <= Count(byAddr, k)
               /\ Excess(a.cluster, map) = 1 =>
                     /\ e \notin Listed(lru)
                     /\ Count(byAddr, a.cluster) = AtLeastOne(MaxDatabases[a.cluster])
               /\ \A x \in Listed(list) : <<x, e>> \in list
               /\ \A x, y \in Listed(lru) \ (Idle \cup {e}) : <<x, y>> \in list <=> <<x, y>> \in lru
<1> USE DEF PoolInv
<1> DEFINE swept == Deleted(byAddr, Idle, addr)
           map   == [swept EXCEPT ![a] = e]
           rest  == Removed(lru, Idle)
           list  == ToFront(rest, e)
<1>1. None \notin Entries /\ None \notin Address
  BY PoolCacheAssumption
<1>2. /\ swept \in [Address -> Entries \cup {None}]
      /\ Listed(rest) = Listed(lru) \ Idle
      /\ \A b \in Address : swept[b] # None => swept[b] \in Listed(lru) \ Idle /\ addr[swept[b]] = b
      /\ \A x \in Listed(lru) \ Idle : addr[x] \in Address /\ swept[addr[x]] = x
  BY Swept
<1>3. OrderedList(lru)
  BY DEF LruIsOrdered, OrderedList
<1>4. OrderedList(rest)
  BY <1>3, RemovedIsOrdered
<1>5. /\ OrderedList(list) /\ Listed(list) = (Listed(lru) \ Idle) \cup {e}
      /\ \A x \in Listed(list) : <<x, e>> \in list
      /\ \A x, y \in Listed(rest) \ {e} : <<x, y>> \in list <=> <<x, y>> \in rest
  BY <1>2, <1>4, ToFrontIsOrdered, ListedToFront
<1>6. \A x, y \in Listed(lru) \ (Idle \cup {e}) : <<x, y>> \in list <=> <<x, y>> \in lru
  <2>1. \A x, y \in Listed(lru) \ (Idle \cup {e}) : <<x, y>> \in rest <=> <<x, y>> \in lru
    BY DEF Removed
  <2> HIDE DEF list, rest
  <2> QED BY <1>2, <1>5, <2>1
<1> HIDE DEF swept, rest, list
<1>7. /\ at[e] = a /\ \A x \in Entries \ {e} : at[x] = addr[x]
      /\ swept[a] \in {None, e}
      /\ swept[a] = None => e \notin Listed(lru)
      /\ swept[a] = e => addr[e] = a
  <2>1. CASE e = swept[a] /\ at = addr
    BY <1>1, <1>2, <2>1
  <2>2. CASE swept[a] = None /\ driver[e] = "none" /\ at = [addr EXCEPT ![e] = a]
    BY <1>1, <2>2 DEF TypeOK, Lifecycle
  <2> QED BY <2>1, <2>2 DEF Handed, swept
<1>8. map \in [Address -> Entries \cup {None}] /\ map[a] = e /\ \A b \in Address : b # a => map[b] = swept[b]
  BY <1>2
<1>9. Agree(map, list, at)
  <2> HIDE DEF map
  <2>1. Listed(list) \subseteq Entries
    BY DEF Listed
  <2>2. ASSUME NEW b \in Address, map[b] # None PROVE map[b] \in Listed(list) /\ at[map[b]] = b
    <3>1. CASE b = a
      BY <1>5, <1>7, <1>8, <3>1
    <3>2. CASE b # a
      <4>1. map[b] = swept[b] /\ swept[b] \in Listed(lru) \ Idle /\ addr[swept[b]] = b
        BY <1>2, <1>8, <2>2, <3>2
      <4>2. swept[b] # e
        BY <1>1, <1>7, <1>2, <3>2, <4>1
      <4> QED BY <1>5, <1>7, <2>1, <4>1, <4>2
    <3> QED BY <3>1, <3>2
  <2>3. ASSUME NEW x \in Listed(list) PROVE at[x] \in Address /\ map[at[x]] = x
    <3>1. CASE x = e
      BY <1>7, <1>8, <3>1
    <3>2. CASE x # e
      <4>1. x \in Listed(lru) \ Idle /\ at[x] = addr[x] /\ addr[x] \in Address /\ swept[addr[x]] = x
        BY <1>2, <1>5, <1>7, <2>1, <3>2
      <4>2. addr[x] # a
        BY <1>1, <1>7, <2>1, <3>2, <4>1
      <4> QED BY <1>8, <4>1, <4>2
    <3> QED BY <3>1, <3>2
  <2> QED BY <1>8, <2>1, <2>2, <2>3 DEF Agree
<1>10. \A k : Count(swept, k) <= Count(byAddr, k)
  BY CountLess DEF swept, Deleted
<1>11. /\ swept[a] = None => Count(map, a.cluster) = Count(swept, a.cluster) + 1
       /\ swept[a] # None => Count(map, a.cluster) = Count(swept, a.cluster)
       /\ \A k : k # a.cluster => Count(map, k) = Count(swept, k)
  BY <1>2, CountMore
<1> HIDE DEF map
<1>12. a.cluster \in Clusters
  BY DEF Address
<1>13. /\ Count(byAddr, a.cluster) <= AtLeastOne(MaxDatabases[a.cluster])
       /\ Count(swept, a.cluster) <= Count(byAddr, a.cluster)
       /\ AtLeastOne(MaxDatabases[a.cluster]) \in Nat /\ Count(byAddr, a.cluster) \in Nat
       /\ Count(swept, a.cluster) \in Nat /\ Count(map, a.cluster) \in Nat
  BY <1>10, <1>12, LimitIsAtLeastOne, FiledIsFinite
<1>14. /\ Excess(a.cluster, map) <= 1
       /\ Excess(a.cluster, map) = 1 =>
             swept[a] = None /\ Count(byAddr, a.cluster) = AtLeastOne(MaxDatabases[a.cluster])
  BY <1>11, <1>13 DEF Excess
<1> QED BY <1>5, <1>6, <1>7, <1>9, <1>10, <1>11, <1>14 DEF map, list, swept, rest

\* What an acquire that hands out an entry drops beyond the sweep: nothing, or the one
\* preferred entry of a full cluster, which is not the one handed out.
Shed(c, a, e, at) ==
    LET map  == [Deleted(byAddr, Idle, addr) EXCEPT ![a] = e]
        list == ToFront(Removed(lru, Idle), e)
    IN  Overflow(a.cluster, map, list, Referenced(e), at)

LEMMA ShedsOne ==
    ASSUME PoolInv, LruIsOrdered, WithinLimit,
           NEW c \in Callers, NEW a \in Address, NEW e \in Entries, NEW at, Handed(c, a, e, at)
    PROVE  /\ e \notin Shed(c, a, e, at) /\ at[e] = a
           /\ \A x \in Shed(c, a, e, at) :
                /\ Shed(c, a, e, at) = {x}
                /\ x \in Listed(lru) \ Idle /\ addr[x].cluster = a.cluster
                /\ e \notin Listed(lru)
                /\ Count(byAddr, a.cluster) = AtLeastOne(MaxDatabases[a.cluster])
                /\ \A f \in Listed(lru) \ (Idle \cup {x}) : addr[f].cluster = a.cluster =>
                      \/ refs[x] = 0 /\ refs[f] > 0
                      \/ <<x, f>> \in lru /\ ~(refs[f] = 0 /\ refs[x] > 0)
<1> DEFINE map  == [Deleted(byAddr, Idle, addr) EXCEPT ![a] = e]
           list == ToFront(Removed(lru, Idle), e)
           S    == Shed(c, a, e, at)
           count == Referenced(e)
           ofCluster == {x \in Listed(list) : at[x].cluster = a.cluster}
<1>1. /\ Agree(map, list, at) /\ OrderedList(list) /\ Listed(list) = (Listed(lru) \ Idle) \cup {e}
      /\ at[e] = a /\ \A x \in Entries \ {e} : at[x] = addr[x]
      /\ Excess(a.cluster, map) <= 1
      /\ Excess(a.cluster, map) = 1 =>
            e \notin Listed(lru) /\ Count(byAddr, a.cluster) = AtLeastOne(MaxDatabases[a.cluster])
      /\ \A x \in Listed(list) : <<x, e>> \in list
      /\ \A x, y \in Listed(lru) \ (Idle \cup {e}) : <<x, y>> \in list <=> <<x, y>> \in lru
  BY BeforeOverflow
<1>2. a.cluster \in Clusters
  BY DEF Address
<1>3. S = Overflow(a.cluster, map, list, count, at)
  BY DEF Shed
<1> HIDE DEF map, list, S, count
<1>4. /\ Excess(a.cluster, map) <= 0 => S = {}
      /\ Excess(a.cluster, map) = 1 => \E x \in ofCluster :
            S = {x} /\ \A f \in ofCluster \ {x} : Prefers(x, f, list, count)
  BY <1>1, <1>2, <1>3, OneIsEvicted
<1>5. Excess(a.cluster, map) \in Int
  BY <1>2, FiledIsFinite, LimitIsAtLeastOne DEF Excess
<1>6. /\ count[e] > 0 /\ \A x \in Entries \ {e} : count[x] = refs[x]
      /\ \A x \in Entries : refs[x] \in Nat /\ count[x] \in Nat
  BY NoRefsNoHolders DEF count, Referenced, PoolInv, TypeOK
<1>7. CASE Excess(a.cluster, map) <= 0
  BY <1>1, <1>4, <1>7 DEF S
<1>8. CASE Excess(a.cluster, map) = 1
  <2>1. PICK x \in ofCluster : S = {x} /\ \A f \in ofCluster \ {x} : Prefers(x, f, list, count)
    BY <1>4, <1>8
  <2>2. e \in ofCluster /\ e \notin Listed(lru)
    BY <1>1, <1>8
  <2>3. x # e
    <3> SUFFICES ASSUME x = e PROVE FALSE
      OBVIOUS
    <3>1. Count(map, a.cluster) >= 2
      BY <1>2, <1>8, FiledIsFinite, LimitIsAtLeastOne DEF Excess
    <3>2. Filed(map, a.cluster) # {a}
      BY <3>1, FiledIsFinite, FS_Singleton
    <3>3. Filed(map, a.cluster) # {}
      BY <3>1, FiledIsFinite, FS_EmptySet
    <3>4. PICK b \in Filed(map, a.cluster) : b # a
      BY <3>2, <3>3
    <3>5. map[b] \in Listed(list) /\ at[map[b]] = b /\ b.cluster = a.cluster
      BY <1>1, <3>4 DEF Filed, Agree
    <3>6. map[b] \in ofCluster \ {e}
      BY <1>1, <3>4, <3>5
    <3>7. Prefers(e, map[b], list, count) /\ <<map[b], e>> \in list
      BY <1>1, <2>1, <3>5, <3>6
    <3>8. <<e, map[b]>> \in list /\ e # map[b]
      BY <1>6, <3>7 DEF Prefers
    <3> QED BY <1>1, <2>2, <3>5, <3>7, <3>8 DEF OrderedList
  <2>4. x \in Listed(lru) \ Idle /\ x \in Entries /\ addr[x].cluster = a.cluster
    BY <1>1, <2>1, <2>3 DEF Listed
  <2>5. ASSUME NEW f \in Listed(lru) \ (Idle \cup {x}), addr[f].cluster = a.cluster
        PROVE  \/ refs[x] = 0 /\ refs[f] > 0
               \/ <<x, f>> \in lru /\ ~(refs[f] = 0 /\ refs[x] > 0)
    <3>1. f # e /\ f \in Entries
      BY <2>2 DEF Listed
    <3>2. f \in ofCluster \ {x}
      BY <1>1, <2>5, <3>1
    <3>3. Prefers(x, f, list, count)
      BY <2>1, <3>2
    <3>4. <<x, f>> \in list <=> <<x, f>> \in lru
      BY <1>1, <2>3, <2>4, <3>1
    <3>5. count[x] = refs[x] /\ count[f] = refs[f] /\ refs[x] \in Nat /\ refs[f] \in Nat
      BY <1>6, <2>3, <2>4, <3>1
    <3> QED BY <3>3, <3>4, <3>5 DEF Prefers
  <2> QED BY <1>1, <1>8, <2>1, <2>3, <2>4, <2>5 DEF S
<1> QED BY <1>1, <1>5, <1>7, <1>8

------------------------------------------------------------------------------
(* The inductive invariant *)

\* An entry nobody holds that is past its idleTimeout was unused all that time.
UnusedRested == \A e \in Listed(lru) : e \in aged /\ refs[e] = 0 => e \in rested

EvictInv == PoolInv /\ LruIsOrdered /\ WithinLimit /\ UnusedRested

LEMMA EvictInit == Init => LruIsOrdered /\ WithinLimit /\ UnusedRested
<1> SUFFICES ASSUME Init PROVE LruIsOrdered /\ WithinLimit /\ UnusedRested
  OBVIOUS
<1>1. Listed(lru) = {}
  BY DEF Init, Listed
<1>2. \A k \in Clusters : Count(byAddr, k) = 0
  <2>1. \A k : Filed(byAddr, k) = {}
    BY DEF Init, Filed
  <2> QED BY <2>1, FiledIsFinite, FS_EmptySet
<1> QED BY <1>1, <1>2 DEF Init, LruIsOrdered, WithinLimit, UnusedRested

\* Dropping entries keeps the order and can only bring a cluster below its limit.
LEMMA DropKeepsLimits ==
    ASSUME LruIsOrdered, WithinLimit, NEW S, lru' = Removed(lru, S), byAddr' = Deleted(byAddr, S, addr)
    PROVE  LruIsOrdered' /\ WithinLimit' /\ Listed(lru)' = Listed(lru) \ S
<1>1. OrderedList(lru')
  BY RemovedIsOrdered DEF LruIsOrdered, OrderedList
<1>2. LruIsOrdered'
  BY <1>1 DEF LruIsOrdered, OrderedList, Listed
<1>3. \A k \in Clusters : Count(Deleted(byAddr, S, addr), k) <= Count(byAddr, k)
  BY CountLess DEF Deleted
<1>4. \A k \in Clusters : MaxDatabases[k] \in Int /\ Count(byAddr, k) \in Nat /\ Count(byAddr', k) \in Nat
  BY FiledIsFinite, PoolCacheAssumption
<1>5. \A k \in Clusters : Count(byAddr', k) <= Count(byAddr, k)
  BY <1>3
<1>6. WithinLimit'
  <2>1. \A k \in Clusters : Count(byAddr', k) <= 1 \/ Count(byAddr', k) <= MaxDatabases[k]
    BY <1>4, <1>5 DEF WithinLimit
  <2> QED BY <2>1 DEF WithinLimit, Count
<1> QED BY <1>2, <1>6, ListedRemoved DEF Listed

LEMMA HandOutKeepsLimits ==
    ASSUME EvictInv, NEW c \in Callers, NEW a \in Address, NEW e \in Entries, NEW at, Handed(c, a, e, at),
           aged' \subseteq aged
    PROVE  LruIsOrdered' /\ WithinLimit' /\ UnusedRested'
<1> USE DEF EvictInv
<1> DEFINE map   == [Deleted(byAddr, Idle, addr) EXCEPT ![a] = e]
           list  == ToFront(Removed(lru, Idle), e)
           count == Referenced(e)
           S     == Overflow(a.cluster, map, list, count, at)
           k     == a.cluster
<1>0. /\ byAddr' = Deleted(map, S, at) /\ lru' = Removed(list, S)
      /\ refs' = count /\ rested' = rested \ {e}
  BY DEF Handed, HandOut
<1>1. /\ Agree(map, list, at) /\ OrderedList(list) /\ Listed(list) = (Listed(lru) \ Idle) \cup {e}
      /\ Excess(k, map) <= 1
      /\ \A h \in Clusters : h # k => Count(map, h) <= Count(byAddr, h)
  BY BeforeOverflow
<1>2. k \in Clusters
  BY DEF Address
<1> HIDE DEF map, list, S
<1>3. OrderedList(lru') /\ Listed(lru') = Listed(list) \ S
  BY <1>0, <1>1, RemovedIsOrdered, ListedRemoved
<1>4. LruIsOrdered'
  BY <1>3 DEF LruIsOrdered, OrderedList, Listed
<1>5. UnusedRested'
  <2>1. count[e] > 0 /\ \A x \in Entries \ {e} : count[x] = refs[x]
    BY NoRefsNoHolders DEF PoolInv, TypeOK, Referenced
  <2>2. ASSUME NEW x \in Listed(lru'), x \in aged', refs'[x] = 0 PROVE x \in rested'
    <3>1. x \in Entries /\ x # e /\ refs[x] = 0
      BY <1>0, <2>1, <2>2 DEF Listed
    <3>2. x \in Listed(lru)
      BY <1>1, <1>3, <2>2, <3>1
    <3> QED BY <1>0, <2>2, <3>1, <3>2 DEF UnusedRested
  <2> QED BY <2>2 DEF UnusedRested, Listed
<1>6. \A h \in Clusters : Count(byAddr', h) <= AtLeastOne(MaxDatabases[h])
  <2>1. \A h : Count(byAddr', h) <= Count(map, h)
    <3>1. \A b \in Address : byAddr'[b] # None => map[b] # None
      BY <1>0 DEF Deleted
    <3> QED BY <3>1, CountLess
  <2>2. \A h \in Clusters : /\ Count(byAddr', h) \in Nat /\ Count(map, h) \in Nat /\ Count(byAddr, h) \in Nat
                            /\ AtLeastOne(MaxDatabases[h]) \in Nat
                            /\ Count(byAddr, h) <= AtLeastOne(MaxDatabases[h])
    BY FiledIsFinite, LimitIsAtLeastOne
  <2>3. \A h \in Clusters : h # k => Count(byAddr', h) <= AtLeastOne(MaxDatabases[h])
    BY <1>1, <2>1, <2>2
  <2>4. Count(byAddr', k) <= AtLeastOne(MaxDatabases[k])
    <3>1. CASE Excess(k, map) <= 0
      BY <1>2, <2>1, <2>2, <3>1 DEF Excess
    <3>2. CASE Excess(k, map) = 1
      <4>1. PICK x \in Listed(list) : x \in S /\ at[x].cluster = k
        BY <1>1, <1>2, <3>2, OneIsEvicted DEF S
      <4>2. at[x] \in Address /\ map[at[x]] = x /\ x # None
        BY <1>1, <4>1, PoolCacheAssumption DEF Agree
      <4>3. byAddr'[at[x]] = None
        BY <1>0, <4>1, <4>2 DEF Deleted
      <4>4. Count(byAddr', k) < Count(map, k)
        <5>1. \A b \in Address : byAddr'[b] # None => map[b] # None
          BY <1>0 DEF Deleted
        <5> QED BY <4>1, <4>2, <4>3, <5>1, CountLess
      <4> QED BY <1>2, <2>2, <3>2, <4>4 DEF Excess
    <3>3. Excess(k, map) \in Int
      BY <1>2, <2>2 DEF Excess
    <3> QED BY <1>1, <3>1, <3>2, <3>3
  <2> QED BY <2>3, <2>4
<1>7. WithinLimit'
  <2>1. \A h \in Clusters : MaxDatabases[h] \in Int /\ Count(byAddr', h) \in Nat
    BY FiledIsFinite, PoolCacheAssumption
  <2> QED BY <1>6, <2>1 DEF WithinLimit, AtLeastOne, Count
<1> QED BY <1>4, <1>5, <1>7

\* What addr can be.
Places == [Entries -> Address \cup {None}]

\* An acquire that hands out an entry, as one of its two ways.
LEMMA AcquireHands ==
    ASSUME PoolInv, NEW c \in Callers, NEW a \in Address, pc[c] = "idle", ~closed, AcquireHit(c, a) \/ AcquireMiss(c, a)
    PROVE  \E e \in Entries, at \in Places : Handed(c, a, e, at) /\ aged' \subseteq aged /\ held' = [held EXCEPT ![c] = e] /\ addr' = at
<1>1. CASE AcquireHit(c, a)
  <2> DEFINE e == Deleted(byAddr, Idle, addr)[a]
  <2>1. e \in Entries /\ HandOut(c, a, e, addr) /\ aged' = aged
    BY <1>1, Swept DEF AcquireHit
  <2>2. held' = [held EXCEPT ![c] = e] /\ addr' = addr
    BY <2>1 DEF HandOut
  <2>3. Handed(c, a, e, addr)
    BY <2>1 DEF Handed
  <2>4. addr \in Places
    BY DEF PoolInv, TypeOK, Places
  <2> HIDE DEF e
  <2> QED BY <2>1, <2>2, <2>3, <2>4
<1>2. CASE AcquireMiss(c, a)
  <2>1. PICK e \in Entries : driver[e] = "none" /\ aged' = aged \ {e} /\ HandOut(c, a, e, [addr EXCEPT ![e] = a])
    BY <1>2 DEF AcquireMiss
  <2> DEFINE at == [addr EXCEPT ![e] = a]
  <2>2. held' = [held EXCEPT ![c] = e] /\ addr' = at
    BY <2>1 DEF HandOut
  <2>3. Handed(c, a, e, at)
    BY <1>2, <2>1 DEF Handed, AcquireMiss
  <2>4. at \in Places
    BY DEF PoolInv, TypeOK, Places
  <2> HIDE DEF at
  <2> QED BY <2>1, <2>2, <2>3, <2>4
<1> QED BY <1>1, <1>2

LEMMA EvictNext == EvictInv /\ [Next]_vars => EvictInv'
<1> SUFFICES ASSUME EvictInv, [Next]_vars PROVE LruIsOrdered' /\ WithinLimit' /\ UnusedRested'
  BY NextInv DEF EvictInv
<1> USE DEF EvictInv
<1>1. ASSUME NEW c \in Callers, Acquire(c) PROVE LruIsOrdered' /\ WithinLimit' /\ UnusedRested'
  <2>1. PICK a \in Address : AcquireHit(c, a) \/ AcquireMiss(c, a) \/ AcquireCannotOpen(c, a)
    BY <1>1 DEF Acquire
  <2>2. pc[c] = "idle" /\ ~closed
    BY <1>1 DEF Acquire, Serving
  <2>3. CASE AcquireHit(c, a) \/ AcquireMiss(c, a)
    BY <2>2, <2>3, AcquireHands, HandOutKeepsLimits
  <2>4. CASE AcquireCannotOpen(c, a)
    <3>1. lru' = Removed(lru, Idle) /\ byAddr' = Deleted(byAddr, Idle, addr) /\ UNCHANGED <<refs, aged, rested>>
      BY <2>4 DEF AcquireCannotOpen, Drop
    <3>2. LruIsOrdered' /\ WithinLimit' /\ Listed(lru)' = Listed(lru) \ Idle
      BY <3>1, DropKeepsLimits
    <3> QED BY <3>1, <3>2 DEF UnusedRested
  <2> QED BY <2>1, <2>3, <2>4
<1>2. ASSUME NEW c \in Callers, Forget(c) PROVE LruIsOrdered' /\ WithinLimit' /\ UnusedRested'
  <2> DEFINE S == StillCached(held[c])
  <2>1. lru' = Removed(lru, S) /\ byAddr' = Deleted(byAddr, S, addr) /\ UNCHANGED <<refs, aged, rested>>
    BY <1>2 DEF Forget, Drop
  <2> HIDE DEF S
  <2>2. LruIsOrdered' /\ WithinLimit' /\ Listed(lru)' = Listed(lru) \ S
    BY <2>1, DropKeepsLimits
  <2> QED BY <2>1, <2>2 DEF UnusedRested
<1>3. CASE Close
  <2> DEFINE S == Listed(lru)
  <2>1. lru' = Removed(lru, S) /\ byAddr' = Deleted(byAddr, S, addr) /\ UNCHANGED <<refs, aged, rested>>
    BY <1>3 DEF Close, Drop
  <2> HIDE DEF S
  <2>2. LruIsOrdered' /\ WithinLimit' /\ Listed(lru)' = Listed(lru) \ S
    BY <2>1, DropKeepsLimits
  <2> QED BY <2>1, <2>2 DEF UnusedRested
<1>4. ASSUME UNCHANGED <<byAddr, lru>> PROVE LruIsOrdered' /\ WithinLimit' /\ Listed(lru)' = Listed(lru)
  BY <1>4 DEF LruIsOrdered, WithinLimit, Count, Listed
<1>5. ASSUME NEW c \in Callers, Release(c) PROVE UnusedRested'
  <2> DEFINE e == held[c]
  <2>1. /\ refs' = [refs EXCEPT ![e] = @ - 1] /\ aged' = IF refs'[e] = 0 THEN aged \ {e} ELSE aged
        /\ UNCHANGED <<lru, rested>>
    BY <1>5 DEF Release
  <2>2. \A x \in Entries \ {e} : refs'[x] = refs[x]
    BY <2>1 DEF PoolInv, TypeOK
  <2> HIDE DEF e
  <2>3. ASSUME NEW x \in Listed(lru), x \in aged', refs'[x] = 0 PROVE x \in rested
    BY <2>1, <2>2, <2>3 DEF UnusedRested, Listed
  <2> QED BY <2>1, <2>3 DEF UnusedRested, Listed
<1>6. ASSUME NEW e \in Entries, IdleTimeoutPasses(e) PROVE UnusedRested'
  BY <1>6 DEF IdleTimeoutPasses, UnusedRested, Listed, cache
<1>7. ASSUME UNCHANGED <<lru, refs, aged, rested>> PROVE UnusedRested'
  BY <1>7 DEF UnusedRested, Listed
<1>8. ASSUME NEW c \in Callers, AcquireRefused(c) \/ AcquireReturns(c) \/ ReleaseReturns(c) \/ CloseStale(c)
      PROVE  UNCHANGED <<byAddr, lru, refs, aged, rested>>
  BY <1>8 DEF AcquireRefused, AcquireReturns, ReleaseReturns, CloseStale, cache
<1>9. CASE CloseInBackground \/ UNCHANGED vars
  <2>1. UNCHANGED <<byAddr, lru, refs, aged, rested>>
    BY <1>9 DEF CloseInBackground, vars, cache
  <2> QED BY <2>1, <1>4, <1>7
<1>10. ASSUME NEW c \in Callers, Release(c) PROVE UNCHANGED <<byAddr, lru>>
  BY <1>10 DEF Release
<1>11. ASSUME NEW e \in Entries, IdleTimeoutPasses(e) PROVE UNCHANGED <<byAddr, lru>>
  BY <1>11 DEF IdleTimeoutPasses, cache
<1> QED BY <1>1, <1>2, <1>3, <1>4, <1>5, <1>6, <1>7, <1>8, <1>9, <1>10, <1>11 DEF Next

LEMMA SpecEvictInv == Spec => []EvictInv
<1>1. Init => EvictInv
  BY InitInv, EvictInit DEF EvictInv
<1> QED BY <1>1, EvictNext, PTL DEF Spec

------------------------------------------------------------------------------
(* The theorems *)

\* However calls, forgets, sweeps and releases interleave, the entries stay in one order of use.
THEOREM ListStaysOrdered == Spec => []LruIsOrdered
<1>1. EvictInv => LruIsOrdered BY DEF EvictInv
<1> QED BY <1>1, SpecEvictInv, PTL

\* No cluster ever keeps more pools than its limit (pool.go:139).
THEOREM CacheStaysWithinLimit == Spec => []WithinLimit
<1>1. EvictInv => WithinLimit BY DEF EvictInv
<1> QED BY <1>1, SpecEvictInv, PTL

\* Only acquire hands out an entry.
LEMMA OnlyAcquireAcquires ==
    ASSUME PoolInv, [Next]_vars, NEW c \in Callers, Acquires(c)
    PROVE  Acquire(c)
<1>1. pc[c] = "idle" /\ pc'[c] = "acquired" /\ held'[c] # None /\ held[c] = None /\ held' # held /\ pc' # pc
  BY DEF Acquires, PoolInv, PhasesAgree
<1>2. Next
  BY <1>1 DEF vars, cache
<1>3. ~Close /\ ~CloseInBackground /\ ~\E e \in Entries : IdleTimeoutPasses(e)
  BY <1>1 DEF Close, CloseInBackground, IdleTimeoutPasses, cache
<1>4. PICK d \in Callers : Acquire(d) \/ AcquireRefused(d) \/ AcquireReturns(d) \/ Forget(d) \/ Release(d)
                           \/ ReleaseReturns(d) \/ CloseStale(d)
  BY <1>2, <1>3 DEF Next
<1>5. ~AcquireRefused(d) /\ ~AcquireReturns(d) /\ ~Forget(d) /\ ~ReleaseReturns(d) /\ ~CloseStale(d)
  BY <1>1 DEF AcquireRefused, AcquireReturns, Forget, ReleaseReturns, CloseStale
<1>6. ~Release(d)
  <2> SUFFICES ASSUME Release(d) PROVE FALSE
    OBVIOUS
  <2>1. pc' = [pc EXCEPT ![d] = "released"] /\ pc \in [Callers -> {"idle", "acquired", "using", "forgot", "released"}]
    BY DEF Release, PoolInv, TypeOK
  <2> QED BY <1>1, <2>1
<1>7. Acquire(d)
  BY <1>4, <1>5, <1>6
<1>8. pc' = [pc EXCEPT ![d] = "acquired"] /\ pc \in [Callers -> {"idle", "acquired", "using", "forgot", "released"}]
  BY <1>7 DEF Acquire, PoolInv, TypeOK
<1>9. c = d
  BY <1>1, <1>8
<1> QED BY <1>7, <1>9

\* What an eviction can be: it drops what Shed names, in an acquire that hands out an entry.
LEMMA EvictedIsShed ==
    ASSUME EvictInv, [Next]_vars, NEW x \in Evicted
    PROVE  \E c \in Callers, a \in Address, e \in Entries, at \in Places :
              /\ Handed(c, a, e, at) /\ pc' = [pc EXCEPT ![c] = "acquired"]
              /\ held' = [held EXCEPT ![c] = e] /\ addr' = at
              /\ x \in Shed(c, a, e, at)
<1> USE DEF EvictInv
<1>1. x \in Listed(lru) /\ x \in Entries /\ x \notin Listed(lru')
  BY DEF Evicted, Dropped, Listed
<1>2. x \notin Idle
  BY <1>1 DEF Idle, Evicted, UnusedRested
<1>3. ASSUME NEW c \in Callers, Forget(c) PROVE FALSE
  <2>1. lru' = Removed(lru, StillCached(held[c])) /\ pc[c] = "using" /\ pc' = [pc EXCEPT ![c] = "forgot"]
    BY <1>3 DEF Forget, Drop
  <2>2. x \in StillCached(held[c])
    BY <1>1, <2>1, ListedRemoved
  <2>3. held[c] = x /\ Forgets(c)
    BY <2>1, <2>2 DEF StillCached, Forgets, PoolInv, TypeOK
  <2> QED BY <2>3 DEF Evicted
<1>4. ~Close
  <2> SUFFICES ASSUME Close PROVE FALSE
    OBVIOUS
  <2>1. closed' = TRUE /\ (closed => Listed(lru) = {})
    BY DEF Close, PoolInv, EmptyOnceClosed
  <2> QED BY <1>1, <2>1 DEF Evicted
<1>5. lru' # lru
  BY <1>1
<1>6. ASSUME NEW c \in Callers, AcquireRefused(c) \/ AcquireReturns(c) \/ Release(c) \/ ReleaseReturns(c) \/ CloseStale(c)
      PROVE  UNCHANGED lru
  BY <1>6 DEF AcquireRefused, AcquireReturns, Release, ReleaseReturns, CloseStale, cache
<1>7. ASSUME CloseInBackground \/ UNCHANGED vars \/ \E e \in Entries : IdleTimeoutPasses(e)
      PROVE  UNCHANGED lru
  BY <1>7 DEF CloseInBackground, IdleTimeoutPasses, vars, cache
<1>8. PICK c \in Callers : Acquire(c)
  <2>1. Next
    BY <1>5, <1>7
  <2> HIDE DEF EvictInv
  <2>2. ~CloseInBackground /\ ~\E e \in Entries : IdleTimeoutPasses(e)
    BY <1>5, <1>7
  <2>3. \A c \in Callers : /\ ~AcquireRefused(c) /\ ~AcquireReturns(c) /\ ~Release(c)
                            /\ ~ReleaseReturns(c) /\ ~CloseStale(c) /\ ~Forget(c)
    BY <1>3, <1>5, <1>6
  <2> QED BY <1>4, <2>1, <2>2, <2>3 DEF Next
<1>9. PICK a \in Address : AcquireHit(c, a) \/ AcquireMiss(c, a) \/ AcquireCannotOpen(c, a)
  BY <1>8 DEF Acquire
<1>10. ~AcquireCannotOpen(c, a)
  <2> SUFFICES ASSUME AcquireCannotOpen(c, a) PROVE FALSE
    OBVIOUS
  <2>1. lru' = Removed(lru, Idle)
    BY DEF AcquireCannotOpen, Drop
  <2> QED BY <1>1, <1>2, <2>1, ListedRemoved
<1>11. pc[c] = "idle" /\ ~closed /\ pc' = [pc EXCEPT ![c] = "acquired"]
  BY <1>8 DEF Acquire, Serving
<1>12. PICK e \in Entries, at \in Places : Handed(c, a, e, at) /\ held' = [held EXCEPT ![c] = e] /\ addr' = at
  BY <1>9, <1>10, <1>11, AcquireHands
<1>13. x \in Shed(c, a, e, at)
  <2> DEFINE list == ToFront(Removed(lru, Idle), e)
             S    == Shed(c, a, e, at)
  <2>1. lru' = Removed(list, S)
    BY <1>12 DEF Handed, HandOut, Shed
  <2>2. Listed(list) = (Listed(lru) \ Idle) \cup {e}
    BY ListedToFront, ListedRemoved
  <2> HIDE DEF list, S
  <2>3. Listed(lru') = Listed(list) \ S
    BY <2>1, ListedRemoved
  <2> QED BY <1>1, <1>2, <2>2, <2>3 DEF S
<1> QED BY <1>11, <1>12, <1>13

\* Eviction is for a new entry of a full cluster only (pool.go:133-136, 203-207).
THEOREM EvictionIsForRoom == Spec => EvictsForRoomOnly
<1>1. ASSUME EvictInv, [Next]_vars, NEW e \in Evicted
      PROVE  \E c \in Callers :
               /\ Acquires(c)
               /\ held'[c] \notin Listed(lru)
               /\ addr'[held'[c]].cluster = addr[e].cluster
               /\ Count(byAddr, addr[e].cluster) = AtLeastOne(MaxDatabases[addr[e].cluster])
  <2>1. PICK c \in Callers, a \in Address, x \in Entries, at \in Places :
              /\ Handed(c, a, x, at) /\ pc' = [pc EXCEPT ![c] = "acquired"]
              /\ held' = [held EXCEPT ![c] = x] /\ addr' = at
              /\ e \in Shed(c, a, x, at)
    BY <1>1, EvictedIsShed
  <2>2. /\ addr[e].cluster = a.cluster /\ x \notin Listed(lru) /\ at[x] = a
        /\ Count(byAddr, a.cluster) = AtLeastOne(MaxDatabases[a.cluster])
    BY <1>1, <2>1, ShedsOne DEF EvictInv
  <2>3. held'[c] = x /\ pc[c] = "idle" /\ pc'[c] = "acquired" /\ x # None
    BY <1>1, <2>1, PoolCacheAssumption DEF EvictInv, PoolInv, TypeOK, Handed
  <2> QED BY <2>1, <2>2, <2>3 DEF Acquires
<1>2. EvictInv /\ [Next]_vars =>
        [\A e \in Evicted : \E c \in Callers :
           /\ Acquires(c)
           /\ held'[c] \notin Listed(lru)
           /\ addr'[held'[c]].cluster = addr[e].cluster
           /\ Count(byAddr, addr[e].cluster) = AtLeastOne(MaxDatabases[addr[e].cluster])]_vars
  BY <1>1
<1> QED BY <1>2, SpecEvictInv, PTL DEF Spec, EvictsForRoomOnly

\* An eviction takes an idle pool before a busy one and the longest unused among equals,
\* and never the pool it makes room for (pool.go:108-111, 203-207).
THEOREM EvictionIsOfTheLeastUseful == Spec => EvictsTheLeastUseful
<1>1. ASSUME EvictInv, [Next]_vars, NEW e \in Evicted, NEW f \in Listed(lru) \cap Listed(lru'),
             addr[f].cluster = addr[e].cluster
      PROVE  \/ refs[e] = 0 /\ refs[f] > 0
             \/ <<e, f>> \in lru /\ ~(refs[f] = 0 /\ refs[e] > 0)
  <2>1. PICK c \in Callers, a \in Address, x \in Entries, at \in Places :
              /\ Handed(c, a, x, at) /\ e \in Shed(c, a, x, at)
    BY <1>1, EvictedIsShed
  <2>2. /\ addr[e].cluster = a.cluster
        /\ \A y \in Listed(lru) \ (Idle \cup {e}) : addr[y].cluster = a.cluster =>
              \/ refs[e] = 0 /\ refs[y] > 0
              \/ <<e, y>> \in lru /\ ~(refs[y] = 0 /\ refs[e] > 0)
        /\ x \notin Listed(lru)
    BY <1>1, <2>1, ShedsOne DEF EvictInv
  <2>3. f # e
    BY <1>1 DEF Evicted, Dropped
  <2>4. f \notin Idle
    <3> DEFINE list == ToFront(Removed(lru, Idle), x)
    <3>1. lru' = Removed(list, Shed(c, a, x, at))
      BY <2>1 DEF Handed, HandOut, Shed
    <3>2. Listed(list) = (Listed(lru) \ Idle) \cup {x}
      BY ListedToFront, ListedRemoved
    <3> HIDE DEF list
    <3>3. f \in Listed(list)
      BY <1>1, <3>1, ListedRemoved
    <3> QED BY <1>1, <2>2, <3>2, <3>3
  <2> QED BY <1>1, <2>2, <2>3, <2>4
<1>2. ASSUME EvictInv, [Next]_vars, NEW c \in Callers, Acquires(c)
      PROVE  held'[c] \in Listed(lru') /\ byAddr'[addr'[held'[c]]] = held'[c]
  <2>1. Acquire(c)
    BY <1>2, OnlyAcquireAcquires DEF EvictInv
  <2>2. PICK a \in Address : AcquireHit(c, a) \/ AcquireMiss(c, a) \/ AcquireCannotOpen(c, a)
    BY <2>1 DEF Acquire
  <2>3. held[c] = None /\ pc[c] = "idle" /\ ~closed
    BY <1>2, <2>1 DEF Acquire, Serving, EvictInv, PoolInv, PhasesAgree
  <2>4. ~AcquireCannotOpen(c, a)
    BY <1>2, <2>3 DEF AcquireCannotOpen, Acquires
  <2>5. PICK x \in Entries, at \in Places : Handed(c, a, x, at) /\ held' = [held EXCEPT ![c] = x] /\ addr' = at
    BY <1>2, <2>2, <2>3, <2>4, AcquireHands DEF EvictInv
  <2>6. held'[c] = x
    BY <1>2, <2>5 DEF EvictInv, PoolInv, TypeOK
  <2>7. x \notin Shed(c, a, x, at)
    BY <1>2, <2>5, ShedsOne DEF EvictInv
  <2>8. x \in Listed(lru')
    <3> DEFINE list == ToFront(Removed(lru, Idle), x)
               S    == Shed(c, a, x, at)
    <3>1. lru' = Removed(list, S)
      BY <2>5 DEF Handed, HandOut, Shed
    <3>2. x \in Listed(list)
      BY ListedToFront
    <3> HIDE DEF list, S
    <3>3. Listed(lru') = Listed(list) \ S
      BY <3>1, ListedRemoved
    <3> QED BY <2>7, <3>2, <3>3 DEF S
  <2>9. byAddr'[addr'[x]] = x
    BY <1>2, <2>8, NextInv DEF EvictInv, PoolInv, CacheAgrees, Listed
  <2> QED BY <2>6, <2>8, <2>9
<1>3. EvictInv /\ [Next]_vars =>
        [/\ \A e \in Evicted : \A f \in Listed(lru) \cap Listed(lru') :
              addr[f].cluster = addr[e].cluster =>
                \/ refs[e] = 0 /\ refs[f] > 0
                \/ <<e, f>> \in lru /\ ~(refs[f] = 0 /\ refs[e] > 0)
         /\ \A c \in Callers : Acquires(c) =>
              held'[c] \in Listed(lru') /\ byAddr'[addr'[held'[c]]] = held'[c]]_vars
  BY <1>1, <1>2
<1> QED BY <1>3, SpecEvictInv, PTL DEF Spec, EvictsTheLeastUseful

------------------------------------------------------------------------------
(* PoolCache implements the safety of PoolPromise *)

Fresh   == {e \in Entries : driver[e] = "none"}
Serves  == {e \in Entries : driver[e] = "open" /\ e \notin dead}
Retired == {e \in Entries : driver[e] = "open" /\ e \in dead}
Users   == [e \in Entries |-> Holders(e)]

\* An entry serves as long as it is cached.
LEMMA ServesIsListed == PoolInv => Serves = Listed(lru) /\ Idle \subseteq Serves
  BY IdleFacts DEF PoolInv, Serves, Lifecycle, CacheAgrees, Listed

\* Dropping a set of cached entries retires them.
LEMMA DropRetires ==
    ASSUME PoolInv, NEW S \in SUBSET Listed(lru), dead' = dead \cup S, UNCHANGED <<driver, held, closed>>
    PROVE  [Promise!Next]_(Promise!vars)
<1>1. Fresh' = Fresh /\ Users' = Users
  BY DEF Fresh, Users, Holders
<1>2. S \subseteq Serves /\ Serves' = Serves \ S /\ Retired' = Retired \cup S
  BY ServesIsListed DEF Serves, Retired
<1>3. CASE S = {}
  BY <1>1, <1>2, <1>3 DEF Promise!vars, Fresh, Serves, Retired, Users
<1>4. CASE S # {}
  <2>1. S \in (SUBSET Serves) \ {{}}
    BY <1>2, <1>4
  <2>2. Promise!Retire
    BY <1>1, <1>2, <2>1 DEF Promise!Retire, Fresh, Serves, Retired, Users
  <2> QED BY <2>2 DEF Promise!Next
<1> QED BY <1>3, <1>4

\* An acquire takes the entry it hands out and retires what it sweeps and sheds.
LEMMA HandOutTakes ==
    ASSUME EvictInv, NEW c \in Callers, NEW a \in Address, NEW e \in Entries, NEW at, Handed(c, a, e, at),
           driver' = [driver EXCEPT ![e] = "open"], UNCHANGED closed
    PROVE  Promise!Take(c, e)
<1> DEFINE R == Idle \cup Shed(c, a, e, at)
<1>1. /\ ~closed /\ held[c] = None /\ None \notin Entries
      /\ held' = [held EXCEPT ![c] = e] /\ dead' = dead \cup R
  BY PoolCacheAssumption DEF Handed, HandOut, Shed, EvictInv, PoolInv, PhasesAgree
<1>2. e \notin Idle /\ e \in Fresh \cup Serves
  <2>1. CASE e = Deleted(byAddr, Idle, addr)[a]
    BY <1>1, <2>1, Swept, ServesIsListed DEF EvictInv
  <2>2. CASE driver[e] = "none"
    BY <2>2, IdleFacts DEF Fresh, EvictInv
  <2> QED BY <2>1, <2>2 DEF Handed
<1>3. R \in SUBSET (Serves \ {e})
  <2>1. e \notin Shed(c, a, e, at) /\ Shed(c, a, e, at) \subseteq Listed(lru)
    BY ShedsOne DEF EvictInv
  <2> QED BY <1>2, <2>1, ServesIsListed DEF EvictInv
<1> HIDE DEF R
<1>4. Serves' = (Serves \cup {e}) \ R /\ Retired' = Retired \cup R /\ Fresh' = Fresh \ {e}
  <2>1. e \notin dead /\ R \subseteq Serves \ {e}
    BY <1>2, <1>3 DEF Fresh, Serves, EvictInv, PoolInv, Lifecycle
  <2> QED BY <1>1, <2>1 DEF Serves, Retired, Fresh, EvictInv, PoolInv, TypeOK
<1>5. \A q \in Entries : c \notin Users[q]
  BY <1>1 DEF Users, Holders
<1>6. Users' = [Users EXCEPT ![e] = Users[e] \cup {c}]
  <2>1. \A q \in Entries : Holders(q)' = IF q = e THEN Holders(q) \cup {c} ELSE Holders(q)
    BY <1>1 DEF Holders, EvictInv, PoolInv, TypeOK
  <2> QED BY <2>1 DEF Users
<1> QED BY <1>1, <1>2, <1>3, <1>4, <1>5, <1>6 DEF Promise!Take, Fresh, Serves, Retired, Users

\* A pool is closed once it is retired and nobody holds it.
LEMMA ClosingCloses ==
    ASSUME PoolInv, NEW e \in Entries, e \in closers \cup UNION {stale[c] : c \in Callers},
           driver' = [driver EXCEPT ![e] = "closed"], UNCHANGED <<dead, held, closed>>
    PROVE  Promise!ClosePool(e)
<1>1. driver[e] = "open" /\ e \in dead /\ Holders(e) = {}
  BY NoRefsNoHolders DEF PoolInv, ClosedOnce
<1>2. Users' = Users /\ e \in Retired /\ Users[e] = {}
  BY <1>1 DEF Users, Holders, Retired
<1>3. Retired' = Retired \ {e} /\ Serves' = Serves /\ Fresh' = Fresh
  BY <1>1 DEF Retired, Serves, Fresh, PoolInv, TypeOK
<1> QED BY <1>2, <1>3 DEF Promise!ClosePool, Fresh, Serves, Retired, Users

\* The step of a release is a Give.
LEMMA ReleaseGives ==
    ASSUME PoolInv, NEW c \in Callers, Release(c)
    PROVE  \E e \in Entries : Promise!Give(c, e)
<1> DEFINE e == held[c]
<1>1. e \in Entries /\ e # None /\ None \notin Entries
  BY PoolCacheAssumption DEF Release, PoolInv, PhasesAgree, TypeOK
<1>2. held' = [held EXCEPT ![c] = None] /\ UNCHANGED <<driver, dead, closed>>
  BY DEF Release
<1>3. c \in Users[e] /\ Users' = [Users EXCEPT ![e] = Users[e] \ {c}]
  <2>1. c \in Holders(e) /\ \A q \in Entries : Holders(q)' = IF q = e THEN Holders(q) \ {c} ELSE Holders(q)
    BY <1>1, <1>2 DEF Holders, PoolInv, TypeOK
  <2> HIDE DEF e
  <2> QED BY <1>1, <2>1 DEF Users
<1>4. Fresh' = Fresh /\ Serves' = Serves /\ Retired' = Retired
  BY <1>2 DEF Fresh, Serves, Retired
<1>5. Promise!Give(c, e)
  BY <1>2, <1>3, <1>4 DEF Promise!Give, Fresh, Serves, Retired, Users
<1> QED BY <1>1, <1>5

LEMMA CloseShutsDown ==
    ASSUME PoolInv, Close
    PROVE  Promise!Shutdown
<1>1. closed' = TRUE /\ dead' = dead \cup Listed(lru) /\ UNCHANGED <<driver, held>>
  BY DEF Close, Drop
<1>2. Serves' = {} /\ Retired' = Retired \cup Serves /\ Fresh' = Fresh /\ Users' = Users
  BY <1>1, ServesIsListed DEF Serves, Retired, Fresh, Users, Holders
<1> QED BY <1>1, <1>2 DEF Promise!Shutdown, Fresh, Serves, Retired, Users

LEMMA PromiseStep == EvictInv /\ [Next]_vars => [Promise!Next]_(Promise!vars)
<1> SUFFICES ASSUME EvictInv, [Next]_vars PROVE [Promise!Next]_(Promise!vars)
  OBVIOUS
<1>0. PoolInv
  BY DEF EvictInv
<1>1. ASSUME NEW c \in Callers, Acquire(c) PROVE [Promise!Next]_(Promise!vars)
  <2>1. PICK a \in Address : AcquireHit(c, a) \/ AcquireMiss(c, a) \/ AcquireCannotOpen(c, a)
    BY <1>1 DEF Acquire
  <2>2. pc[c] = "idle" /\ ~closed /\ closed' = closed
    BY <1>1 DEF Acquire, Serving
  <2>3. CASE AcquireHit(c, a)
    <3>1. PICK e \in Entries : /\ e = Deleted(byAddr, Idle, addr)[a] /\ e \in Listed(lru)
                              /\ HandOut(c, a, e, addr) /\ driver' = driver
      BY <1>0, <2>3, Swept DEF AcquireHit, Listed
    <3>2. driver' = [driver EXCEPT ![e] = "open"]
      BY <1>0, <3>1 DEF PoolInv, TypeOK, Lifecycle
    <3>3. Handed(c, a, e, addr)
      BY <2>2, <3>1 DEF Handed
    <3>4. Promise!Take(c, e)
      BY <2>2, <3>1, <3>2, <3>3, HandOutTakes
    <3> QED BY <3>4 DEF Promise!Next
  <2>4. CASE AcquireMiss(c, a)
    <3>1. PICK e \in Entries : /\ driver[e] = "none" /\ driver' = [driver EXCEPT ![e] = "open"]
                              /\ HandOut(c, a, e, [addr EXCEPT ![e] = a])
      BY <2>4 DEF AcquireMiss
    <3>2. Handed(c, a, e, [addr EXCEPT ![e] = a])
      BY <2>2, <2>4, <3>1 DEF Handed, AcquireMiss
    <3>3. Promise!Take(c, e)
      BY <2>2, <3>1, <3>2, HandOutTakes
    <3> QED BY <3>3 DEF Promise!Next
  <2>5. CASE AcquireCannotOpen(c, a)
    <3>1. Idle \in SUBSET Listed(lru) /\ dead' = dead \cup Idle /\ UNCHANGED <<driver, held, closed>>
      BY <1>0, <2>2, <2>5, IdleFacts DEF AcquireCannotOpen, Drop
    <3> QED BY <1>0, <3>1, DropRetires
  <2> QED BY <2>1, <2>3, <2>4, <2>5
<1>2. ASSUME NEW c \in Callers, Forget(c) PROVE [Promise!Next]_(Promise!vars)
  <2> DEFINE S == StillCached(held[c])
  <2>1. dead' = dead \cup S /\ UNCHANGED <<driver, held, closed>>
    BY <1>2 DEF Forget, Drop
  <2>2. S \in SUBSET Listed(lru)
    <3>1. held[c] \in Entries /\ held[c] # None /\ addr[held[c]] \in Address
      BY <1>0, <1>2 DEF Forget, PoolInv, PhasesAgree, TypeOK, HeldIsOpen, Lifecycle
    <3> QED BY <1>0, <3>1 DEF StillCached, PoolInv, CacheAgrees
  <2> HIDE DEF S
  <2> QED BY <1>0, <2>1, <2>2, DropRetires
<1>3. ASSUME NEW c \in Callers, CloseStale(c) PROVE [Promise!Next]_(Promise!vars)
  <2>1. PICK e \in stale[c] : driver' = [driver EXCEPT ![e] = "closed"]
    BY <1>3 DEF CloseStale
  <2>2. e \in Entries /\ UNCHANGED <<dead, held, closed>>
    BY <1>0, <1>3 DEF CloseStale, PoolInv, TypeOK, cache
  <2>3. Promise!ClosePool(e)
    BY <1>0, <2>1, <2>2, ClosingCloses
  <2> QED BY <2>2, <2>3 DEF Promise!Next
<1>4. CASE CloseInBackground
  <2>1. PICK e \in closers : driver' = [driver EXCEPT ![e] = "closed"]
    BY <1>4 DEF CloseInBackground
  <2>2. e \in Entries /\ UNCHANGED <<dead, held, closed>>
    BY <1>0, <1>4 DEF CloseInBackground, PoolInv, TypeOK, cache
  <2>3. Promise!ClosePool(e)
    BY <1>0, <2>1, <2>2, ClosingCloses
  <2> QED BY <2>2, <2>3 DEF Promise!Next
<1>5. ASSUME NEW c \in Callers, Release(c) PROVE [Promise!Next]_(Promise!vars)
  BY <1>0, <1>5, ReleaseGives DEF Promise!Next
<1>6. CASE Close
  BY <1>0, <1>6, CloseShutsDown DEF Promise!Next
<1>7. ASSUME UNCHANGED <<driver, dead, held, closed>> PROVE [Promise!Next]_(Promise!vars)
  BY <1>7 DEF Promise!vars, Holders
<1>8. ASSUME NEW c \in Callers, AcquireRefused(c) \/ AcquireReturns(c) \/ ReleaseReturns(c)
      PROVE  UNCHANGED <<driver, dead, held, closed>>
  BY <1>8 DEF AcquireRefused, AcquireReturns, ReleaseReturns, cache
<1>9. ASSUME UNCHANGED vars \/ \E e \in Entries : IdleTimeoutPasses(e)
      PROVE  UNCHANGED <<driver, dead, held, closed>>
  BY <1>9 DEF IdleTimeoutPasses, vars, cache
<1> QED BY <1>1, <1>2, <1>3, <1>4, <1>5, <1>6, <1>7, <1>8, <1>9 DEF Next

\* PoolCache keeps what PoolPromise says about every step: a pool handed out stays usable
\* until its last user gives it back, a retired one is given to nobody else, and after the
\* shutdown nothing is handed out (ADR-0003).
THEOREM CacheKeepsItsPromise == Spec => Promise!Safety
<1>1. Init => Promise!Init
  BY PoolCacheAssumption DEF Init, Promise!Init, Holders
<1> QED BY <1>1, PromiseStep, SpecEvictInv, PTL DEF Spec, Promise!Safety
=============================================================================
