------------------------------ MODULE SmlCache ------------------------------
(***************************************************************************)
(* sml/common/src/sml_cache.c, the cache both engines keep their knowledge *)
(* in: trained networks (sml_ann.c) and observation groups                 *)
(* (sml_observation_controller.c).  A vector of pointers, oldest use       *)
(* first, a limit, and a callback that frees what the cache throws out.    *)
(*                                                                         *)
(* An element is an abstract pointer.  The client owns it until a          *)
(* successful sml_cache_put; from then on the cache does, until the free   *)
(* callback is called with it.  owner is a history variable that records   *)
(* this, lastUse and clock record when an element was last put or hit.     *)
(***************************************************************************)
EXTENDS Naturals, Sequences, SequencesExt

CONSTANTS Elements,      \* pointers a client may put into the cache
          DefaultSize,   \* DEFAULT_CACHE_SIZE, the limit given at creation
          SizeArgs,      \* limits a client asks for (unsigned int)
          MaxClock       \* bound on the number of uses explored

ASSUME CacheAssumption == /\ DefaultSize \in Nat
                          /\ SizeArgs \subseteq Nat
                          /\ MaxClock \in Nat

VARIABLES elements,      \* sol_ptr_vector elements
          maxElements,   \* uint16_t max_elements
          owner,         \* history: who has to free each pointer
          lastUse,       \* history: when each pointer was last put or hit
          clock          \* history: number of uses so far

cacheVars == <<elements, maxElements, owner, lastUse, clock>>

Owners == {"client", "cache", "leaked"}
U16 == 65536

\* sml_ann_set_cache_max_size takes an unsigned int and hands it to a uint16_t.
AsU16(n) == n % U16

\* Ownership after the free callback ran on the elements of gone.
FreedAll(gone) == [e \in Elements |-> IF e \in gone THEN "client" ELSE owner[e]]

\* Mutant: the oldest one stays with the cache.
AllButFirst(n) == {elements[i] : i \in 2..n}

DropFirst(n) == SubSeq(elements, n + 1, Len(elements))
FirstOnes(n) == {elements[i] : i \in 1..n}

CacheInit == /\ elements = <<>>
             /\ maxElements = DefaultSize
             /\ owner = [e \in Elements |-> "client"]
             /\ lastUse = [e \in Elements |-> 0]
             /\ clock = 1

UseNow(e) == /\ clock < MaxClock
             /\ clock' = clock + 1
             /\ lastUse' = [lastUse EXCEPT ![e] = clock]

\* Mutant: room is made when it is too late.
StolenLate == IF maxElements # 0 /\ Len(elements) > maxElements THEN 1 ELSE 0

\* How many elements sml_cache_put steals from the front: the count is
\* compared with the limit for equality.
Stolen == IF maxElements # 0 /\ Len(elements) = maxElements THEN 1 ELSE 0

\* sml_cache_put.  The oldest element is freed before the append, which
\* fails when the vector cannot grow: the client then keeps its pointer.
CachePut(e) ==
    /\ owner[e] = "client"
    /\ elements' = Append(DropFirst(Stolen), e)
    /\ owner' = [FreedAll(FirstOnes(Stolen)) EXCEPT ![e] = "cache"]
    /\ UseNow(e)
    /\ UNCHANGED maxElements

CachePutFails(e) ==
    /\ owner[e] = "client"
    /\ elements' = DropFirst(Stolen)
    /\ owner' = FreedAll(FirstOnes(Stolen))
    /\ UNCHANGED <<maxElements, lastUse, clock>>

\* sml_cache_hit: the element moves to the end of the vector.  If the append
\* fails the element has left the vector and nobody frees it.
CacheHit(i) ==
    /\ elements' = Append(RemoveAt(elements, i), elements[i])
    /\ UseNow(elements[i])
    /\ UNCHANGED <<maxElements, owner>>

CacheHitFails(i) ==
    /\ elements' = RemoveAt(elements, i)
    /\ owner' = [owner EXCEPT ![elements[i]] = "leaked"]
    /\ UNCHANGED <<maxElements, lastUse, clock>>

\* sml_cache_remove finds the index first, sml_cache_remove_by_id is given it.
CacheRemove(i) ==
    /\ elements' = RemoveAt(elements, i)
    /\ owner' = FreedAll({elements[i]})
    /\ UNCHANGED <<maxElements, lastUse, clock>>

CacheClear ==
    /\ elements' = <<>>
    /\ owner' = FreedAll(FirstOnes(Len(elements)))
    /\ UNCHANGED <<maxElements, lastUse, clock>>

\* Mutant: one element too many goes.
SurplusAndOne(n) == IF Len(elements) > n THEN Len(elements) - n + 1 ELSE 0

\* sml_cache_set_max_size(n), n already narrowed to uint16_t: 0 and the
\* current limit change nothing, otherwise the oldest elements go until the
\* rest fits.
Surplus(n) == IF Len(elements) > n THEN Len(elements) - n ELSE 0

SetMaxElements(n) ==
    \/ /\ n = 0 \/ n = maxElements
       /\ UNCHANGED <<elements, maxElements, owner>>
    \/ /\ n # 0 /\ n # maxElements
       /\ maxElements' = n
       /\ elements' = DropFirst(Surplus(n))
       /\ owner' = FreedAll(FirstOnes(Surplus(n)))

\* sml_ann_set_cache_max_size
SetCacheMaxSize(n) ==
    /\ SetMaxElements(AsU16(n))
    /\ UNCHANGED <<lastUse, clock>>

CacheNext == \/ \E e \in Elements : CachePut(e) \/ CachePutFails(e)
             \/ \E i \in DOMAIN elements : CacheHit(i) \/ CacheHitFails(i) \/ CacheRemove(i)
             \/ CacheClear
             \/ \E n \in SizeArgs : SetCacheMaxSize(n)

CacheSpec == CacheInit /\ [][CacheNext]_cacheVars
-----------------------------------------------------------------------------
\* Every variable has its type.
CacheTypeOK == /\ elements \in Seq(Elements)
               /\ maxElements \in Nat
               /\ owner \in [Elements -> Owners]
               /\ lastUse \in [Elements -> Nat]
               /\ clock \in Nat \ {0}

\* The limit holds after every operation, although sml_cache_put only makes
\* room when the count EQUALS the limit: lowering the limit below the count
\* must trim at once, or the cache would grow without bound from then on.
WithinLimit == maxElements # 0 => Len(elements) <= maxElements

\* The cache frees a pointer exactly when it lets go of it: what it owns is
\* what the vector holds (nothing freed is still reachable through
\* sml_cache_get_element, and nothing owned is unreachable).
OwnsWhatItHolds == \A e \in Elements : owner[e] = "cache" <=> Contains(elements, e)

\* The vector is in order of last use and holds no pointer twice; that is why
\* stealing index 0 evicts the least recently used element.
OrderedByUse == \A i, j \in DOMAIN elements :
                    i < j => lastUse[elements[i]] < lastUse[elements[j]]

\* Each use is stamped with a clock value of the past.
StampsPast == \A e \in Elements : lastUse[e] < clock

\* The vector implements the abstract LRU cache.
Lru == INSTANCE LruCache WITH
           Capacities <- {AsU16(n) : n \in SizeArgs} \cup {DefaultSize},
           entries <- ToSet(elements),
           capacity <- maxElements,
           now <- clock

ImplementsLru == Lru!LruSpec
=============================================================================
