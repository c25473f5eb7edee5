---------------------------- MODULE CommonProofs ----------------------------
(***************************************************************************)
(* What holds of src/sml/common, which both engines are built on, and of   *)
(* the flow nodes, which call it.  Of the cache: for every set of pointers,*)
(* every limit and any number of operations.  Of the front over the naive  *)
(* engine and its debug log: for every set of names, all values and FLL    *)
(* files and any number of calls.  Of a node, asynchronous or synchronous: *)
(* for any number of packets and requests, whether or not threads can be   *)
(* created and packets sent, and whenever it is closed.                    *)
(***************************************************************************)
EXTENDS SmlCache, SmlFront, MLNode, MLSyncNode, SeqLemmas, SequenceTheorems,
        FiniteSetTheorems, TLAPS

(***************************************************************************)
(* Facts about the vector operations.                                      *)
(***************************************************************************)

\* What RemoveAt of the community modules leaves.
LEMMA RemoveAtProperties ==
    ASSUME NEW S, NEW s \in Seq(S), NEW i \in 1..Len(s)
    PROVE  /\ RemoveAt(s, i) \in Seq(S)
           /\ Len(RemoveAt(s, i)) = Len(s) - 1
           /\ \A j \in 1..i - 1 : RemoveAt(s, i)[j] = s[j]
           /\ \A j \in i..Len(s) - 1 : RemoveAt(s, i)[j] = s[j + 1]
<1>1. RemoveAt(s, i) = Cut(s, i)
  BY DEF RemoveAt, Cut
<1> QED BY <1>1, CutProperties

LEMMA ToSetAppend ==
    ASSUME NEW S, NEW s \in Seq(S), NEW e \in S
    PROVE  ToSet(Append(s, e)) = ToSet(s) \cup {e}
<1>1. ToSet(s) = Held(s) /\ ToSet(Append(s, e)) = Held(Append(s, e))
  BY DEF ToSet, Held
<1> QED BY <1>1, HeldAppend

\* Stealing the first n elements leaves the others, in order.
LEMMA DropFirstProperties ==
    ASSUME elements \in Seq(Elements), NEW n \in 0..Len(elements)
    PROVE  /\ DropFirst(n) \in Seq(Elements)
           /\ Len(DropFirst(n)) = Len(elements) - n
           /\ \A j \in 1..Len(elements) - n : DropFirst(n)[j] = elements[n + j]
           /\ FirstOnes(n) \subseteq Elements
  BY DEF DropFirst, FirstOnes

\* The number of elements put and set_max_size steal is within the vector.
LEMMA StolenInVector ==
    ASSUME CacheTypeOK
    PROVE  /\ Stolen \in 0..Len(elements)
           /\ \A n \in Nat : Surplus(n) \in 0..Len(elements)
  BY DEF CacheTypeOK, Stolen, Surplus

\* A 32-bit size narrows to a natural number.
LEMMA NarrowedIsNat == ASSUME NEW n \in Nat PROVE AsU16(n) \in Nat
  BY DEF AsU16, U16

\* The cache's variables keep their types.
THEOREM CacheTypeCorrect == CacheSpec => []CacheTypeOK
<1>1. CacheInit => CacheTypeOK
  BY CacheAssumption DEF CacheInit, CacheTypeOK, Owners
<1>2. CacheTypeOK /\ [CacheNext]_cacheVars => CacheTypeOK'
  <2> SUFFICES ASSUME CacheTypeOK, [CacheNext]_cacheVars PROVE CacheTypeOK'
    OBVIOUS
  <2> USE DEF CacheTypeOK, Owners
  <2>1. ASSUME NEW gone PROVE FreedAll(gone) \in [Elements -> Owners]
    BY DEF FreedAll
  <2>2. ASSUME NEW e \in Elements, CachePut(e) PROVE CacheTypeOK'
    <3>1. DropFirst(Stolen) \in Seq(Elements)
      BY StolenInVector, DropFirstProperties
    <3> QED BY <2>1, <2>2, <3>1 DEF CachePut, UseNow
  <2>3. ASSUME NEW e \in Elements, CachePutFails(e) PROVE CacheTypeOK'
    BY <2>1, <2>3, StolenInVector, DropFirstProperties DEF CachePutFails
  <2>4. ASSUME NEW i \in DOMAIN elements, CacheHit(i) PROVE CacheTypeOK'
    <3> DEFINE e == elements[i]
    <3>1. e \in Elements /\ RemoveAt(elements, i) \in Seq(Elements)
      BY RemoveAtProperties
    <3>2. /\ elements' = Append(RemoveAt(elements, i), e)
          /\ UseNow(e) /\ UNCHANGED <<maxElements, owner>>
      BY <2>4 DEF CacheHit
    <3> HIDE DEF e
    <3>3. elements' \in Seq(Elements)
      BY <3>1, <3>2
    <3>4. lastUse' \in [Elements -> Nat] /\ clock' \in Nat \ {0}
      BY <3>1, <3>2 DEF UseNow
    <3>5. maxElements' = maxElements /\ owner' = owner
      BY <3>2
    <3> QED BY <3>3, <3>4, <3>5
  <2>5. ASSUME NEW i \in DOMAIN elements, CacheHitFails(i) PROVE CacheTypeOK'
    BY <2>5, RemoveAtProperties DEF CacheHitFails
  <2>6. ASSUME NEW i \in DOMAIN elements, CacheRemove(i) PROVE CacheTypeOK'
    BY <2>1, <2>6, RemoveAtProperties DEF CacheRemove
  <2>7. ASSUME CacheClear PROVE CacheTypeOK'
    BY <2>1, <2>7 DEF CacheClear
  <2>8. ASSUME NEW n \in SizeArgs, SetCacheMaxSize(n) PROVE CacheTypeOK'
    <3>1. n \in Nat /\ AsU16(n) \in Nat
      BY CacheAssumption, NarrowedIsNat
    <3>2. DropFirst(Surplus(AsU16(n))) \in Seq(Elements)
      BY <3>1, StolenInVector, DropFirstProperties
    <3> QED BY <2>1, <2>8, <3>1, <3>2 DEF SetCacheMaxSize, SetMaxElements
  <2>9. CASE UNCHANGED cacheVars
    BY <2>9 DEF cacheVars
  <2> QED BY <2>2, <2>3, <2>4, <2>5, <2>6, <2>7, <2>8, <2>9 DEF CacheNext
<1> QED BY <1>1, <1>2, PTL DEF CacheSpec

\* The vector never outgrows the limit: sml_cache_put makes room for one
\* element only when it is exactly full, which suffices because lowering the
\* limit trims the vector before the next put.
THEOREM CacheWithinLimit == CacheSpec => []WithinLimit
<1>1. CacheInit => WithinLimit
  BY CacheAssumption DEF CacheInit, WithinLimit
<1>2. CacheTypeOK /\ WithinLimit /\ [CacheNext]_cacheVars => WithinLimit'
  <2> SUFFICES ASSUME CacheTypeOK, WithinLimit, [CacheNext]_cacheVars
               PROVE  WithinLimit'
    OBVIOUS
  <2> USE DEF WithinLimit
  <2>0. elements \in Seq(Elements) /\ maxElements \in Nat
    BY DEF CacheTypeOK
  <2>1. /\ DropFirst(Stolen) \in Seq(Elements)
        /\ Len(DropFirst(Stolen)) = Len(elements) - Stolen
    BY <2>0, StolenInVector, DropFirstProperties
  <2>2. ASSUME NEW e \in Elements, CachePut(e) PROVE WithinLimit'
    BY <2>0, <2>1, <2>2 DEF CachePut, Stolen
  <2>3. ASSUME NEW e \in Elements, CachePutFails(e) PROVE WithinLimit'
    BY <2>0, <2>1, <2>3 DEF CachePutFails, Stolen
  <2>4. ASSUME NEW i \in DOMAIN elements, CacheHit(i) PROVE WithinLimit'
    BY <2>0, <2>4, RemoveAtProperties DEF CacheHit
  <2>5. ASSUME NEW i \in DOMAIN elements, CacheHitFails(i) PROVE WithinLimit'
    BY <2>0, <2>5, RemoveAtProperties DEF CacheHitFails
  <2>6. ASSUME NEW i \in DOMAIN elements, CacheRemove(i) PROVE WithinLimit'
    BY <2>0, <2>6, RemoveAtProperties DEF CacheRemove
  <2>7. ASSUME CacheClear PROVE WithinLimit'
    BY <2>0, <2>7 DEF CacheClear
  <2>8. ASSUME NEW n \in SizeArgs, SetCacheMaxSize(n) PROVE WithinLimit'
    <3> DEFINE m == AsU16(n)
    <3>1. m \in Nat
      BY CacheAssumption, NarrowedIsNat
    <3>2. CASE m = 0 \/ m = maxElements
      BY <2>8, <3>1, <3>2 DEF SetCacheMaxSize, SetMaxElements
    <3>3. CASE m # 0 /\ m # maxElements
      <4>1. Len(DropFirst(Surplus(m))) = Len(elements) - Surplus(m)
        BY <2>0, <3>1, StolenInVector, DropFirstProperties
      <4>2. Len(elements) - Surplus(m) <= m
        BY <2>0, <3>1 DEF Surplus
      <4> QED BY <2>8, <3>3, <4>1, <4>2 DEF SetCacheMaxSize, SetMaxElements
    <3> QED BY <3>2, <3>3
  <2>9. CASE UNCHANGED cacheVars
    BY <2>9 DEF cacheVars
  <2> QED BY <2>2, <2>3, <2>4, <2>5, <2>6, <2>7, <2>8, <2>9 DEF CacheNext
<1> QED BY <1>1, <1>2, CacheTypeCorrect, PTL DEF CacheSpec

(***************************************************************************)
(* The order of the vector and the ownership of its elements hold          *)
(* together or not at all: that an element used now belongs at the end     *)
(* rests on every stamp being past, that a pointer put is new to the       *)
(* vector rests on its ownership, and that an element freed is not still   *)
(* held elsewhere in the vector rests on the order being strict.           *)
(***************************************************************************)
CacheInv == CacheTypeOK /\ StampsPast /\ OrderedByUse /\ OwnsWhatItHolds

\* r is what is left of the vector when some elements are taken out: f gives
\* the index each of the others had.
PickedBy(r, f) == /\ r \in Seq(Elements)
                  /\ f \in [1..Len(r) -> 1..Len(elements)]
                  /\ \A i, j \in 1..Len(r) : i < j => f[i] < f[j]
                  /\ \A i \in 1..Len(r) : r[i] = elements[f[i]]

OrderedVector(r) ==
    \A i, j \in 1..Len(r) : i < j => lastUse[r[i]] < lastUse[r[j]]

\* Taking elements out preserves the order of the rest.
LEMMA PickedOrdered ==
    ASSUME OrderedByUse, elements \in Seq(Elements), NEW r, NEW f, PickedBy(r, f)
    PROVE  OrderedVector(r)
<1>1. DOMAIN elements = 1..Len(elements)
  BY LenProperties
<1>2. \A i, j \in 1..Len(elements) : i < j => lastUse[elements[i]] < lastUse[elements[j]]
  BY <1>1 DEF OrderedByUse
<1>3. ASSUME NEW i \in 1..Len(r), NEW j \in 1..Len(r), i < j
      PROVE  lastUse[r[i]] < lastUse[r[j]]
  <2>1. /\ f[i] \in 1..Len(elements) /\ f[j] \in 1..Len(elements) /\ f[i] < f[j]
        /\ r[i] = elements[f[i]] /\ r[j] = elements[f[j]]
    BY <1>3 DEF PickedBy
  <2> QED BY <1>2, <2>1
<1> QED BY <1>3 DEF OrderedVector

\* Dropping elements from the front takes elements out.
LEMMA DropFirstPicked ==
    ASSUME elements \in Seq(Elements), NEW n \in 0..Len(elements)
    PROVE  PickedBy(DropFirst(n), [i \in 1..Len(elements) - n |-> n + i])
<1> DEFINE r == DropFirst(n)
<1>1. /\ r \in Seq(Elements)
      /\ Len(r) = Len(elements) - n
      /\ \A j \in 1..Len(elements) - n : r[j] = elements[n + j]
  BY DropFirstProperties
<1> HIDE DEF r
<1>2. PickedBy(r, [i \in 1..Len(elements) - n |-> n + i])
  BY <1>1 DEF PickedBy
<1> QED BY <1>2 DEF r

\* So does removing one.
LEMMA RemoveAtPicked ==
    ASSUME elements \in Seq(Elements), NEW k \in 1..Len(elements)
    PROVE  PickedBy(RemoveAt(elements, k),
                    [i \in 1..Len(elements) - 1 |-> IF i < k THEN i ELSE i + 1])
<1> DEFINE r == RemoveAt(elements, k)
           f == [i \in 1..Len(elements) - 1 |-> IF i < k THEN i ELSE i + 1]
<1>1. /\ r \in Seq(Elements)
      /\ Len(r) = Len(elements) - 1
      /\ \A j \in 1..k - 1 : r[j] = elements[j]
      /\ \A j \in k..Len(elements) - 1 : r[j] = elements[j + 1]
  BY RemoveAtProperties
<1> HIDE DEF r
<1>2. /\ f \in [1..Len(elements) - 1 -> 1..Len(elements)]
      /\ \A i, j \in 1..Len(elements) - 1 : i < j => f[i] < f[j]
  OBVIOUS
<1>3. ASSUME NEW i \in 1..Len(elements) - 1
      PROVE  r[i] = elements[f[i]]
  <2>1. CASE i < k
    <3>1. i \in 1..k - 1 /\ f[i] = i
      BY <2>1
    <3> QED BY <3>1, <1>1
  <2>2. CASE ~(i < k)
    <3>1. i \in k..Len(elements) - 1 /\ f[i] = i + 1
      BY <2>2
    <3> QED BY <3>1, <1>1
  <2> QED BY <2>1, <2>2
<1> HIDE DEF f
<1>4. PickedBy(r, f)
  BY <1>1, <1>2, <1>3 DEF PickedBy
<1> QED BY <1>4 DEF r, f

\* An index that is not the last one.
LEMMA IndexNotLast ==
    ASSUME NEW n \in Nat, NEW j \in 1..n + 1, j # n + 1
    PROVE  j \in 1..n
  OBVIOUS

\* Appending the element used now to a vector ordered by use, all of whose
\* stamps are past, gives a vector ordered by use.
LEMMA AppendOrdered ==
    ASSUME CacheTypeOK, StampsPast, NEW e \in Elements, UseNow(e),
           NEW r \in Seq(Elements), OrderedVector(r),
           \A i \in 1..Len(r) : r[i] # e,
           elements' = Append(r, e)
    PROVE  OrderedByUse'
<1> USE DEF CacheTypeOK
<1>0. Len(r) \in Nat
  OBVIOUS
<1> SUFFICES ASSUME NEW i \in 1..Len(r) + 1, NEW j \in 1..Len(r) + 1, i < j
             PROVE  lastUse'[Append(r, e)[i]] < lastUse'[Append(r, e)[j]]
  BY DEF OrderedByUse
<1>1. i \in 1..Len(r) /\ Append(r, e)[i] = r[i] /\ r[i] \in Elements /\ r[i] # e
  OBVIOUS
<1>2. lastUse'[r[i]] = lastUse[r[i]] /\ lastUse'[e] = clock
  BY <1>1 DEF UseNow
<1>3. CASE j = Len(r) + 1
  BY <1>1, <1>2, <1>3 DEF StampsPast
<1>4. CASE j # Len(r) + 1
  <2>0. j \in 1..Len(r)
    BY <1>0, <1>4, IndexNotLast
  <2>1. Append(r, e)[j] = r[j] /\ r[j] \in Elements /\ r[j] # e
    BY <2>0
  <2>2. lastUse'[r[j]] = lastUse[r[j]]
    BY <2>1 DEF UseNow
  <2> QED BY <1>1, <1>2, <2>0, <2>1, <2>2 DEF OrderedVector
<1> QED BY <1>3, <1>4

\* A vector ordered by use holds no pointer twice.
LEMMA OrderedInjective ==
    ASSUME CacheTypeOK, OrderedByUse,
           NEW i \in 1..Len(elements), NEW j \in 1..Len(elements), i # j
    PROVE  elements[i] # elements[j]
<1>1. elements[i] \in Elements /\ elements[j] \in Elements
  BY DEF CacheTypeOK
<1>2. lastUse[elements[i]] < lastUse[elements[j]] \/ lastUse[elements[j]] < lastUse[elements[i]]
  BY DEF CacheTypeOK, OrderedByUse
<1> QED BY <1>1, <1>2 DEF CacheTypeOK

\* Stealing the first n elements leaves exactly the others.
LEMMA DropFirstHolds ==
    ASSUME CacheTypeOK, OrderedByUse, NEW n \in 0..Len(elements), NEW x
    PROVE  Contains(DropFirst(n), x) <=> Contains(elements, x) /\ x \notin FirstOnes(n)
<1> DEFINE r == DropFirst(n)
<1>1. /\ Len(r) = Len(elements) - n
      /\ \A j \in 1..Len(elements) - n : r[j] = elements[n + j]
  BY DropFirstProperties DEF CacheTypeOK
<1>2. Len(elements) \in Nat
  BY DEF CacheTypeOK
<1> HIDE DEF r
<1>3. ASSUME NEW j \in 1..Len(r), r[j] = x
      PROVE  Contains(elements, x) /\ x \notin FirstOnes(n)
  <2>1. n + j \in 1..Len(elements) /\ elements[n + j] = x
    BY <1>1, <1>2, <1>3
  <2>2. ASSUME NEW i \in 1..n PROVE elements[i] # x
    <3>1. i \in 1..Len(elements) /\ i # n + j
      BY <1>1, <1>2
    <3> QED BY <2>1, <3>1, OrderedInjective
  <2> QED BY <2>1, <2>2 DEF Contains, FirstOnes
<1>4. ASSUME NEW i \in 1..Len(elements), elements[i] = x, x \notin FirstOnes(n)
      PROVE  Contains(r, x)
  <2>1. i \notin 1..n
    BY <1>4 DEF FirstOnes
  <2>2. i - n \in 1..Len(r) /\ r[i - n] = elements[n + (i - n)] /\ n + (i - n) = i
    BY <2>1, <1>1, <1>2
  <2> QED BY <2>2, <1>4 DEF Contains
<1>5. Contains(r, x) <=> Contains(elements, x) /\ x \notin FirstOnes(n)
  BY <1>3, <1>4 DEF Contains
<1> QED BY <1>5 DEF r

\* Removing the element at k leaves exactly the others.
LEMMA RemoveAtHolds ==
    ASSUME CacheTypeOK, OrderedByUse, NEW k \in 1..Len(elements), NEW x
    PROVE  Contains(RemoveAt(elements, k), x) <=> Contains(elements, x) /\ x # elements[k]
<1> DEFINE r == RemoveAt(elements, k)
<1>1. /\ Len(r) = Len(elements) - 1
      /\ \A j \in 1..k - 1 : r[j] = elements[j]
      /\ \A j \in k..Len(elements) - 1 : r[j] = elements[j + 1]
  BY RemoveAtProperties DEF CacheTypeOK
<1>2. Len(elements) \in Nat
  BY DEF CacheTypeOK
<1> HIDE DEF r
<1>3. ASSUME NEW j \in 1..Len(r), r[j] = x
      PROVE  Contains(elements, x) /\ x # elements[k]
  <2>1. PICK i \in 1..Len(elements) : i # k /\ elements[i] = r[j]
    <3>1. CASE j < k
      <4>1. j \in 1..k - 1 /\ j \in 1..Len(elements) /\ j # k
        BY <3>1, <1>2
      <4> QED BY <4>1, <1>1
    <3>2. CASE ~(j < k)
      <4>1. j \in k..Len(elements) - 1 /\ j + 1 \in 1..Len(elements) /\ j + 1 # k
        BY <3>2, <1>1, <1>2
      <4> QED BY <4>1, <1>1
    <3> QED BY <3>1, <3>2
  <2> QED BY <2>1, <1>3, OrderedInjective DEF Contains
<1>4. ASSUME NEW i \in 1..Len(elements), elements[i] = x, x # elements[k]
      PROVE  Contains(r, x)
  <2>1. CASE i < k
    <3>1. i \in 1..k - 1 /\ i \in 1..Len(r)
      BY <2>1, <1>1, <1>2
    <3> QED BY <3>1, <1>1, <1>4 DEF Contains
  <2>2. CASE i > k
    <3>1. i - 1 \in k..Len(elements) - 1 /\ i - 1 \in 1..Len(r) /\ (i - 1) + 1 = i
      BY <2>2, <1>1, <1>2
    <3>2. r[i - 1] = x
      BY <3>1, <1>1, <1>4
    <3> QED BY <3>1, <3>2 DEF Contains
  <2>3. i # k
    BY <1>4
  <2> QED BY <2>1, <2>2, <2>3
<1>5. Contains(r, x) <=> Contains(elements, x) /\ x # elements[k]
  BY <1>3, <1>4 DEF Contains
<1> QED BY <1>5 DEF r

\* What the cache owns is what it holds, oldest use first, without
\* duplicates: no operation sequence frees a pointer that can still be
\* reached, loses one, or misplaces the least recently used one.
THEOREM CacheInvariant == CacheSpec => []CacheInv
<1>1. CacheInit => CacheInv
  BY CacheAssumption
     DEF CacheInit, CacheInv, CacheTypeOK, StampsPast, OrderedByUse,
         OwnsWhatItHolds, Owners, Contains
<1>2. CacheTypeOK' /\ CacheInv /\ [CacheNext]_cacheVars => CacheInv'
  <2> SUFFICES ASSUME CacheTypeOK', CacheInv, [CacheNext]_cacheVars PROVE CacheInv'
    OBVIOUS
  <2>0. CacheTypeOK /\ StampsPast /\ OrderedByUse /\ OwnsWhatItHolds
    BY DEF CacheInv
  <2>1. /\ elements \in Seq(Elements)
        /\ Stolen \in 0..Len(elements)
        /\ DropFirst(Stolen) \in Seq(Elements)
        /\ OrderedVector(DropFirst(Stolen))
    BY <2>0, StolenInVector, DropFirstProperties, DropFirstPicked, PickedOrdered
       DEF CacheTypeOK
  <2>2. ASSUME NEW e \in Elements, UseNow(e) PROVE StampsPast'
    BY <2>0, <2>2 DEF StampsPast, UseNow, CacheTypeOK
  <2>3. ASSUME NEW k \in DOMAIN elements
        PROVE  /\ k \in 1..Len(elements)
               /\ elements[k] \in Elements
               /\ RemoveAt(elements, k) \in Seq(Elements)
               /\ OrderedVector(RemoveAt(elements, k))
    <3>1. k \in 1..Len(elements) /\ elements[k] \in Elements
      BY <2>1
    <3>2. RemoveAt(elements, k) \in Seq(Elements)
      BY <2>1, <3>1, RemoveAtProperties
    <3>3. OrderedVector(RemoveAt(elements, k))
      BY <2>0, <2>1, <3>1, RemoveAtPicked, PickedOrdered
    <3> QED BY <3>1, <3>2, <3>3
  <2>4. ASSUME NEW e \in Elements, CachePut(e) PROVE CacheInv'
    <3> DEFINE r == DropFirst(Stolen)
    <3>1. owner[e] = "client" /\ UseNow(e) /\ elements' = Append(r, e)
      BY <2>4 DEF CachePut
    <3>2. ~Contains(elements, e)
      BY <2>0, <3>1 DEF OwnsWhatItHolds
    <3>3. ~Contains(r, e)
      BY <2>0, <2>1, <3>2, DropFirstHolds
    <3>4. \A i \in 1..Len(r) : r[i] # e
      BY <3>3 DEF Contains
    <3>5. OrderedByUse'
      BY <2>0, <2>1, <3>1, <3>4, AppendOrdered
    <3>6. ASSUME NEW x \in Elements
          PROVE  owner'[x] = "cache" <=> Contains(elements', x)
      <4>1. Contains(Append(r, e), x) <=> Contains(r, x) \/ x = e
        <5>1. Len(r) \in Nat /\ Len(Append(r, e)) = Len(r) + 1
          BY <2>1
        <5>2. \A i \in 1..Len(r) : Append(r, e)[i] = r[i]
          BY <2>1
        <5>3. Append(r, e)[Len(r) + 1] = e
          BY <2>1
        <5> QED BY <5>1, <5>2, <5>3 DEF Contains
      <4>2. Contains(r, x) <=> owner[x] = "cache" /\ x \notin FirstOnes(Stolen)
        BY <2>0, <2>1, DropFirstHolds DEF OwnsWhatItHolds
      <4>3. owner'[x] = "cache" <=>
              \/ x = e
              \/ owner[x] = "cache" /\ x \notin FirstOnes(Stolen)
        BY <2>4 DEF CachePut, FreedAll
      <4> QED BY <3>1, <4>1, <4>2, <4>3
    <3> QED BY <2>2, <3>1, <3>5, <3>6 DEF CacheInv, OwnsWhatItHolds
  <2>5. ASSUME NEW e \in Elements, CachePutFails(e) PROVE CacheInv'
    <3>1. elements' = DropFirst(Stolen) /\ UNCHANGED <<lastUse, clock>>
      BY <2>5 DEF CachePutFails
    <3>2. StampsPast' /\ OrderedByUse'
      BY <2>0, <2>1, <3>1 DEF StampsPast, OrderedByUse, OrderedVector
    <3>3. ASSUME NEW x \in Elements
          PROVE  owner'[x] = "cache" <=> Contains(elements', x)
      BY <2>0, <2>1, <2>5, <3>1, DropFirstHolds
         DEF CachePutFails, FreedAll, OwnsWhatItHolds
    <3> QED BY <3>2, <3>3 DEF CacheInv, OwnsWhatItHolds
  <2>6. ASSUME NEW k \in DOMAIN elements, CacheHit(k) PROVE CacheInv'
    <3> DEFINE r == RemoveAt(elements, k)
    <3>1. /\ elements[k] \in Elements
          /\ UseNow(elements[k])
          /\ elements' = Append(r, elements[k])
          /\ UNCHANGED owner
      BY <2>3, <2>6 DEF CacheHit
    <3>2. ~Contains(r, elements[k])
      BY <2>0, <2>3, RemoveAtHolds
    <3>3. \A i \in 1..Len(r) : r[i] # elements[k]
      BY <3>2 DEF Contains
    <3>4. OrderedByUse'
      BY <2>0, <2>3, <3>1, <3>3, AppendOrdered
    <3>5. ASSUME NEW x \in Elements
          PROVE  owner'[x] = "cache" <=> Contains(elements', x)
      <4>1. Contains(Append(r, elements[k]), x) <=> Contains(r, x) \/ x = elements[k]
        <5>1. /\ Len(r) \in Nat
              /\ Len(Append(r, elements[k])) = Len(r) + 1
          BY <2>3
        <5>2. \A i \in 1..Len(r) : Append(r, elements[k])[i] = r[i]
          BY <2>3
        <5>3. Append(r, elements[k])[Len(r) + 1] = elements[k]
          BY <2>3
        <5> QED BY <5>1, <5>2, <5>3 DEF Contains
      <4>2. Contains(r, x) <=> Contains(elements, x) /\ x # elements[k]
        BY <2>0, <2>3, RemoveAtHolds
      <4>3. Contains(elements, elements[k])
        BY <2>3 DEF Contains
      <4> QED BY <2>0, <3>1, <4>1, <4>2, <4>3 DEF OwnsWhatItHolds
    <3> QED BY <2>2, <3>1, <3>4, <3>5 DEF CacheInv, OwnsWhatItHolds
  <2>7. ASSUME NEW k \in DOMAIN elements, CacheHitFails(k) \/ CacheRemove(k)
        PROVE  CacheInv'
    <3>1. elements' = RemoveAt(elements, k) /\ UNCHANGED <<lastUse, clock>>
      BY <2>7 DEF CacheHitFails, CacheRemove
    <3>2. StampsPast' /\ OrderedByUse'
      BY <2>0, <2>3, <3>1 DEF StampsPast, OrderedByUse, OrderedVector
    <3>3. ASSUME NEW x \in Elements
          PROVE  owner'[x] = "cache" <=> Contains(elements', x)
      <4>1. owner'[x] = "cache" <=> owner[x] = "cache" /\ x # elements[k]
        BY <2>0, <2>7 DEF CacheHitFails, CacheRemove, FreedAll, CacheTypeOK
      <4> QED BY <2>0, <2>3, <3>1, <4>1, RemoveAtHolds DEF OwnsWhatItHolds
    <3> QED BY <3>2, <3>3 DEF CacheInv, OwnsWhatItHolds
  <2>8. ASSUME CacheClear PROVE CacheInv'
    <3>1. elements' = <<>> /\ UNCHANGED <<lastUse, clock>>
      BY <2>8 DEF CacheClear
    <3>2. StampsPast' /\ OrderedByUse'
      BY <2>0, <3>1 DEF StampsPast, OrderedByUse
    <3>3. ASSUME NEW x \in Elements
          PROVE  owner'[x] = "cache" <=> Contains(elements', x)
      <4>1. ~Contains(elements', x)
        BY <3>1 DEF Contains
      <4>2. owner[x] = "cache" => x \in FirstOnes(Len(elements))
        BY <2>0 DEF OwnsWhatItHolds, Contains, FirstOnes
      <4>3. owner'[x] # "cache"
        BY <2>8, <4>2 DEF CacheClear, FreedAll
      <4> QED BY <4>1, <4>3
    <3> QED BY <3>2, <3>3 DEF CacheInv, OwnsWhatItHolds
  <2>9. ASSUME NEW n \in SizeArgs, SetCacheMaxSize(n) PROVE CacheInv'
    <3> DEFINE m == AsU16(n)
    <3>0. m \in Nat /\ Surplus(m) \in 0..Len(elements) /\ UNCHANGED <<lastUse, clock>>
      BY <2>0, <2>9, CacheAssumption, NarrowedIsNat, StolenInVector
         DEF SetCacheMaxSize
    <3>1. CASE m = 0 \/ m = maxElements
      <4>1. UNCHANGED <<elements, owner>>
        BY <2>9, <3>1 DEF SetCacheMaxSize, SetMaxElements
      <4> QED BY <2>0, <3>0, <4>1 DEF CacheInv, StampsPast, OrderedByUse, OwnsWhatItHolds
    <3>2. CASE m # 0 /\ m # maxElements
      <4>1. elements' = DropFirst(Surplus(m)) /\ owner' = FreedAll(FirstOnes(Surplus(m)))
        BY <2>9, <3>2 DEF SetCacheMaxSize, SetMaxElements
      <4>2. OrderedVector(DropFirst(Surplus(m)))
        BY <2>0, <2>1, <3>0, DropFirstPicked, PickedOrdered
      <4>3. StampsPast'
        BY <2>0, <3>0 DEF StampsPast
      <4>4. DropFirst(Surplus(m)) \in Seq(Elements)
        BY <2>1, <3>0, DropFirstProperties
      <4>5. OrderedByUse'
        BY <3>0, <4>1, <4>2, <4>4 DEF OrderedByUse, OrderedVector
      <4>6. ASSUME NEW x \in Elements
            PROVE  owner'[x] = "cache" <=> Contains(elements', x)
        BY <2>0, <3>0, <4>1, DropFirstHolds DEF FreedAll, OwnsWhatItHolds
      <4> QED BY <4>3, <4>5, <4>6 DEF CacheInv, OwnsWhatItHolds
    <3> QED BY <3>1, <3>2
  <2>10. CASE UNCHANGED cacheVars
    BY <2>0, <2>10
       DEF cacheVars, CacheInv, StampsPast, OrderedByUse, OwnsWhatItHolds
  <2> QED BY <2>4, <2>5, <2>6, <2>7, <2>8, <2>9, <2>10 DEF CacheNext
<1> QED BY <1>1, <1>2, CacheTypeCorrect, PTL DEF CacheSpec

\* The vector is ordered by the last use of its elements, so the one
\* sml_cache_put steals from the front is the least recently used.
THEOREM CacheOrdered == CacheSpec => []OrderedByUse
  BY CacheInvariant, PTL DEF CacheInv

\* The cache owns exactly the pointers of its vector: none is freed while it
\* can be reached and none is lost without having been freed or handed out.
THEOREM CacheOwnership == CacheSpec => []OwnsWhatItHolds
  BY CacheInvariant, PTL DEF CacheInv

(***************************************************************************)
(* The refinement.                                                         *)
(***************************************************************************)

\* The abstract cache counts with the same function.
LEMMA SameCardinality == ASSUME NEW S PROVE Lru!Cardinality(S) = Cardinality(S)
  BY DEF Lru!Cardinality, Cardinality

\* What a vector holds, as a set.
LEMMA HeldSet ==
    ASSUME NEW r \in Seq(Elements), NEW x PROVE x \in ToSet(r) <=> Contains(r, x)
  BY DEF ToSet, Contains

\* A vector ordered by use has as many elements as its set.
LEMMA OrderedCardinality ==
    ASSUME CacheTypeOK, NEW r \in Seq(Elements), OrderedVector(r)
    PROVE  Cardinality(ToSet(r)) = Len(r)
<1>1. Len(r) \in Nat /\ DOMAIN r = 1..Len(r) /\ r \in [1..Len(r) -> Elements]
  BY LenProperties
<1>2. r \in [1..Len(r) -> ToSet(r)] /\ \A x \in ToSet(r) : \E i \in 1..Len(r) : r[i] = x
  BY <1>1 DEF ToSet
<1>3. ASSUME NEW i \in 1..Len(r), NEW j \in 1..Len(r), r[i] = r[j] PROVE i = j
  <2>1. r[i] \in Elements /\ lastUse[r[i]] \in Nat
    BY <1>1 DEF CacheTypeOK
  <2>2. ~(i < j) /\ ~(j < i)
    BY <1>3, <2>1 DEF OrderedVector
  <2> QED BY <1>1, <2>2
<1>4. r \in Bijection(1..Len(r), ToSet(r))
  BY <1>2, <1>3 DEF Bijection, Injection, Surjection, IsInjective
<1>5. ExistsBijection(1..Len(r), ToSet(r))
  BY <1>4 DEF ExistsBijection
<1> QED BY <1>1, <1>5, FS_CountingElements

\* The vector's order by use, as one of a sequence.
LEMMA OrderedElements ==
    ASSUME CacheTypeOK, OrderedByUse PROVE OrderedVector(elements)
<1>1. elements \in Seq(Elements)
  BY DEF CacheTypeOK
<1>2. DOMAIN elements = 1..Len(elements)
  BY <1>1, LenProperties
<1> QED BY <1>2 DEF OrderedByUse, OrderedVector

\* Dropping from the front keeps the elements used most recently.
LEMMA DropFirstRecent ==
    ASSUME CacheTypeOK, OrderedByUse, NEW n \in 0..Len(elements), NEW m \in Nat,
           m = Len(elements) - n \/ (n = 0 /\ Len(elements) <= m)
    PROVE  Lru!KeepsMostRecent(ToSet(DropFirst(n)), m)
<1> DEFINE kept == DropFirst(n)
<1>1. /\ elements \in Seq(Elements) /\ Len(elements) \in Nat
      /\ kept \in Seq(Elements) /\ Len(kept) = Len(elements) - n
      /\ \A j \in 1..Len(elements) - n : kept[j] = elements[n + j]
      /\ OrderedVector(kept)
  <2>1. elements \in Seq(Elements) /\ Len(elements) \in Nat
    BY DEF CacheTypeOK
  <2>2. OrderedVector(kept)
    BY <2>1, DropFirstPicked, PickedOrdered
  <2> QED BY <2>1, <2>2, DropFirstProperties
<1>2. \A x : x \in ToSet(kept) <=> x \in ToSet(elements) /\ x \notin FirstOnes(n)
  BY <1>1, DropFirstHolds, HeldSet
<1>3. /\ Cardinality(ToSet(kept)) = Len(elements) - n
      /\ Cardinality(ToSet(elements)) = Len(elements)
  BY <1>1, OrderedCardinality, OrderedElements
<1> HIDE DEF kept
<1>4. ASSUME NEW old \in ToSet(elements) \ ToSet(kept), NEW new \in ToSet(kept)
      PROVE  lastUse[old] < lastUse[new]
  <2>1. PICK i \in 1..n : elements[i] = old
    BY <1>2, <1>4 DEF FirstOnes
  <2>2. PICK j \in 1..Len(elements) - n : elements[n + j] = new
    <3>1. DOMAIN kept = 1..Len(elements) - n
      BY <1>1, LenProperties
    <3> QED BY <1>1, <3>1 DEF ToSet
  <2>3. i \in DOMAIN elements /\ n + j \in DOMAIN elements /\ i < n + j
    BY <1>1
  <2> QED BY <2>1, <2>2, <2>3 DEF OrderedByUse
<1>5. Cardinality(ToSet(kept)) = IF Cardinality(ToSet(elements)) > m THEN m
                                 ELSE Cardinality(ToSet(elements))
  BY <1>1, <1>3
<1>6. ToSet(kept) \subseteq ToSet(elements)
  BY <1>2
<1>7. Lru!KeepsMostRecent(ToSet(kept), m)
  BY <1>4, <1>5, <1>6, SameCardinality DEF Lru!KeepsMostRecent
<1> QED BY <1>7 DEF kept

\* The room sml_cache_put makes is the room the abstract cache makes.
LEMMA RoomMade ==
    ASSUME CacheTypeOK, OrderedByUse
    PROVE  \E kept \in SUBSET ToSet(elements) :
              /\ kept = ToSet(DropFirst(Stolen))
              /\ IF Lru!Full THEN Lru!KeepsMostRecent(kept, maxElements - 1)
                             ELSE kept = ToSet(elements)
<1> DEFINE kept == ToSet(DropFirst(Stolen))
<1>1. elements \in Seq(Elements) /\ Len(elements) \in Nat /\ maxElements \in Nat
  BY DEF CacheTypeOK
<1>2. Lru!Full <=> Stolen = 1
  <2>1. Lru!Cardinality(ToSet(elements)) = Len(elements)
    BY <1>1, OrderedCardinality, OrderedElements, SameCardinality
  <2> QED BY <2>1 DEF Lru!Full, Stolen
<1>3. CASE Stolen = 1
  <2>1. maxElements # 0 /\ Len(elements) = maxElements
    BY <1>3 DEF Stolen
  <2>2. 1 \in 0..Len(elements) /\ maxElements - 1 = Len(elements) - 1
    BY <1>1, <2>1
  <2>3. Lru!KeepsMostRecent(kept, maxElements - 1)
    <3> DEFINE s == Stolen
               m == maxElements - 1
    <3>1. s \in 0..Len(elements) /\ m \in Nat /\ m = Len(elements) - s
      BY <1>1, <1>3, <2>1, <2>2
    <3> HIDE DEF s, m
    <3>2. Lru!KeepsMostRecent(ToSet(DropFirst(s)), m)
      BY <3>1, DropFirstRecent
    <3> QED BY <3>2 DEF s, m
  <2> HIDE DEF kept
  <2>4. kept \subseteq ToSet(elements)
    BY <2>3 DEF Lru!KeepsMostRecent
  <2> QED BY <1>2, <1>3, <2>3, <2>4 DEF kept
<1>4. CASE Stolen # 1
  <2>1. Stolen = 0
    BY <1>4 DEF Stolen
  <2>2. kept = ToSet(elements)
    <3>1. DropFirst(0) = elements
      BY <1>1 DEF DropFirst
    <3> QED BY <2>1, <3>1
  <2> QED BY <1>2, <1>4, <2>2
<1> QED BY <1>3, <1>4

\* The vector implements the abstract cache: whatever it throws out, for room
\* or for a lower limit, is what was used least recently, and nothing else
\* changes what it holds behind its client's back.
THEOREM CacheImplementsLru == CacheSpec => ImplementsLru
<1>1. CacheInit => Lru!LruInit
  <2> SUFFICES ASSUME CacheInit PROVE Lru!LruInit
    OBVIOUS
  <2>1. ToSet(elements) = {}
    BY DEF CacheInit, ToSet
  <2> QED BY <2>1 DEF CacheInit, Lru!LruInit
<1>2. CacheInv /\ [CacheNext]_cacheVars => [Lru!LruNext]_(Lru!lruVars)
  <2> SUFFICES ASSUME CacheInv, [CacheNext]_cacheVars
               PROVE  Lru!LruNext \/ UNCHANGED Lru!lruVars
    OBVIOUS
  <2> USE DEF Lru!LruNext, Lru!lruVars
  <2>0. /\ CacheTypeOK /\ OrderedByUse /\ OwnsWhatItHolds
        /\ elements \in Seq(Elements) /\ Len(elements) \in Nat
    BY DEF CacheInv, CacheTypeOK
  <2>1. ASSUME NEW e \in Elements, UseNow(e) PROVE Lru!Touched(e)
    BY <2>1 DEF UseNow, Lru!Touched
  <2>2. ASSUME NEW e \in Elements, CachePut(e) \/ CachePutFails(e) PROVE Lru!Insert(e)
    <3>1. e \notin ToSet(elements) /\ UNCHANGED maxElements
      BY <2>0, <2>2, HeldSet DEF CachePut, CachePutFails, OwnsWhatItHolds
    <3>2. PICK kept \in SUBSET ToSet(elements) :
             /\ kept = ToSet(DropFirst(Stolen))
             /\ IF Lru!Full THEN Lru!KeepsMostRecent(kept, maxElements - 1)
                            ELSE kept = ToSet(elements)
      BY <2>0, RoomMade
    <3>3. DropFirst(Stolen) \in Seq(Elements)
      BY <2>0, StolenInVector, DropFirstProperties
    <3>4. \/ ToSet(elements') = kept \cup {e} /\ Lru!Touched(e)
          \/ ToSet(elements') = kept /\ UNCHANGED <<lastUse, clock>>
      <4>1. CASE CachePut(e)
        BY <2>1, <3>2, <3>3, <4>1, ToSetAppend DEF CachePut
      <4>2. CASE CachePutFails(e)
        BY <3>2, <4>2 DEF CachePutFails
      <4> QED BY <2>2, <4>1, <4>2
    <3> QED BY <3>1, <3>2, <3>4 DEF Lru!Insert
  <2>3. ASSUME NEW k \in DOMAIN elements
        PROVE  /\ elements[k] \in Elements /\ elements[k] \in ToSet(elements)
               /\ RemoveAt(elements, k) \in Seq(Elements)
               /\ ToSet(RemoveAt(elements, k)) = ToSet(elements) \ {elements[k]}
    <3>1. k \in 1..Len(elements) /\ elements[k] \in Elements /\ elements[k] \in ToSet(elements)
      BY <2>0 DEF ToSet
    <3>2. RemoveAt(elements, k) \in Seq(Elements)
      BY <2>0, <3>1, RemoveAtProperties
    <3>3. \A x : x \in ToSet(RemoveAt(elements, k)) <=> x \in ToSet(elements) /\ x # elements[k]
      BY <2>0, <3>1, <3>2, RemoveAtHolds, HeldSet
    <3> QED BY <3>1, <3>2, <3>3
  <2>4. ASSUME NEW k \in DOMAIN elements, CacheHit(k) PROVE Lru!Hit(elements[k])
    <3>1. /\ elements' = Append(RemoveAt(elements, k), elements[k])
          /\ UseNow(elements[k]) /\ UNCHANGED maxElements
      BY <2>4 DEF CacheHit
    <3>2. ToSet(elements') = ToSet(elements)
      <4> DEFINE r == RemoveAt(elements, k)
                 e == elements[k]
      <4>1. /\ r \in Seq(Elements) /\ e \in Elements /\ e \in ToSet(elements)
            /\ ToSet(r) = ToSet(elements) \ {e}
            /\ elements' = Append(r, e)
        BY <2>3, <3>1
      <4> HIDE DEF r, e
      <4>2. ToSet(Append(r, e)) = ToSet(r) \cup {e}
        BY <4>1, ToSetAppend
      <4> QED BY <4>1, <4>2
    <3> QED BY <2>1, <2>3, <3>1, <3>2 DEF Lru!Hit
  <2>5. ASSUME NEW k \in DOMAIN elements, CacheHitFails(k) \/ CacheRemove(k)
        PROVE  Lru!Drop({elements[k]})
    BY <2>3, <2>5 DEF CacheHitFails, CacheRemove, Lru!Drop
  <2>6. CASE CacheClear
    <3>1. ToSet(elements') = {}
      BY <2>6 DEF CacheClear, ToSet
    <3>2. Lru!Drop(ToSet(elements))
      BY <2>6, <3>1 DEF CacheClear, Lru!Drop
    <3> QED BY <3>2
  <2>7. ASSUME NEW n \in SizeArgs, SetCacheMaxSize(n)
        PROVE  Lru!LruNext \/ UNCHANGED Lru!lruVars
    <3> DEFINE m == AsU16(n)
    <3>1. m \in Nat /\ UNCHANGED <<lastUse, clock>>
      BY <2>7, CacheAssumption, NarrowedIsNat DEF SetCacheMaxSize
    <3>2. CASE m = 0 \/ m = maxElements
      BY <2>7, <3>1, <3>2 DEF SetCacheMaxSize, SetMaxElements
    <3>3. CASE m # 0 /\ m # maxElements
      <4>1. maxElements' = m /\ elements' = DropFirst(Surplus(m))
        BY <2>7, <3>3 DEF SetCacheMaxSize, SetMaxElements
      <4>2. /\ Surplus(m) \in 0..Len(elements)
            /\ \/ m = Len(elements) - Surplus(m)
               \/ Surplus(m) = 0 /\ Len(elements) <= m
        BY <2>0, <3>1 DEF Surplus
      <4>3. Lru!KeepsMostRecent(ToSet(elements'), m)
        <5> DEFINE s == Surplus(m)
        <5>1. /\ s \in 0..Len(elements) /\ m \in Nat
              /\ m = Len(elements) - s \/ (s = 0 /\ Len(elements) <= m)
          BY <3>1, <4>2
        <5> HIDE DEF m, s
        <5>2. Lru!KeepsMostRecent(ToSet(DropFirst(s)), m)
          BY <2>0, <5>1, DropFirstRecent
        <5> QED BY <4>1, <5>2 DEF s
      <4>4. ToSet(elements') \in SUBSET ToSet(elements)
        BY <4>3 DEF Lru!KeepsMostRecent
      <4>5. Lru!Resize(m)
        BY <3>1, <4>1, <4>3, <4>4 DEF Lru!Resize
      <4> QED BY <3>3, <4>5
    <3> QED BY <3>2, <3>3
  <2>8. CASE UNCHANGED cacheVars
    BY <2>8 DEF cacheVars
  <2> QED BY <2>2, <2>3, <2>4, <2>5, <2>6, <2>7, <2>8 DEF CacheNext
<1> QED BY <1>1, <1>2, CacheInvariant, PTL DEF CacheSpec, ImplementsLru, Lru!LruSpec

-----------------------------------------------------------------------------
(* The invariant of the front                                              *)

Kinds == {"in", "out"}

Variable == [name : Names, enabled : BOOLEAN, min : Nat, max : Nat, val : Nat]

Reading == [in : Seq(Variable), out : Seq(Variable)]

Engine == [in : Seq(Variable), out : Seq(Variable), learn_disabled : BOOLEAN, seen : Seq(Reading)]

Line == [op : {"new"}, kind : Kinds, name : Names]
        \cup [op : {"set_value"}, name : Names, val : Nat]
        \cup [op : {"set_enabled"}, name : Names, on : BOOLEAN]
        \cup [op : {"set_range"}, name : Names, min : Nat, max : Nat]
        \cup [op : {"remove"}, name : Names]
        \cup [op : {"learn_disabled"}, on : BOOLEAN]
        \cup [op : {"predict", "erase", "process"}]

FrontTypeOK ==
    /\ engine \in Engine
    /\ log \in Seq(Line) /\ open \in BOOLEAN
    /\ pc \in {"idle", "reading"} /\ calls \in Nat /\ exact \in BOOLEAN

\* A name finds its variable.
Distinct(e) == \A p, q \in Handles(e) : NameOf(e, p) = NameOf(e, q) => p = q

FrontInv == FrontTypeOK /\ (exact => Distinct(engine) /\ Replay(log) = engine)

-----------------------------------------------------------------------------
(* The engine                                                              *)

LEMMA HandleIs ==
    ASSUME NEW e \in Engine
    PROVE  /\ \A p \in Handles(e) : /\ p = <<p[1], p[2]>> /\ p[1] \in Kinds
                                    /\ p[2] \in 1..Len(e[p[1]]) /\ e[p[1]][p[2]] \in Variable
                                    /\ NameOf(e, p) \in Names /\ p # NoHandle
           /\ \A k \in Kinds : /\ e[k] \in Seq(Variable) /\ Len(e[k]) \in Nat
                               /\ \A n \in 1..Len(e[k]) : <<k, n>> \in Handles(e)
<1>1. ASSUME NEW k \in Kinds PROVE e[k] \in Seq(Variable) /\ Len(e[k]) \in Nat
  BY DEF Kinds, Engine
<1>2. e.in = e["in"] /\ e.out = e["out"]
  OBVIOUS
<1>3. ASSUME NEW k \in Kinds, NEW n \in 1..Len(e[k]) PROVE <<k, n>> \in Handles(e)
  BY <1>2, <1>3 DEF Kinds, Handles
<1>4. ASSUME NEW p \in Handles(e)
      PROVE  /\ p = <<p[1], p[2]>> /\ p[1] \in Kinds
             /\ p[2] \in 1..Len(e[p[1]])
  BY <1>2 DEF Kinds, Handles
<1>5. ASSUME NEW p \in Handles(e)
      PROVE  e[p[1]][p[2]] \in Variable /\ NameOf(e, p) \in Names /\ p # NoHandle
  <2>1. p[1] \in Kinds /\ p[2] \in 1..Len(e[p[1]]) /\ e[p[1]] \in Seq(Variable)
    BY <1>1, <1>4
  <2> DEFINE s == e[p[1]]
             n == p[2]
  <2>2. s[n] \in Variable
    <3> HIDE DEF s, n
    <3>1. s \in Seq(Variable) /\ n \in 1..Len(s)
      BY <2>1 DEF s, n
    <3> QED BY <3>1, ElementOfSeq
  <2>3. s[n].name \in Names
    <3> HIDE DEF s, n
    <3> QED BY <2>2 DEF Variable
  <2>4. p # NoHandle
    BY <2>1 DEF NoHandle
  <2> QED BY <2>2, <2>3, <2>4 DEF NameOf
<1> QED BY <1>1, <1>3, <1>4, <1>5

\* The variable of a name, when no other has it.
LEMMA FindsIt ==
    ASSUME NEW e \in Engine, Distinct(e), NEW p \in Handles(e)
    PROVE  FindByName(e, NameOf(e, p)) = p
<1> DEFINE name == NameOf(e, p)
           P(k) == Positions(e, k, name)
<1>1. /\ p = <<p[1], p[2]>> /\ p[1] \in Kinds /\ p[2] \in 1..Len(e[p[1]])
      /\ e[p[1]][p[2]].name = name
  BY HandleIs DEF NameOf
<1>2. ASSUME NEW k \in Kinds, NEW q \in P(k) PROVE q = p /\ k = p[1]
  <2>1. PICK n \in 1..Len(e[k]) : q = <<k, n>> /\ e[k][n].name = name
    BY <1>2 DEF Positions
  <2>2. q \in Handles(e) /\ NameOf(e, q) = name
    BY <1>2, <2>1, HandleIs DEF NameOf
  <2>3. q = p
    BY <2>2 DEF Distinct
  <2> QED BY <2>1, <2>3
<1>3. p \in P(p[1])
  <2> HIDE DEF name
  <2>1. p[2] \in {j \in 1..Len(e[p[1]]) : e[p[1]][j].name = name}
    BY <1>1
  <2> QED BY <1>1, <2>1 DEF Positions
<1>4. P(p[1]) = {p}
  <2> HIDE DEF P
  <2> QED BY <1>1, <1>2, <1>3
<1>5. GetVariable(e, p[1], name) = p
  <2>1. P(p[1]) = {p} /\ p[2] <= p[2]
    BY <1>1, <1>4, HandleIs
  <2> QED BY <2>1 DEF GetVariable
<1>6. CASE p[1] = "in"
  BY <1>4, <1>5, <1>6 DEF FindByName
<1>7. CASE p[1] = "out"
  <2>1. P("in") = {}
    <3> HIDE DEF P
    <3> QED BY <1>2, <1>7 DEF Kinds
  <2> QED BY <1>4, <1>5, <1>7, <2>1 DEF FindByName
<1> QED BY <1>1, <1>6, <1>7 DEF Kinds

Setters == {"set_value", "set_enabled", "set_range"}

LEMMA LineIs ==
    ASSUME NEW line \in Line
    PROVE  /\ line.op \in {"new", "set_value", "set_enabled", "set_range", "remove",
                           "learn_disabled", "predict", "erase", "process"}
           /\ line.op = "new" => line.kind \in Kinds
           /\ line.op = "new" \/ OnVariable(line) => line.name \in Names
           /\ line.op = "set_value" => line.val \in Nat
           /\ line.op \in {"set_enabled", "learn_disabled"} => line.on \in BOOLEAN
           /\ line.op = "set_range" => /\ line.min \in Nat /\ line.max \in Nat
                                       /\ line \in [op : {"set_range"}, name : Names, min : Nat, max : Nat]
<1>1. CASE line \in [op : {"new"}, kind : Kinds, name : Names]
  BY <1>1 DEF OnVariable
<1>2. CASE line \in [op : {"set_value"}, name : Names, val : Nat]
  BY <1>2 DEF OnVariable
<1>3. CASE line \in [op : {"set_enabled"}, name : Names, on : BOOLEAN]
  BY <1>3 DEF OnVariable
<1>4. CASE line \in [op : {"set_range"}, name : Names, min : Nat, max : Nat]
  BY <1>4 DEF OnVariable
<1>5. CASE line \in [op : {"remove"}, name : Names]
  BY <1>5 DEF OnVariable
<1>6. CASE line \in [op : {"learn_disabled"}, on : BOOLEAN]
  BY <1>6 DEF OnVariable
<1>7. CASE line \in [op : {"predict", "erase", "process"}]
  BY <1>7 DEF OnVariable
<1> QED BY <1>1, <1>2, <1>3, <1>4, <1>5, <1>6, <1>7 DEF Line

\* One list of the engine becomes another.
LEMMA ListChanges ==
    ASSUME NEW e \in Engine, NEW k \in Kinds, NEW s \in Seq(Variable)
    PROVE  LET f == [e EXCEPT ![k] = s]
           IN  f \in Engine /\ \A j \in Kinds : f[j] = IF j = k THEN s ELSE e[j]
<1> DEFINE f == [e EXCEPT ![k] = s]
<1>1. \A j \in Kinds : f[j] = IF j = k THEN s ELSE e[j]
  BY DEF Engine, Kinds
<1>2. k = "in" => f \in Engine
  BY DEF Engine
<1>3. k = "out" => f \in Engine
  BY DEF Engine
<1> HIDE DEF f
<1>4. f \in Engine
  BY <1>2, <1>3 DEF Kinds
<1> QED BY <1>1, <1>4 DEF f

\* A variable that keeps its name.
LEMMA VariableChanges ==
    ASSUME NEW e \in Engine, NEW p \in Handles(e),
           NEW w \in Variable, w.name = NameOf(e, p)
    PROVE  LET f == [e EXCEPT ![p[1]][p[2]] = w]
           IN  f \in Engine /\ p \in Handles(f) /\ (Distinct(e) => Distinct(f))
<1> DEFINE k == p[1]
           n == p[2]
           s == [e[k] EXCEPT ![n] = w]
           f == [e EXCEPT ![p[1]][p[2]] = w]
           g == [e EXCEPT ![k] = s]
<1>1. /\ p = <<k, n>> /\ k \in Kinds /\ n \in 1..Len(e[k]) /\ e[k] \in Seq(Variable)
      /\ Len(e[k]) \in Nat /\ e[k][n].name = w.name
  BY HandleIs DEF NameOf
<1>2. f = g
  OBVIOUS
<1> HIDE DEF f
<1>3. s \in Seq(Variable) /\ Len(s) = Len(e[k]) /\ \A j \in 1..Len(e[k]) : s[j].name = e[k][j].name
  <2> DEFINE t == e[k]
  <2> HIDE DEF n, k
  <2>1. t \in Seq(Variable) /\ Len(t) \in Nat /\ n \in 1..Len(t) /\ t[n].name = w.name
    BY <1>1
  <2> HIDE DEF t
  <2>2. /\ [t EXCEPT ![n] = w] \in Seq(Variable) /\ Len([t EXCEPT ![n] = w]) = Len(t)
        /\ \A j \in 1..Len(t) : [t EXCEPT ![n] = w][j] = IF j = n THEN w ELSE t[j]
    BY <2>1
  <2> QED BY <2>1, <2>2 DEF t
<1> HIDE DEF s
<1>4. g \in Engine /\ \A j \in Kinds : g[j] = IF j = k THEN s ELSE e[j]
  BY <1>1, <1>3, ListChanges
<1> HIDE DEF g
<1>5. \A q \in Handles(g) : q \in Handles(e) /\ NameOf(g, q) = NameOf(e, q)
  <2> TAKE q \in Handles(g)
  <2>1. q = <<q[1], q[2]>> /\ q[1] \in Kinds /\ q[2] \in 1..Len(g[q[1]])
    BY <1>4, HandleIs
  <2>2. q[2] \in 1..Len(e[q[1]]) /\ g[q[1]][q[2]].name = e[q[1]][q[2]].name
    BY <1>3, <1>4, <2>1
  <2>3. <<q[1], q[2]>> \in Handles(e)
    BY <2>1, <2>2, HandleIs
  <2> QED BY <2>1, <2>2, <2>3 DEF NameOf
<1>6. Distinct(e) => Distinct(g)
  BY <1>5 DEF Distinct
<1>7. p \in Handles(g)
  <2>1. n \in 1..Len(g[k])
    BY <1>1, <1>3, <1>4
  <2>2. <<k, n>> \in Handles(g)
    BY <1>1, <1>4, <2>1, HandleIs
  <2> QED BY <1>1, <2>2
<1> QED BY <1>2, <1>4, <1>6, <1>7 DEF f

LEMMA CreateVarType == ASSUME NEW name \in Names PROVE CreateVar(name) \in Variable /\ CreateVar(name).name = name
  BY DEF CreateVar, Variable, NaN

\* A new variable under a name that nobody has.
LEMMA NewVariableKeeps ==
    ASSUME NEW e \in Engine, NEW k \in Kinds, NEW name \in Names
    PROVE  LET f == NewVariable(e, k, name)
           IN  /\ f \in Engine
               /\ <<k, Len(e[k]) + 1>> \in Handles(f)
               /\ Distinct(e) /\ ~Taken(e, name) => Distinct(f)
<1> DEFINE w == CreateVar(name)
           s == Append(e[k], w)
           f == NewVariable(e, k, name)
           new == <<k, Len(e[k]) + 1>>
<1>1. w \in Variable /\ w.name = name
  BY CreateVarType
<1> HIDE DEF w
<1>2. e[k] \in Seq(Variable) /\ Len(e[k]) \in Nat
  BY HandleIs
<1>3. f = [e EXCEPT ![k] = s]
  BY DEF NewVariable, w
<1> HIDE DEF f
<1>4. /\ s \in Seq(Variable) /\ Len(s) = Len(e[k]) + 1
      /\ \A j \in 1..Len(e[k]) : s[j] = e[k][j]
      /\ s[Len(e[k]) + 1] = w
  BY <1>1, <1>2, AppendProperties
<1> HIDE DEF s
<1>5. f \in Engine /\ \A j \in Kinds : f[j] = IF j = k THEN s ELSE e[j]
  <2> DEFINE g == [e EXCEPT ![k] = s]
  <2>1. g \in Engine /\ \A j \in Kinds : g[j] = IF j = k THEN s ELSE e[j]
    BY <1>4, ListChanges
  <2>2. f = g
    BY <1>3
  <2> HIDE DEF g
  <2> QED BY <2>1, <2>2
<1>6. new \in Handles(f) /\ NameOf(f, new) = name
  <2>1. Len(e[k]) + 1 \in 1..Len(f[k])
    BY <1>2, <1>4, <1>5
  <2> QED BY <1>1, <1>4, <1>5, <2>1, HandleIs DEF NameOf
<1>7. \A q \in Handles(f) : q = new \/ (q \in Handles(e) /\ NameOf(f, q) = NameOf(e, q))
  <2> TAKE q \in Handles(f)
  <2>1. q = <<q[1], q[2]>> /\ q[1] \in Kinds /\ q[2] \in 1..Len(f[q[1]])
    BY <1>5, HandleIs
  <2>2. CASE q[1] = k /\ q[2] = Len(e[k]) + 1
    BY <2>1, <2>2
  <2>3. CASE ~(q[1] = k /\ q[2] = Len(e[k]) + 1)
    <3>1. q[2] \in 1..Len(e[q[1]]) /\ f[q[1]][q[2]] = e[q[1]][q[2]]
      BY <1>2, <1>4, <1>5, <2>1, <2>3
    <3>2. <<q[1], q[2]>> \in Handles(e)
      BY <2>1, <3>1, HandleIs
    <3> QED BY <2>1, <3>1, <3>2 DEF NameOf
  <2> QED BY <2>2, <2>3
<1>8. ASSUME ~Taken(e, name), NEW q \in Handles(e) PROVE NameOf(e, q) # name
  <2>1. q = <<q[1], q[2]>> /\ q[1] \in Kinds /\ q[2] \in 1..Len(e[q[1]])
    BY HandleIs
  <2>2. NameOf(e, q) = name => q \in Positions(e, q[1], name)
    BY <2>1 DEF NameOf, Positions
  <2> QED BY <1>8, <2>1, <2>2 DEF Taken, Kinds
<1> HIDE DEF new
<1>9. Distinct(e) /\ ~Taken(e, name) => Distinct(f)
  BY <1>6, <1>7, <1>8 DEF Distinct
<1> QED BY <1>5, <1>6, <1>9 DEF f, new

\* One less, and the others come closer.
LEMMA RemoveVariableKeeps ==
    ASSUME NEW e \in Engine, NEW p \in Handles(e)
    PROVE  LET f == RemoveVariable(e, p)
           IN  f \in Engine /\ (Distinct(e) => Distinct(f))
<1> DEFINE k == p[1]
           n == p[2]
           s == RemoveAt(e[k], n)
           f == RemoveVariable(e, p)
<1>1. /\ k \in Kinds /\ n \in 1..Len(e[k]) /\ e[k] \in Seq(Variable) /\ Len(e[k]) \in Nat
  BY HandleIs
<1>2. f = [e EXCEPT ![k] = s]
  BY DEF RemoveVariable
<1> HIDE DEF f
<1>3. /\ s \in Seq(Variable) /\ Len(s) = Len(e[k]) - 1
      /\ \A j \in 1..n - 1 : s[j] = e[k][j]
      /\ \A j \in n..Len(e[k]) - 1 : s[j] = e[k][j + 1]
  BY <1>1, RemoveAtProperties
<1> HIDE DEF s, k, n
<1>4. f \in Engine /\ \A j \in Kinds : f[j] = IF j = k THEN s ELSE e[j]
  <2> DEFINE g == [e EXCEPT ![k] = s]
  <2>1. g \in Engine /\ \A j \in Kinds : g[j] = IF j = k THEN s ELSE e[j]
    BY <1>1, <1>3, ListChanges
  <2>2. f = g
    BY <1>2
  <2> HIDE DEF g
  <2> QED BY <2>1, <2>2
<1> DEFINE Was(q) == IF q[1] = k /\ q[2] >= n THEN <<q[1], q[2] + 1>> ELSE q
<1>5. \A q \in Handles(f) : /\ q = <<q[1], q[2]>> /\ q[1] \in Kinds /\ q[2] \in Nat
                            /\ Was(q) \in Handles(e) /\ NameOf(f, q) = NameOf(e, Was(q))
  <2> TAKE q \in Handles(f)
  <2>1. q = <<q[1], q[2]>> /\ q[1] \in Kinds /\ q[2] \in 1..Len(f[q[1]])
    BY <1>4, HandleIs
  <2>2. CASE q[1] # k
    <3>1. <<q[1], q[2]>> \in Handles(e) /\ Was(q) = q
      BY <1>4, <2>1, <2>2, HandleIs
    <3> QED BY <1>4, <2>1, <2>2, <3>1 DEF NameOf
  <2>3. CASE q[1] = k /\ q[2] >= n
    <3>1. q[2] \in n..Len(e[k]) - 1 /\ q[2] + 1 \in 1..Len(e[k])
      BY <1>1, <1>3, <1>4, <2>1, <2>3
    <3>2. Was(q) = <<k, q[2] + 1>> /\ Was(q)[1] = k /\ Was(q)[2] = q[2] + 1
      BY <2>3
    <3>3. <<k, q[2] + 1>> \in Handles(e)
      BY <1>1, <3>1, HandleIs
    <3>4. f[q[1]][q[2]] = e[k][q[2] + 1]
      BY <1>3, <1>4, <2>1, <2>3, <3>1
    <3> HIDE DEF Was
    <3> QED BY <2>1, <3>2, <3>3, <3>4 DEF NameOf
  <2>4. CASE q[1] = k /\ ~(q[2] >= n)
    <3>1. q[2] \in 1..n - 1 /\ q[2] \in 1..Len(e[k])
      BY <1>1, <1>3, <1>4, <2>1, <2>4
    <3>2. Was(q) = q
      BY <2>4
    <3>3. <<q[1], q[2]>> \in Handles(e)
      BY <1>1, <2>4, <3>1, HandleIs
    <3>4. f[q[1]][q[2]] = e[q[1]][q[2]]
      BY <1>3, <1>4, <2>1, <2>4, <3>1
    <3> HIDE DEF Was
    <3> QED BY <2>1, <3>2, <3>3, <3>4 DEF NameOf
  <2> QED BY <2>2, <2>3, <2>4
<1>6. \A q, r \in Handles(f) : Was(q) = Was(r) => q = r
  <2> TAKE q, r \in Handles(f)
  <2>1. /\ q = <<q[1], q[2]>> /\ q[2] \in Nat /\ r = <<r[1], r[2]>> /\ r[2] \in Nat /\ n \in Nat
    <3> HIDE DEF Was
    <3>1. n \in Nat
      BY <1>1
    <3> QED BY <1>5, <3>1
  <2>2. /\ Was(q)[1] = q[1] /\ Was(q)[2] = IF q[1] = k /\ q[2] >= n THEN q[2] + 1 ELSE q[2]
        /\ Was(r)[1] = r[1] /\ Was(r)[2] = IF r[1] = k /\ r[2] >= n THEN r[2] + 1 ELSE r[2]
    BY <2>1
  <2> HIDE DEF Was
  <2>3. Was(q) = Was(r) => q[1] = r[1] /\ q[2] = r[2]
    BY <2>1, <2>2
  <2> QED BY <2>1, <2>3
<1>7. Distinct(e) => Distinct(f)
  <2> HIDE DEF Was
  <2> QED BY <1>5, <1>6 DEF Distinct
<1> QED BY <1>4, <1>7 DEF f

LEMMA SameLists ==
    ASSUME NEW e \in Engine, NEW f \in Engine, f.in = e.in, f.out = e.out, Distinct(e)
    PROVE  Distinct(f)
<1>1. Handles(f) = Handles(e)
  BY DEF Handles
<1>2. \A k \in Kinds : f[k] = e[k]
  BY DEF Kinds
<1>3. \A p \in Handles(f) : NameOf(f, p) = NameOf(e, p)
  BY <1>1, <1>2, HandleIs DEF NameOf
<1> QED BY <1>1, <1>3 DEF Distinct

\* Every call leaves an engine, and names stay distinct unless a new one is taken.
LEMMA EffectKeeps ==
    ASSUME NEW e \in Engine, NEW line \in Line, NEW p, OnVariable(line) => p \in Handles(e)
    PROVE  LET f == Effect(e, p, line)
           IN  /\ f \in Engine
               /\ line.op \in Setters => p \in Handles(f)
               /\ Distinct(e) /\ (line.op = "new" => ~Taken(e, line.name)) => Distinct(f)
<1> DEFINE f == Effect(e, p, line)
           k == p[1]
           n == p[2]
           Keeps(g) == /\ g \in Engine /\ (Distinct(e) => Distinct(g))
                       /\ line.op \in Setters => p \in Handles(g)
           Goal == /\ f \in Engine
                   /\ line.op \in Setters => p \in Handles(f)
                   /\ Distinct(e) /\ (line.op = "new" => ~Taken(e, line.name)) => Distinct(f)
\* One variable has other settings.
<1>1. ASSUME OnVariable(line), NEW w \in Variable, w.name = NameOf(e, p)
      PROVE  Keeps([e EXCEPT ![k][n] = w])
  BY <1>1, VariableChanges
<1>2. ASSUME OnVariable(line)
      PROVE  e[k][n] \in Variable /\ e[k][n].name = NameOf(e, p)
  BY <1>2, HandleIs DEF NameOf
<1>3. ASSUME line.op = "set_value" PROVE Keeps(f)
  <2>1. line.val \in Nat /\ OnVariable(line) /\ f = SetValue(e, p, line.val)
    BY <1>3, LineIs DEF OnVariable, Effect
  <2> DEFINE v == line.val
             w == [e[k][n] EXCEPT !.val = v]
  <2>2. f = [e EXCEPT ![k][n] = w]
    BY <2>1 DEF SetValue
  <2>3. w \in Variable /\ w.name = NameOf(e, p)
    <3> DEFINE u == e[k][n]
    <3> HIDE DEF u, v
    <3>1. u \in Variable /\ u.name = NameOf(e, p) /\ v \in Nat
      BY <1>2, <2>1 DEF u, v
    <3>2. [u EXCEPT !.val = v] \in Variable /\ [u EXCEPT !.val = v].name = u.name
      BY <3>1 DEF Variable
    <3> QED BY <3>1, <3>2 DEF u
  <2> HIDE DEF w, f, Keeps
  <2> QED BY <1>1, <2>1, <2>2, <2>3
<1>4. ASSUME line.op = "set_enabled" PROVE Keeps(f)
  <2>1. line.on \in BOOLEAN /\ OnVariable(line) /\ f = SetEnabled(e, p, line.on)
    BY <1>4, LineIs DEF OnVariable, Effect
  <2> DEFINE v == line.on
             w == [e[k][n] EXCEPT !.enabled = v]
  <2>2. f = [e EXCEPT ![k][n] = w]
    BY <2>1 DEF SetEnabled
  <2>3. w \in Variable /\ w.name = NameOf(e, p)
    <3> DEFINE u == e[k][n]
    <3> HIDE DEF u, v
    <3>1. u \in Variable /\ u.name = NameOf(e, p) /\ v \in BOOLEAN
      BY <1>2, <2>1 DEF u, v
    <3>2. [u EXCEPT !.enabled = v] \in Variable /\ [u EXCEPT !.enabled = v].name = u.name
      BY <3>1 DEF Variable
    <3> QED BY <3>1, <3>2 DEF u
  <2> HIDE DEF w, f, Keeps
  <2> QED BY <1>1, <2>1, <2>2, <2>3
<1>5. ASSUME line.op = "set_range" PROVE Keeps(f)
  <2>1. /\ OnVariable(line) /\ line.min \in Nat /\ line.max \in Nat
        /\ line \in [op : {"set_range"}, name : Names, min : Nat, max : Nat]
    BY <1>5, LineIs DEF OnVariable
  <2> DEFINE l == Filled(e, p, line)
             u == e[k][n]
  <2>2. u \in Variable /\ u.name = NameOf(e, p)
    BY <1>2, <2>1
  <2>3. l = [line EXCEPT !.min = IF @ = NaN THEN u.min ELSE @, !.max = IF @ = NaN THEN u.max ELSE @]
    BY <1>5 DEF Filled, GetRange
  <2>4. u.min \in Nat /\ u.max \in Nat
    <3> HIDE DEF u
    <3> QED BY <2>2 DEF Variable
  <2>5. l.min \in Nat /\ l.max \in Nat
    <3> HIDE DEF u, l
    <3> QED BY <2>1, <2>3, <2>4
  <2>6. f = Ordered(e, p, l.min, l.max)
    BY <1>5 DEF Effect
  <2>7. ASSUME NEW a \in Nat, NEW b \in Nat PROVE Keeps(SetRange(e, p, a, b))
    <3> DEFINE w == [u EXCEPT !.min = a, !.max = b]
               g == SetRange(e, p, a, b)
    <3>1. g = [e EXCEPT ![k][n] = w]
      BY DEF SetRange
    <3>2. w \in Variable /\ w.name = NameOf(e, p)
      <4> HIDE DEF u
      <4> QED BY <2>2 DEF Variable
    <3> HIDE DEF w, g, Keeps
    <3> QED BY <1>1, <2>1, <3>1, <3>2 DEF g
  <2> HIDE DEF l, f, Keeps
  <2> QED BY <2>5, <2>6, <2>7 DEF Ordered
<1>6. ASSUME line.op = "remove" PROVE Keeps(f)
  <2>1. OnVariable(line) /\ f = RemoveVariable(e, p)
    BY <1>6 DEF OnVariable, Effect
  <2> HIDE DEF f
  <2> QED BY <1>6, <2>1, RemoveVariableKeeps DEF Setters
<1>7. ASSUME line.op = "new" PROVE Goal
  <2>1. line.kind \in Kinds /\ line.name \in Names /\ f = NewVariable(e, line.kind, line.name)
    BY <1>7, LineIs DEF Effect
  <2> HIDE DEF f
  <2> QED BY <1>7, <2>1, NewVariableKeeps DEF Setters
<1>8. ASSUME NEW g \in Engine, g.in = e.in, g.out = e.out, line.op \notin Setters PROVE Keeps(g)
  BY <1>8, SameLists
<1>9. ASSUME line.op = "learn_disabled" PROVE Keeps(f)
  <2>1. line.on \in BOOLEAN /\ f = [e EXCEPT !.learn_disabled = line.on]
    BY <1>9, LineIs DEF Effect
  <2> DEFINE v == line.on
  <2> HIDE DEF v
  <2>2. /\ [e EXCEPT !.learn_disabled = v] \in Engine
        /\ [e EXCEPT !.learn_disabled = v].in = e.in
        /\ [e EXCEPT !.learn_disabled = v].out = e.out
    BY <2>1 DEF Engine, v
  <2> HIDE DEF f, Keeps
  <2> QED BY <1>8, <1>9, <2>1, <2>2 DEF v, Setters
<1>10. ASSUME line.op = "process" PROVE Keeps(f)
  <2> DEFINE r == [in |-> e.in, out |-> e.out]
             s == Append(e.seen, r)
  <2>1. f = [e EXCEPT !.seen = s]
    BY <1>10 DEF Effect, Process
  <2>2. r \in Reading /\ e.seen \in Seq(Reading)
    BY DEF Reading, Engine
  <2> HIDE DEF r
  <2>3. s \in Seq(Reading)
    BY <2>2
  <2> HIDE DEF s
  <2>4. /\ [e EXCEPT !.seen = s] \in Engine
        /\ [e EXCEPT !.seen = s].in = e.in /\ [e EXCEPT !.seen = s].out = e.out
    BY <2>3 DEF Engine
  <2> HIDE DEF f, Keeps
  <2> QED BY <1>8, <1>10, <2>1, <2>4 DEF Setters
<1>11. ASSUME line.op \in {"predict", "erase"} PROVE Keeps(f)
  BY <1>11 DEF Effect, Setters
<1> HIDE DEF f
<1>12. Keeps(f) => Goal
  OBVIOUS
<1> HIDE DEF Keeps, Goal
<1>13. Goal
  BY <1>3, <1>4, <1>5, <1>6, <1>7, <1>9, <1>10, <1>11, <1>12, LineIs
<1> QED BY <1>13 DEF Goal, f

-----------------------------------------------------------------------------
(* The log                                                                 *)

\* What is written of a call does what the call did: limits that were left
\* out are those the variable had.
LEMMA FilledIs ==
    ASSUME NEW e \in Engine, NEW line \in Line, NEW p, OnVariable(line) => p \in Handles(e)
    PROVE  LET l == Filled(e, p, line)
           IN  /\ l \in Line /\ l.op = line.op /\ Effect(e, p, l) = Effect(e, p, line)
               /\ OnVariable(line) => l.name = line.name
<1> DEFINE l == Filled(e, p, line)
<1>1. CASE line.op # "set_range"
  BY <1>1 DEF Filled
<1>2. CASE line.op = "set_range"
  <2>1. /\ p \in Handles(e) /\ line \in [op : {"set_range"}, name : Names, min : Nat, max : Nat]
    BY <1>2, LineIs DEF OnVariable
  <2> DEFINE u == e[p[1]][p[2]]
             a == IF line.min = NaN THEN u.min ELSE line.min
             b == IF line.max = NaN THEN u.max ELSE line.max
  <2>2. u \in Variable
    BY <2>1, HandleIs
  <2>3. u.min \in Nat /\ u.max \in Nat
    <3> HIDE DEF u
    <3> QED BY <2>2 DEF Variable
  <2>4. a \in Nat /\ b \in Nat
    <3> HIDE DEF u
    <3> QED BY <2>1, <2>3
  <2>5. l = [line EXCEPT !.min = a, !.max = b]
    BY <1>2 DEF Filled, GetRange
  <2> HIDE DEF l
  <2>6. /\ l \in [op : {"set_range"}, name : Names, min : Nat, max : Nat]
        /\ l.name = line.name /\ l.min = a /\ l.max = b
    <3> HIDE DEF a, b
    <3> QED BY <2>1, <2>4, <2>5
  <2>7. l \in Line /\ l.op = "set_range"
    BY <2>6 DEF Line
  <2>8. Filled(e, p, l) = l
    <3>1. Filled(e, p, l) = [l EXCEPT !.min = IF l.min = NaN THEN u.min ELSE l.min,
                                      !.max = IF l.max = NaN THEN u.max ELSE l.max]
      BY <2>7 DEF Filled, GetRange
    <3>2. /\ (IF l.min = NaN THEN u.min ELSE l.min) = l.min
          /\ (IF l.max = NaN THEN u.max ELSE l.max) = l.max
      BY <2>6
    <3>3. [l EXCEPT !.min = l.min, !.max = l.max] = l
      BY <2>6
    <3> HIDE DEF u
    <3> QED BY <3>1, <3>2, <3>3
  <2>9. Effect(e, p, l) = Effect(e, p, line)
    <3>1. Effect(e, p, l) = Ordered(e, p, Filled(e, p, l).min, Filled(e, p, l).max)
      BY <2>7 DEF Effect
    <3>2. Effect(e, p, line) = Ordered(e, p, l.min, l.max)
      BY <1>2 DEF Effect, l
    <3> QED BY <2>8, <3>1, <3>2
  <2> QED BY <1>2, <2>6, <2>7, <2>9 DEF l
<1> QED BY <1>1, <1>2

\* The replay finds the variable by its name and makes the same call.
LEMMA ReplayedIs ==
    ASSUME NEW e \in Engine, NEW line \in Line, NEW p, Distinct(e),
           OnVariable(line) => p \in Handles(e) /\ line.name = NameOf(e, p),
           ~OnVariable(line) => p = NoHandle
    PROVE  Replayed(e, Filled(e, p, line)) = Effect(e, p, line)
<1> DEFINE l == Filled(e, p, line)
<1>1. /\ l.op = line.op /\ Effect(e, p, l) = Effect(e, p, line)
      /\ OnVariable(line) => l.name = line.name
  BY FilledIs
<1> HIDE DEF l
<1>2. OnVariable(l) <=> OnVariable(line)
  BY <1>1 DEF OnVariable
<1>3. CASE OnVariable(line)
  <2>1. FindByName(e, l.name) = p /\ p # NoHandle
    BY <1>1, <1>3, FindsIt, HandleIs
  <2> QED BY <1>1, <1>2, <1>3, <2>1 DEF Replayed, l
<1>4. CASE ~OnVariable(line)
  BY <1>1, <1>2, <1>4 DEF Replayed, l
<1> QED BY <1>3, <1>4

ReplayStep(c, e, line) == Replayed(e, line)

LoadStep(c, s, line) == Loaded(s, line)

\* What the loader of FLL files has made so far.
LoadKeeps(c, s) ==
    /\ s.e \in Engine /\ s.log \in Seq(Line) /\ s.open \in BOOLEAN /\ s.exact \in BOOLEAN
    /\ s.last \in Handles(s.e) \cup {NoHandle}
    /\ s.exact => Distinct(s.e) /\ Replay(s.log) = s.e

Replaying == INSTANCE SeqLemmas WITH FoldOp <- ReplayStep, FoldInv <- LoadKeeps

Loading == INSTANCE SeqLemmas WITH FoldOp <- LoadStep, FoldInv <- LoadKeeps

\* A log with one line more.
LEMMA ReplayAppend ==
    ASSUME NEW l \in Seq(Line), NEW line \in Line
    PROVE  Replay(<<>>) = NaiveNew /\ Replay(Append(l, line)) = Replayed(Replay(l), line)
<1>1. \A y : Replay(y) = Replaying!Folded(<<>>, NaiveNew, y)
  BY DEF Replay, Replaying!Folded, Replaying!IterEq, Replaying!Largest, Max, ReplayStep,
         FoldLeft, MapThenFoldSet
<1>2. /\ Replaying!Folded(<<>>, NaiveNew, <<>>) = NaiveNew
      /\ Replaying!Folded(<<>>, NaiveNew, Append(l, line)) =
            ReplayStep(<<>>, Replaying!Folded(<<>>, NaiveNew, l), line)
  BY Replaying!FoldAppend
<1> QED BY <1>1, <1>2 DEF ReplayStep

\* A call and its line: the log goes on standing for the engine, as long as
\* it can express the call.
LEMMA CallKeeps ==
    ASSUME NEW e \in Engine, NEW l \in Seq(Line), NEW o \in BOOLEAN,
           Distinct(e), Replay(l) = e,
           NEW line \in Line, NEW p,
           OnVariable(line) => p \in Handles(e) /\ line.name = NameOf(e, p),
           ~OnVariable(line) => p = NoHandle,
           Expressible(e, o, line)
    PROVE  /\ Distinct(Effect(e, p, line))
           /\ Replay(Written(l, o, Filled(e, p, line))) = Effect(e, p, line)
<1>1. Distinct(Effect(e, p, line))
  BY EffectKeeps DEF Expressible
<1>2. CASE o
  <2>1. Effect(e, p, line) = e
    BY <1>2 DEF Expressible, Effect
  <2> QED BY <1>1, <1>2, <2>1 DEF Written
<1>3. CASE ~o
  <2>1. Filled(e, p, line) \in Line
    BY FilledIs
  <2>2. Replay(Append(l, Filled(e, p, line))) = Effect(e, p, line)
    BY <2>1, ReplayAppend, ReplayedIs
  <2> QED BY <1>1, <1>3, <2>2 DEF Written
<1> QED BY <1>2, <1>3

\* What a call leaves of engine and log.
LEMMA CallTypes ==
    ASSUME NEW e \in Engine, NEW l \in Seq(Line), NEW o \in BOOLEAN,
           NEW line \in Line, NEW p, OnVariable(line) => p \in Handles(e)
    PROVE  /\ Effect(e, p, line) \in Engine
           /\ Written(l, o, Filled(e, p, line)) \in Seq(Line)
<1>1. Effect(e, p, line) \in Engine
  BY EffectKeeps
<1>2. Filled(e, p, line) \in Line
  BY FilledIs
<1>3. Written(l, o, Filled(e, p, line)) \in Seq(Line)
  <2> DEFINE d == Filled(e, p, line)
  <2> HIDE DEF d
  <2>1. d \in Line
    BY <1>2 DEF d
  <2>2. Written(l, o, d) \in Seq(Line)
    BY <2>1 DEF Written
  <2> QED BY <2>2 DEF d
<1> QED BY <1>1, <1>3

LEMMA ExpressibleType ==
    ASSUME NEW e, NEW o \in BOOLEAN, NEW line
    PROVE  Expressible(e, o, line) \in BOOLEAN
BY DEF Expressible

LEMMA NewIs == NaiveNew \in Engine /\ Distinct(NaiveNew)
<1>1. NaiveNew \in Engine
  BY DEF NaiveNew, Engine
<1>2. Handles(NaiveNew) = {}
  <2>1. NaiveNew.in = <<>> /\ NaiveNew.out = <<>> /\ Len(<<>>) = 0 /\ 1..0 = {}
    BY DEF NaiveNew
  <2> QED BY <2>1 DEF Handles
<1> QED BY <1>1, <1>2 DEF Distinct

\* The call the loader makes for a line of the file.
LEMMA FllCallIs ==
    ASSUME NEW e \in Engine, NEW line \in FllLines, NEW p,
           line.op = "new" => p = NoHandle,
           line.op # "new" => p \in Handles(e)
    PROVE  /\ FllCall(e, p, line) \in Line
           /\ FllCall(e, p, line).op = line.op
           /\ line.op = "new" => /\ FllCall(e, p, line) = line /\ line.kind \in Kinds /\ line.name \in Names
                                 /\ ~OnVariable(line)
           /\ line.op # "new" => /\ OnVariable(FllCall(e, p, line)) /\ line.op \in Setters
                                 /\ FllCall(e, p, line).name = NameOf(e, p)
<1>1. CASE line \in [op : {"new"}, kind : {"in", "out"}, name : Names]
  BY <1>1 DEF FllCall, Line, Kinds, OnVariable
<1>2. CASE line \in [op : {"set_enabled"}, on : BOOLEAN]
  <2>1. NameOf(e, p) \in Names
    BY <1>2, HandleIs
  <2> DEFINE m == NameOf(e, p)
             d == [op |-> "set_enabled", name |-> m, on |-> line.on]
  <2>2. FllCall(e, p, line) = d
    BY <1>2 DEF FllCall
  <2>3. d \in Line /\ d.op = "set_enabled" /\ d.name = m
    <3> HIDE DEF m
    <3> QED BY <1>2, <2>1 DEF Line, m
  <2> HIDE DEF d
  <2> QED BY <1>2, <2>2, <2>3 DEF OnVariable, Setters
<1>3. CASE line \in [op : {"set_range"}, min : Values \cup {NaN}, max : Values \cup {NaN}]
  <2>1. NameOf(e, p) \in Names
    BY <1>3, HandleIs
  <2> DEFINE m == NameOf(e, p)
             d == [op |-> "set_range", name |-> m, min |-> line.min, max |-> line.max]
  <2>2. FllCall(e, p, line) = d
    BY <1>3 DEF FllCall
  <2>3. line.min \in Nat /\ line.max \in Nat
    <3> DEFINE V == Values \cup {NaN}
    <3>1. V \subseteq Nat
      BY FrontAssumption DEF NaN, FrontAssumption
    <3>2. line.min \in V /\ line.max \in V
      <4> HIDE DEF V
      <4> QED BY <1>3 DEF V
    <3> HIDE DEF V
    <3> QED BY <3>1, <3>2
  <2>4. d \in Line /\ d.op = "set_range" /\ d.name = m
    <3> HIDE DEF m
    <3> QED BY <2>1, <2>3 DEF Line, m
  <2> HIDE DEF d
  <2> QED BY <1>3, <2>2, <2>4 DEF OnVariable, Setters
<1> QED BY <1>1, <1>2, <1>3 DEF FllLines

\* One line of an FLL file.
LEMMA LoadedKeeps ==
    ASSUME NEW s, LoadKeeps(<<>>, s), NEW line \in FllLines
    PROVE  LoadKeeps(<<>>, LoadStep(<<>>, s, line))
<1> DEFINE p == IF line.op = "new" THEN NoHandle ELSE s.last
           e == s.e
           l == s.log
           o == s.open
           x == s.exact
           call == FllCall(e, p, line)
           f == Effect(e, p, call)
           last == IF line.op = "new" THEN <<line.kind, Len(e[line.kind]) + 1>> ELSE s.last
           m == Written(l, o, Filled(e, p, call))
           y == x /\ Expressible(e, o, call)
           t == [e |-> f, log |-> m, open |-> FALSE, exact |-> y, last |-> last]
<1>1. CASE line.op # "new" /\ p = NoHandle
  BY <1>1 DEF LoadStep, Loaded
<1>2. CASE ~(line.op # "new" /\ p = NoHandle)
  <2>1. LoadStep(<<>>, s, line) = t
    BY <1>2 DEF LoadStep, Loaded
  <2>2. /\ e \in Engine /\ l \in Seq(Line) /\ o \in BOOLEAN /\ x \in BOOLEAN
        /\ s.last \in Handles(e) \cup {NoHandle}
        /\ x => Distinct(e) /\ Replay(l) = e
    BY DEF LoadKeeps
  <2>3. /\ line.op = "new" => p = NoHandle
        /\ line.op # "new" => p \in Handles(e) /\ p = s.last
    BY <1>2, <2>2
  <2> HIDE DEF p, e, l, o, x
  <2>4. /\ call \in Line /\ call.op = line.op
        /\ line.op = "new" => /\ call = line /\ line.kind \in Kinds /\ line.name \in Names
                              /\ ~OnVariable(line)
        /\ line.op # "new" => /\ OnVariable(call) /\ line.op \in Setters
                              /\ call.name = NameOf(e, p)
    BY <2>2, <2>3, FllCallIs
  <2> HIDE DEF call
  <2>5. /\ OnVariable(call) => p \in Handles(e) /\ call.name = NameOf(e, p)
        /\ ~OnVariable(call) => p = NoHandle
    BY <2>3, <2>4
  <2>6. f \in Engine /\ m \in Seq(Line) /\ y \in BOOLEAN
    BY <2>2, <2>4, <2>5, CallTypes, ExpressibleType
  <2>7. y => Distinct(f) /\ Replay(m) = f
    BY <2>2, <2>4, <2>5, CallKeeps
  <2>8. last \in Handles(f) \cup {NoHandle}
    <3>1. CASE line.op = "new"
      <4>1. f = NewVariable(e, line.kind, line.name)
        BY <2>4, <3>1 DEF Effect
      <4>2. <<line.kind, Len(e[line.kind]) + 1>> \in Handles(f)
        BY <2>2, <2>4, <3>1, <4>1, NewVariableKeeps
      <4> QED BY <3>1, <4>2
    <3>2. CASE line.op # "new"
      <4>1. p \in Handles(f)
        BY <2>2, <2>4, <2>5, <3>2, EffectKeeps
      <4> QED BY <2>3, <3>2, <4>1
    <3> QED BY <3>1, <3>2
  <2> HIDE DEF f, m, y, last
  <2>9. LoadKeeps(<<>>, t)
    BY <2>6, <2>7, <2>8 DEF LoadKeeps
  <2> QED BY <2>1, <2>9
<1> QED BY <1>1, <1>2

-----------------------------------------------------------------------------
(* The steps                                                               *)

\* The calls of the client, on a variable of the engine.
LEMMA CallStep ==
    ASSUME FrontInv, NEW line \in Line, NEW p, Call(p, line),
           OnVariable(line) => p \in Handles(engine) /\ line.name = NameOf(engine, p),
           ~OnVariable(line) => p = NoHandle
    PROVE  FrontInv'
<1>1. /\ engine \in Engine /\ log \in Seq(Line) /\ open \in BOOLEAN /\ exact \in BOOLEAN
      /\ calls \in Nat /\ pc \in {"idle", "reading"}
      /\ exact => Distinct(engine) /\ Replay(log) = engine
  BY DEF FrontInv, FrontTypeOK
<1>2. /\ engine' = Effect(engine, p, line)
      /\ log' = Written(log, open, Filled(engine, p, line))
      /\ open' = ~LineEnds(Filled(engine, p, line))
      /\ exact' = (exact /\ Expressible(engine, open, line))
      /\ calls' = calls + 1 /\ pc' = pc
  BY DEF Call, Logs
<1>3. engine' \in Engine /\ log' \in Seq(Line)
  BY <1>1, <1>2, CallTypes
<1>4. open' \in BOOLEAN /\ exact' \in BOOLEAN
  BY <1>1, <1>2, ExpressibleType DEF LineEnds
<1>5. exact' => Distinct(engine') /\ Replay(log') = engine'
  <2> SUFFICES ASSUME exact' PROVE Distinct(engine') /\ Replay(log') = engine'
    OBVIOUS
  <2>1. exact /\ Expressible(engine, open, line)
    BY <1>2
  <2>2. Distinct(engine) /\ Replay(log) = engine
    BY <1>1, <2>1
  <2>3. /\ Distinct(Effect(engine, p, line))
        /\ Replay(Written(log, open, Filled(engine, p, line))) = Effect(engine, p, line)
    BY <1>1, <2>1, <2>2, CallKeeps
  <2> QED BY <1>2, <2>3
<1>6. calls' \in Nat /\ pc' \in {"idle", "reading"}
  BY <1>1, <1>2
<1>7. Distinct(engine)' <=> Distinct(engine')
  BY DEF Distinct, Handles, NameOf
<1>8. Replay(log)' = Replay(log')
  BY DEF Replay
<1> QED BY <1>3, <1>4, <1>5, <1>6, <1>7, <1>8 DEF FrontInv, FrontTypeOK

\* A log gets a line it may not express.
LEMMA LogsType ==
    ASSUME log \in Seq(Line), open \in BOOLEAN, NEW line \in Line, Logs(line)
    PROVE  log' \in Seq(Line) /\ open' \in BOOLEAN
BY DEF Logs, Written, LineEnds

LEMMA NewFailsStep ==
    ASSUME FrontInv, NEW k \in Kinds, NEW name \in Names, NewFails(k, name)
    PROVE  FrontInv'
<1>1. [op |-> "new", kind |-> k, name |-> name] \in Line
  BY DEF Line
<1>2. log' \in Seq(Line) /\ open' \in BOOLEAN
  BY <1>1, LogsType DEF NewFails, FrontInv, FrontTypeOK
<1>3. exact' = FALSE /\ engine' = engine /\ pc' = pc /\ calls' = calls + 1
  BY DEF NewFails
<1>4. engine' \in Engine /\ pc' \in {"idle", "reading"} /\ calls' \in Nat
  BY <1>3 DEF FrontInv, FrontTypeOK
<1> QED BY <1>2, <1>3, <1>4 DEF FrontInv, FrontTypeOK

LEMMA FinishStep ==
    ASSUME FrontInv, NEW read \in BOOLEAN, FinishProcess(read)
    PROVE  FrontInv'
<1> DEFINE line == [op |-> "process"]
<1>1. line \in Line /\ line.op = "process" /\ ~OnVariable(line)
  BY DEF Line, OnVariable
<1>2. /\ engine \in Engine /\ log \in Seq(Line) /\ open \in BOOLEAN /\ exact \in BOOLEAN
      /\ calls \in Nat
      /\ exact => Distinct(engine) /\ Replay(log) = engine
  BY DEF FrontInv, FrontTypeOK
<1>3. /\ exact' = (exact /\ read /\ ~open)
      /\ engine' = IF read THEN Process(engine) ELSE engine
      /\ log' = Written(log, open, line) /\ Logs(line)
      /\ pc' = "idle" /\ calls' = calls
  BY DEF FinishProcess, Logs
<1> HIDE DEF line
<1>4. log' \in Seq(Line) /\ open' \in BOOLEAN /\ exact' \in BOOLEAN
  BY <1>1, <1>2, <1>3, LogsType
<1>5. Effect(engine, NoHandle, line) = Process(engine) /\ Filled(engine, NoHandle, line) = line
  BY <1>1 DEF Effect, Filled
<1>6. engine' \in Engine
  BY <1>1, <1>2, <1>3, <1>5, EffectKeeps
<1>7. ASSUME exact' PROVE Distinct(engine') /\ Replay(log') = engine'
  <2>1. exact /\ read /\ ~open
    BY <1>3, <1>7
  <2>2. Expressible(engine, open, line)
    BY <1>1, <2>1 DEF Expressible
  <2> QED BY <1>1, <1>2, <1>3, <1>5, <2>1, <2>2, CallKeeps
<1>8. Distinct(engine)' <=> Distinct(engine')
  BY DEF Distinct, Handles, NameOf
<1>9. Replay(log)' = Replay(log')
  BY DEF Replay
<1> QED BY <1>2, <1>3, <1>4, <1>6, <1>7, <1>8, <1>9 DEF FrontInv, FrontTypeOK

LEMMA LoadFllStep ==
    ASSUME FrontInv, NEW file \in FllFiles, LoadFllFile(file)
    PROVE  FrontInv'
<1> DEFINE b == [e |-> engine, log |-> log, open |-> open, exact |-> exact, last |-> NoHandle]
           s == Loading!Folded(<<>>, b, file)
<1>1. FoldLeft(Loaded, b, file) = s
  BY DEF Loading!Folded, Loading!IterEq, Loading!Largest, Max, LoadStep, FoldLeft, MapThenFoldSet
<1>2. /\ engine' = s.e /\ log' = s.log /\ open' = s.open /\ exact' = s.exact
      /\ pc' = pc /\ calls' = calls + 1
  BY <1>1 DEF LoadFllFile
<1> HIDE DEF s
<1>3. LoadKeeps(<<>>, b)
  BY DEF LoadKeeps, FrontInv, FrontTypeOK
<1> HIDE DEF b
<1>4. file \in Seq(FllLines)
  BY FrontAssumption DEF FrontAssumption
<1>5. LoadKeeps(<<>>, s)
  <2>1. \A y : \A n \in 1..Len(file) : LoadKeeps(<<>>, y) => LoadKeeps(<<>>, LoadStep(<<>>, y, file[n]))
    <3>1. ASSUME NEW y, NEW n \in 1..Len(file), LoadKeeps(<<>>, y)
          PROVE  LoadKeeps(<<>>, LoadStep(<<>>, y, file[n]))
      <4>1. file[n] \in FllLines
        BY <1>4, ElementOfSeq
      <4> QED BY <3>1, <4>1, LoadedKeeps
    <3> QED BY <3>1
  <2> QED BY <1>3, <1>4, <2>1, Loading!FoldKeeps DEF s
<1>6. Distinct(engine)' <=> Distinct(engine')
  BY DEF Distinct, Handles, NameOf
<1>7. Replay(log)' = Replay(log')
  BY DEF Replay
<1>8. calls' \in Nat /\ pc' \in {"idle", "reading"}
  BY <1>2 DEF FrontInv, FrontTypeOK
<1> QED BY <1>2, <1>5, <1>6, <1>7, <1>8 DEF LoadKeeps, FrontInv, FrontTypeOK

\* The front keeps its invariant: handles are of variables the engine has,
\* and while the log expresses every call, names are distinct and the replay
\* of the log is the engine, in every state, the client's callback included.
THEOREM FrontSteady == FrontSpec => []FrontInv
<1>1. FrontInit => FrontInv
  <2>1. FrontInit => Replay(log) = engine
    <3>1. PICK x \in Line : TRUE
      <4>1. [op |-> "predict"] \in Line
        BY DEF Line
      <4> QED BY <4>1
    <3>2. Replay(<<>>) = NaiveNew
      <4>1. <<>> \in Seq(Line)
        OBVIOUS
      <4> QED BY <3>1, <4>1, ReplayAppend
    <3> QED BY <3>2 DEF FrontInit
  <2> SUFFICES ASSUME FrontInit PROVE FrontInv
    OBVIOUS
  <2>2. /\ engine = NaiveNew /\ log = <<>> /\ open = FALSE /\ pc = "idle" /\ calls = 0 /\ exact = TRUE
    BY DEF FrontInit
  <2>3. engine \in Engine /\ Distinct(engine)
    BY <2>2, NewIs
  <2>4. FrontTypeOK
    <3>1. log \in Seq(Line)
      BY <2>2
    <3>2. open \in BOOLEAN /\ exact \in BOOLEAN
      BY <2>2
    <3> QED BY <2>2, <2>3, <3>1, <3>2 DEF FrontTypeOK
  <2> QED BY <2>1, <2>3, <2>4 DEF FrontInv
<1>2. FrontInv /\ [FrontNext]_frontVars => FrontInv'
  <2> SUFFICES ASSUME FrontInv, [FrontNext]_frontVars PROVE FrontInv'
    OBVIOUS
  <2>1. ASSUME NEW n \in Names, NewInput(n) PROVE FrontInv'
    <3> DEFINE line == [op |-> "new", kind |-> "in", name |-> n]
    <3>1. line \in Line /\ ~OnVariable(line)
      BY DEF Line, Kinds, OnVariable
    <3>2. Call(NoHandle, line)
      BY <2>1 DEF NewInput
    <3> HIDE DEF line
    <3> QED BY <3>1, <3>2, CallStep
  <2>2. ASSUME NEW n \in Names, NewOutput(n) PROVE FrontInv'
    <3> DEFINE line == [op |-> "new", kind |-> "out", name |-> n]
    <3>1. line \in Line /\ ~OnVariable(line)
      BY DEF Line, Kinds, OnVariable
    <3>2. Call(NoHandle, line)
      BY <2>2 DEF NewOutput
    <3> HIDE DEF line
    <3> QED BY <3>1, <3>2, CallStep
  <2>3. ASSUME NEW n \in Names, NewFails("in", n) \/ NewFails("out", n) PROVE FrontInv'
    BY <2>3, NewFailsStep DEF Kinds
  <2>4. ASSUME NEW p \in Handles(engine) PROVE NameOf(engine, p) \in Names
    BY <2>4, HandleIs DEF FrontInv, FrontTypeOK
  <2>5. ASSUME NEW p \in Handles(engine), NEW v \in Values, VariableSetValue(p, v) PROVE FrontInv'
    <3> DEFINE m == NameOf(engine, p)
               line == [op |-> "set_value", name |-> m, val |-> v]
    <3>1. line \in Line /\ OnVariable(line) /\ line.name = m
      <4>1. m \in Names /\ v \in Nat
        BY <2>4, FrontAssumption DEF FrontAssumption
      <4> HIDE DEF m
      <4> QED BY <4>1 DEF Line, OnVariable
    <3>2. Call(p, line)
      BY <2>5 DEF VariableSetValue
    <3> HIDE DEF line
    <3> QED BY <3>1, <3>2, CallStep
  <2>6. ASSUME NEW p \in Handles(engine), NEW b \in BOOLEAN, VariableSetEnabled(p, b) PROVE FrontInv'
    <3> DEFINE m == NameOf(engine, p)
               line == [op |-> "set_enabled", name |-> m, on |-> b]
    <3>1. line \in Line /\ OnVariable(line) /\ line.name = m
      <4>1. m \in Names
        BY <2>4
      <4> HIDE DEF m
      <4> QED BY <4>1 DEF Line, OnVariable
    <3>2. Call(p, line)
      BY <2>6 DEF VariableSetEnabled
    <3> HIDE DEF line
    <3> QED BY <3>1, <3>2, CallStep
  <2>7. ASSUME NEW p \in Handles(engine), NEW min \in Values \cup {NaN}, NEW max \in Values \cup {NaN},
               VariableSetRange(p, min, max)
        PROVE  FrontInv'
    <3> DEFINE m == NameOf(engine, p)
               line == [op |-> "set_range", name |-> m, min |-> min, max |-> max]
    <3>1. line \in Line /\ OnVariable(line) /\ line.name = m
      <4>1. m \in Names /\ min \in Nat /\ max \in Nat
        BY <2>4, FrontAssumption DEF FrontAssumption, NaN
      <4> HIDE DEF m
      <4> QED BY <4>1 DEF Line, OnVariable
    <3>2. Call(p, line)
      BY <2>7 DEF VariableSetRange
    <3> HIDE DEF line
    <3> QED BY <3>1, <3>2, CallStep
  <2>8. ASSUME NEW p \in Handles(engine), RemoveVariableCall(p) PROVE FrontInv'
    <3> DEFINE m == NameOf(engine, p)
               line == [op |-> "remove", name |-> m]
    <3>1. line \in Line /\ OnVariable(line) /\ line.name = m
      <4>1. m \in Names
        BY <2>4
      <4> HIDE DEF m
      <4> QED BY <4>1 DEF Line, OnVariable
    <3>2. Call(p, line)
      BY <2>8 DEF RemoveVariableCall
    <3> HIDE DEF line
    <3> QED BY <3>1, <3>2, CallStep
  <2>9. ASSUME NEW b \in BOOLEAN, SetLearnDisabled(b) PROVE FrontInv'
    <3> DEFINE line == [op |-> "learn_disabled", on |-> b]
    <3>1. line \in Line /\ ~OnVariable(line)
      BY DEF Line, OnVariable
    <3>2. Call(NoHandle, line)
      BY <2>9 DEF SetLearnDisabled
    <3> HIDE DEF line
    <3> QED BY <3>1, <3>2, CallStep
  <2>10. ASSUME NEW op \in {"predict", "erase"}, Call(NoHandle, [op |-> op]) PROVE FrontInv'
    <3> DEFINE line == [op |-> op]
    <3>1. line \in Line /\ ~OnVariable(line)
      BY DEF Line, OnVariable
    <3>2. Call(NoHandle, line)
      BY <2>10
    <3> HIDE DEF line
    <3> QED BY <3>1, <3>2, CallStep
  <2>11. CASE Predict \/ EraseKnowledge
    BY <2>10, <2>11 DEF Predict, EraseKnowledge
  <2>12. CASE StartProcess
    BY <2>12 DEF StartProcess, FrontInv, FrontTypeOK
  <2>13. CASE UNCHANGED frontVars
    BY <2>13 DEF frontVars, FrontInv, FrontTypeOK
  <2> QED BY <2>1, <2>2, <2>3, <2>5, <2>6, <2>7, <2>8, <2>9, <2>11, <2>12, <2>13,
             FinishStep, LoadFllStep DEF FrontNext
<1> QED BY <1>1, <1>2, PTL DEF FrontSpec

\* A fresh engine that runs the debug log is the engine that wrote it,
\* unless a call was made that the log cannot express.
THEOREM FrontReplays == FrontSpec => []ReplayReproduces
<1>1. FrontInv => ReplayReproduces
  BY DEF FrontInv, ReplayReproduces
<1> QED BY <1>1, FrontSteady, PTL

-----------------------------------------------------------------------------
(* The lock thread_running and the thread it stands for, whatever the node *)
(* does in its handlers and in its thread: the same for both kinds of      *)
(* nodes.                                                                  *)

\* The three claims of MLBase about the thread, and what makes them inductive:
\* while the handle is not assigned the lock is already held.
LockInv == /\ LockMatchesThread
           /\ NeverStuck
           /\ ClosedWithoutThread
           /\ main = "assigning" => threadRunning /\ ~worker

\* The part of the type invariant that is about the thread.
ThreadTypeOK == /\ {worker, threadRunning, closing, feedbackPending} \subseteq BOOLEAN
                /\ main \in MainPhases

\* A handler that schedules a thread if there is none keeps the lock right.
LEMMA ScheduleKeepsLock ==
    ASSUME ThreadTypeOK, LockInv, Dispatching, ScheduleIfNeeded
    PROVE  LockInv' /\ ThreadTypeOK' /\ (thread' = thread \/ thread' = "start")
<1>1. CASE worker
  BY <1>1 DEF ScheduleIfNeeded, threadVars, LockInv, LockMatchesThread, NeverStuck,
              ClosedWithoutThread, ThreadTypeOK
<1>2. CASE ~worker
  <2>1. ~threadRunning /\ main = "idle"
    BY <1>2 DEF LockInv, LockMatchesThread, Dispatching
  <2>2. Schedule
    BY <1>2 DEF ScheduleIfNeeded
  <2>3. CASE threadRunning' = TRUE /\ thread' = "start" /\ main' = "assigning"
    BY <1>2, <2>1, <2>2, <2>3 DEF Schedule, LockInv, LockMatchesThread, NeverStuck,
       ClosedWithoutThread, ThreadTypeOK, MainPhases
  <2>4. CASE UNCHANGED <<threadRunning, thread, main>>
    BY <1>2, <2>1, <2>2, <2>4 DEF Schedule, LockInv, LockMatchesThread, NeverStuck,
       ClosedWithoutThread, ThreadTypeOK
  <2> QED BY <2>1, <2>2, <2>3, <2>4 DEF Schedule
<1> QED BY <1>1, <1>2

\* So does the report of a thread's end, with or without a successor.
LEMMA FinishedKeepsLock ==
    ASSUME ThreadTypeOK, LockInv, Reported, NEW more, Finished(more)
    PROVE  LockInv' /\ ThreadTypeOK' /\ thread' \in {"start", "none"}
<1>1. CASE threadRunning' = TRUE /\ thread' = "start" /\ main' = "assigning"
  BY <1>1 DEF Finished, LockInv, LockMatchesThread, NeverStuck, ClosedWithoutThread,
              ThreadTypeOK, MainPhases
<1>2. CASE threadRunning' = FALSE /\ thread' = "none" /\ main' = Resume
  BY <1>2 DEF Finished, Resume, LockInv, LockMatchesThread, NeverStuck, ClosedWithoutThread,
              ThreadTypeOK, MainPhases
<1> QED BY <1>1, <1>2 DEF Finished

\* The thread's own steps neither create nor end a thread.
LEMMA WorkerKeepsLock ==
    ASSUME LockInv, thread # "none", thread' # "none",
           UNCHANGED <<worker, threadRunning, main>>
    PROVE  LockInv'
  BY DEF LockInv, LockMatchesThread, NeverStuck, ClosedWithoutThread

\* The steps both kinds of nodes have.
LEMMA BaseStepsKeepLock ==
    ASSUME ThreadTypeOK, LockInv, NEW quiet,
           Save \/ Erase \/ LearnDisabled \/ DebugFile \/ Close(quiet)
             \/ BaseMainStep \/ BaseWorkerStep
    PROVE  /\ LockInv' /\ ThreadTypeOK'
           /\ thread' = thread \/ thread' \in {"start", "iterating", "done"}
<1> USE DEF LockInv, LockMatchesThread, NeverStuck, ClosedWithoutThread, ThreadTypeOK
<1>1. CASE UNCHANGED threadVars
  BY <1>1 DEF threadVars
<1>2. CASE Dispatching /\ ScheduleIfNeeded
  BY <1>2, ScheduleKeepsLock
<1>3. CASE Close(quiet)
  BY <1>3 DEF Close, Dispatching, MainPhases
<1>4. CASE Assign
  BY <1>4 DEF Assign, Resume, MainPhases
<1>5. CASE LockThreadRunning
  BY <1>5 DEF LockThreadRunning, MainPhases
<1>6. CASE RequestFeedback
  BY <1>6 DEF RequestFeedback
<1>7. CASE StopIterating
  BY <1>7 DEF StopIterating
<1> QED
  BY <1>1, <1>2, <1>3, <1>4, <1>5, <1>6, <1>7
     DEF Save, Erase, LearnDisabled, DebugFile, BaseMainStep, BaseWorkerStep

-----------------------------------------------------------------------------
(* The asynchronous node                                                   *)

NodeInv == NodeTypeOK /\ LockInv

\* Type correctness and the lock are one induction: both need to know where
\* the threads are.
LEMMA NodeInvariant == NodeSpec => []NodeInv
<1>1. NodeInit => NodeInv
  <2> SUFFICES ASSUME NodeInit PROVE NodeInv
    OBVIOUS
  <2>1. NodeTypeOK
    BY DEF NodeInit, BaseInit, NodeTypeOK, BaseTypeOK, MainPhases, ThreadPhases, Snapshot
  <2>2. LockInv
    BY DEF NodeInit, BaseInit, LockInv, LockMatchesThread, NeverStuck, ClosedWithoutThread
  <2> QED BY <2>1, <2>2 DEF NodeInv
<1>2. NodeInv /\ [NodeNext]_mlNodeVars => NodeInv'
  <2> SUFFICES ASSUME NodeInv, [NodeNext]_mlNodeVars PROVE NodeInv'
    OBVIOUS
  <2> USE DEF NodeInv, NodeTypeOK, BaseTypeOK
  <2>0. ThreadTypeOK
    BY DEF ThreadTypeOK
  <2>1. CASE Trigger
    BY <2>1 DEF Trigger, requestVars, threadVars, LockInv, LockMatchesThread, NeverStuck,
                ClosedWithoutThread
  <2>2. CASE PredictionTrigger
    <3>1. LockInv' /\ ThreadTypeOK' /\ thread' \in ThreadPhases
      BY <2>0, <2>2, ScheduleKeepsLock DEF PredictionTrigger, ThreadPhases
    <3> QED BY <2>2, <3>1 DEF PredictionTrigger, requestVars, ThreadTypeOK
  <2>3. CASE OutputVar
    BY <2>3 DEF OutputVar, requestVars, threadVars, LockInv, LockMatchesThread, NeverStuck,
                ClosedWithoutThread
  <2>4. CASE (BaseNext \/ NodeCloses \/ BaseMainStep \/ BaseWorkerStep) /\ UNCHANGED nodeVars
    <3>1. LockInv' /\ ThreadTypeOK' /\ thread' \in ThreadPhases
      BY <2>0, <2>4, BaseStepsKeepLock DEF BaseNext, NodeCloses, ThreadPhases
    <3>2. /\ {saveNeeded', eraseKnowledge', learnDisabled', debugFileChanged'} \subseteq BOOLEAN
          /\ owed' \subseteq {"erase", "process", "predict"}
      BY <2>4 DEF BaseNext, NodeCloses, BaseMainStep, BaseWorkerStep, Save, Erase, LearnDisabled,
         DebugFile, Close, Assign, LockThreadRunning, RequestFeedback, StopIterating, requestVars
    <3> QED BY <2>4, <3>1, <3>2 DEF nodeVars, ThreadTypeOK
  <2>5. CASE NodeFeedback
    BY <2>5 DEF NodeFeedback, Dispatching, requestVars, MainPhases, LockInv, LockMatchesThread,
                NeverStuck, ClosedWithoutThread
  <2>6. CASE Announce
    <3>1. sendFinished' \in BOOLEAN
      BY <2>6 DEF Announce, AnnounceFinished
    <3>2. LockInv'
      BY <2>6 DEF Announce, LockInv, LockMatchesThread, NeverStuck, ClosedWithoutThread
    <3> QED BY <2>6, <3>1, <3>2 DEF Announce, requestVars, MainPhases
  <2>7. CASE NodeWorkerFinished
    <3>1. LockInv' /\ ThreadTypeOK' /\ thread' \in ThreadPhases
      BY <2>0, <2>7, FinishedKeepsLock DEF NodeWorkerFinished, NodeMoreToDo, ThreadPhases
    <3> QED BY <2>7, <3>1 DEF NodeWorkerFinished, NodeMoreToDo, AnnounceFinished, requestVars, ThreadTypeOK
  <2>8. CASE Setup \/ TakeSnapshot \/ EraseEngine \/ SaveEngine \/ ReadState \/ Commit
               \/ \E announced \in BOOLEAN : RunEngine(announced)
    <3> USE DEF Setup, TakeSnapshot, Flags, EraseEngine, SaveEngine, ReadState, RunEngine, Commit
    <3>1. thread # "none" /\ thread' # "none" /\ UNCHANGED <<worker, threadRunning, main>>
      BY <2>8
    <3>2. LockInv'
      BY <3>1, WorkerKeepsLock
    <3>3. thread' \in ThreadPhases
      BY <2>8 DEF ThreadPhases
    <3>4. BaseTypeOK'
      BY <2>8 DEF requestVars
    <3>5. /\ {processNeeded', predictNeeded', sendFinished', runProcess', prediction'}
               \subseteq BOOLEAN
          /\ snapshot' \in Snapshot
      <4>1. CASE Setup \/ EraseEngine \/ SaveEngine \/ ReadState
        BY <4>1 DEF nodeVars
      <4>2. CASE TakeSnapshot
        BY <4>2 DEF Snapshot
      <4>3. CASE Commit
        <5>1. /\ predictNeeded' \in BOOLEAN /\ processNeeded' \in BOOLEAN
              /\ sendFinished' \in BOOLEAN
          BY <4>3
        <5> QED BY <4>3, <5>1
      <4>4. ASSUME NEW announced \in BOOLEAN, RunEngine(announced)
            PROVE  /\ {processNeeded', predictNeeded', sendFinished', runProcess', prediction'}
                        \subseteq BOOLEAN
                   /\ snapshot' \in Snapshot
        <5>1. runProcess' \in BOOLEAN /\ prediction' \in BOOLEAN
          BY <4>4
        <5> QED BY <4>4, <5>1
      <4> QED BY <2>8, <4>1, <4>2, <4>3, <4>4
    <3> QED BY <3>2, <3>3, <3>4, <3>5
  <2>9. CASE UNCHANGED mlNodeVars
    BY <2>9 DEF mlNodeVars, requestVars, threadVars, nodeVars, LockInv, LockMatchesThread, NeverStuck,
                ClosedWithoutThread
  <2> QED
    BY <2>1, <2>2, <2>3, <2>4, <2>5, <2>6, <2>7, <2>8, <2>9
       DEF NodeNext, NodeClientStep, NodeMainStep, NodeWorkerStep
<1> QED BY <1>1, <1>2, PTL DEF NodeSpec

\* The variables of a node keep their types.
THEOREM NodeTypeCorrect == NodeSpec => []NodeTypeOK
  BY NodeInvariant, PTL DEF NodeInv

\* The main thread never locks thread_running while it is held.
THEOREM NodeNeverStuck == NodeSpec => []NeverStuck
  BY NodeInvariant, PTL DEF NodeInv, LockInv

\* thread_running is held exactly as long as there is a thread, and base.worker
\* tells the handlers so.
THEOREM NodeLockMatchesThread == NodeSpec => []LockMatchesThread
  BY NodeInvariant, PTL DEF NodeInv, LockInv

\* A closed node has no thread that could use the freed engine.
THEOREM NodeClosedWithoutThread == NodeSpec => []ClosedWithoutThread
  BY NodeInvariant, PTL DEF NodeInv, LockInv

\* A request to erase the knowledge is noted until the engine is erased, in
\* whatever phase of an iteration it arrives.
THEOREM NodeEraseNotForgotten == NodeSpec => []EraseNotForgotten
<1>1. NodeInit => EraseNotForgotten
  BY DEF NodeInit, BaseInit, EraseNotForgotten
<1>2. EraseNotForgotten /\ NodeInv /\ [NodeNext]_mlNodeVars => EraseNotForgotten'
  <2> SUFFICES ASSUME EraseNotForgotten, NodeInv, [NodeNext]_mlNodeVars PROVE EraseNotForgotten'
    OBVIOUS
  <2> USE DEF EraseNotForgotten
  <2>1. CASE Erase
    BY <2>1 DEF Erase
  <2>2. CASE TakeSnapshot
    BY <2>2 DEF TakeSnapshot, Flags
  <2>3. CASE EraseEngine
    BY <2>3 DEF EraseEngine, requestVars
  <2>4. CASE SaveEngine \/ ReadState
    BY <2>4 DEF SaveEngine, ReadState, requestVars
  \* Every other step leaves the request, its flag and the snapshot alone, and
  \* no thread is replaced while it is erasing.
  <2>5. CASE /\ "erase" \in owed' => "erase" \in owed
             /\ UNCHANGED <<eraseKnowledge, snapshot>>
             /\ thread = "erasing" => thread' = thread
    BY <2>5
  <2>6. ASSUME ScheduleIfNeeded, Dispatching, thread = "erasing" PROVE thread' = thread
    BY <2>6 DEF ScheduleIfNeeded, Schedule, threadVars, Dispatching, NodeInv, LockInv,
       LockMatchesThread
  <2>7. CASE NodeNext /\ ~(Erase \/ TakeSnapshot \/ EraseEngine \/ SaveEngine \/ ReadState)
    <3>1. "erase" \in owed' => "erase" \in owed
      BY <2>7 DEF NodeNext, NodeClientStep, NodeMainStep, NodeWorkerStep, Trigger, PredictionTrigger, OutputVar,
         BaseNext, NodeCloses, BaseMainStep, BaseWorkerStep, Save, LearnDisabled, DebugFile,
         Close, Assign, LockThreadRunning, RequestFeedback, StopIterating, NodeFeedback, Announce,
         NodeWorkerFinished, Setup, RunEngine, Commit, mlNodeVars
    <3>2. UNCHANGED <<eraseKnowledge, snapshot>>
      BY <2>7 DEF NodeNext, NodeClientStep, NodeMainStep, NodeWorkerStep, Trigger, PredictionTrigger, OutputVar,
         BaseNext, NodeCloses, BaseMainStep, BaseWorkerStep, Save, LearnDisabled, DebugFile,
         Close, Assign, LockThreadRunning, RequestFeedback, StopIterating, NodeFeedback, Announce,
         NodeWorkerFinished, Setup, RunEngine, Commit, requestVars, nodeVars
    <3>3. thread = "erasing" => thread' = thread
      BY <2>6, <2>7 DEF NodeNext, NodeClientStep, NodeMainStep, NodeWorkerStep, Trigger, PredictionTrigger,
         OutputVar, BaseNext, NodeCloses, BaseMainStep, BaseWorkerStep, Save, LearnDisabled,
         DebugFile, Close, Assign, LockThreadRunning, RequestFeedback, StopIterating, NodeFeedback,
         Announce, NodeWorkerFinished, Reported, Setup, RunEngine, Commit, threadVars
    <3> QED BY <2>5, <3>1, <3>2, <3>3
  <2>8. CASE UNCHANGED mlNodeVars
    BY <2>8 DEF mlNodeVars, requestVars, threadVars, nodeVars
  <2> QED BY <2>1, <2>2, <2>3, <2>4, <2>7, <2>8
<1> QED BY <1>1, <1>2, NodeInvariant, PTL DEF NodeSpec

-----------------------------------------------------------------------------
(* The synchronous node                                                    *)

\* The engine has a packet exactly while the thread serves one.
CurrentMatchesThread == current = <<>> <=> thread # "serving"

SyncInv == TypeOK /\ LockInv /\ CurrentMatchesThread

\* Facts about the queues.
LEMMA QueueTypes ==
    ASSUME TypeOK
    PROVE  /\ current \in Seq(Packets) /\ inputQueue \in Seq(Packets)
           /\ outputQueue \in Seq(Packets) /\ sent \in Seq(Packets)
           /\ accepted \in Nat /\ asked \in Nat /\ done \in Nat
<1> MaxPackets \in Nat /\ MaxErases \in Nat
  BY MLSyncNodeAssumption
<1> QED BY DEF TypeOK

\* Type correctness, the lock and the packet in service are one induction.
LEMMA SyncInvariant == Spec => []SyncInv
<1>1. Init => SyncInv
  <2> SUFFICES ASSUME Init PROVE SyncInv
    OBVIOUS
  <2>1. MaxPackets \in Nat /\ MaxErases \in Nat
    BY MLSyncNodeAssumption
  <2>2. BaseTypeOK /\ thread = "none"
    BY DEF Init, BaseInit, BaseTypeOK, MainPhases
  <2>3. TypeOK
    BY <2>1, <2>2 DEF Init, TypeOK
  <2>4. LockInv /\ CurrentMatchesThread
    BY DEF Init, BaseInit, LockInv, LockMatchesThread, NeverStuck, ClosedWithoutThread,
       CurrentMatchesThread
  <2> QED BY <2>3, <2>4 DEF SyncInv
<1>2. SyncInv /\ [Next]_vars => SyncInv'
  <2> SUFFICES ASSUME SyncInv, [Next]_vars PROVE SyncInv'
    OBVIOUS
  <2> USE DEF SyncInv, TypeOK, BaseTypeOK
  <2>0. ThreadTypeOK
    BY DEF ThreadTypeOK
  <2>1. ASSUME NEW predict \in BOOLEAN, Accept(predict) PROVE SyncInv'
    <3>1. LockInv' /\ ThreadTypeOK' /\ (thread' = thread \/ thread' = "start")
      BY <2>0, <2>1, ScheduleKeepsLock DEF Accept, Queued, Packet
    <3>2. thread = "serving" => thread' = "serving"
      BY <2>1 DEF Accept, Queued, Packet, ScheduleIfNeeded, Schedule, threadVars, Dispatching,
         LockInv, LockMatchesThread
    <3>3. [n |-> accepted + 1, predict |-> predict, erases |-> asked] \in Packets
      BY <2>1, MLSyncNodeAssumption DEF Accept, Queued, Packet, Packets
    <3>4. inputQueue' \in Seq(Packets) /\ accepted' \in 0..MaxPackets
      BY <2>1, <3>3, MLSyncNodeAssumption DEF Accept, Queued, Packet
    <3> QED BY <2>1, <3>1, <3>2, <3>4 DEF Accept, Queued, Packet, requestVars, ThreadTypeOK,
            CurrentMatchesThread
  <2>2. CASE EraseSync \/ ((Save \/ LearnDisabled \/ DebugFile \/ CloseNode \/ BaseMainStep
                              \/ BaseWorkerStep) /\ UNCHANGED syncVars)
    <3>1. /\ LockInv' /\ ThreadTypeOK'
          /\ thread' = thread \/ thread' \in {"start", "iterating", "done"}
      BY <2>0, <2>2, BaseStepsKeepLock DEF EraseSync, CloseNode
    <3>2. thread = "serving" => thread' = "serving"
      BY <2>2 DEF EraseSync, Save, Erase, LearnDisabled, DebugFile, CloseNode, Close, Assign,
         LockThreadRunning, RequestFeedback, StopIterating, BaseMainStep, BaseWorkerStep,
         ScheduleIfNeeded, Schedule, threadVars, Dispatching, LockInv, LockMatchesThread
    <3>3. /\ {saveNeeded', eraseKnowledge', learnDisabled', debugFileChanged'} \subseteq BOOLEAN
          /\ owed' \subseteq {"erase", "process", "predict"}
      BY <2>2 DEF EraseSync, CloseNode, BaseMainStep, BaseWorkerStep, Save, Erase, LearnDisabled,
         DebugFile, Close, Assign, LockThreadRunning, RequestFeedback, StopIterating, requestVars
    <3>4. asked' \in 0..MaxErases
      BY <2>2, MLSyncNodeAssumption DEF EraseSync, syncVars
    <3> QED BY <2>2, <3>1, <3>2, <3>3, <3>4 DEF EraseSync, syncVars, ThreadTypeOK,
            CurrentMatchesThread
  <2>3. CASE Feedback \/ WorkerFinished
    <3>1. LockInv' /\ ThreadTypeOK' /\ (thread' = thread \/ thread' \in {"start", "none"})
      <4>1. CASE Feedback
        BY <2>0, <4>1 DEF Feedback, ThreadTypeOK, LockInv, LockMatchesThread, NeverStuck,
           ClosedWithoutThread
      <4>2. CASE WorkerFinished
        BY <2>0, <4>2, FinishedKeepsLock DEF WorkerFinished, MoreToDo
      <4> QED BY <2>3, <4>1, <4>2
    <3>2. thread = "serving" => thread' = "serving"
      BY <2>3 DEF Feedback, WorkerFinished, MoreToDo, Reported
    <3>3. sent' \in Seq(Packets) /\ outputQueue' \in Seq(Packets)
      <4>1. sent \o outputQueue \in Seq(Packets) /\ <<>> \in Seq(Packets)
        BY QueueTypes, ConcatProperties
      <4> QED BY <2>3, <4>1 DEF Feedback, WorkerFinished, MoreToDo, SendOutputs
    <3> QED BY <2>3, <3>1, <3>2, <3>3 DEF Feedback, WorkerFinished, MoreToDo, requestVars,
            ThreadTypeOK, CurrentMatchesThread
  <2>4. CASE Start \/ Take \/ \E announced \in BOOLEAN : ServePacket(announced)
    <3> USE DEF Start, Take, Done, ServePacket
    <3>1. thread # "none" /\ thread' # "none" /\ UNCHANGED <<worker, threadRunning, main>>
      BY <2>4
    <3>2. LockInv'
      BY <3>1, WorkerKeepsLock
    <3>3. BaseTypeOK'
      BY <2>4 DEF requestVars
    <3>4. CASE Start
      BY <3>2, <3>3, <3>4 DEF syncVars, CurrentMatchesThread
    <3>5. CASE Take
      <4>1. CASE inputQueue = <<>>
        BY <3>2, <3>3, <3>5, <4>1 DEF CurrentMatchesThread
      <4>2. CASE inputQueue # <<>>
        <5>1. Head(inputQueue) \in Packets /\ Tail(inputQueue) \in Seq(Packets)
          BY <4>2
        <5>2. /\ current' = <<Head(inputQueue)>> /\ inputQueue' = Tail(inputQueue)
              /\ thread' = "serving"
              /\ UNCHANGED <<outputQueue, sent, accepted, asked>>
          BY <3>5, <4>2
        <5>3. current' \in Seq(Packets) /\ Len(current') = 1 /\ current' # <<>>
          BY <5>1, <5>2
        <5>4. done' \in 0..MaxErases
          BY <3>5
        <5> QED BY <3>2, <3>3, <5>1, <5>2, <5>3, <5>4 DEF CurrentMatchesThread
      <4> QED BY <4>1, <4>2
    <3>6. ASSUME NEW announced \in BOOLEAN, ServePacket(announced) PROVE SyncInv'
      <4>1. outputQueue \o current \in Seq(Packets)
        BY QueueTypes, ConcatProperties
      <4> QED BY <3>2, <3>3, <3>6, <4>1 DEF CurrentMatchesThread
    <3> QED BY <2>4, <3>4, <3>5, <3>6
  <2>5. CASE UNCHANGED vars
    BY <2>5 DEF vars, requestVars, threadVars, syncVars, LockInv, LockMatchesThread, NeverStuck,
                ClosedWithoutThread, CurrentMatchesThread
  <2> QED BY <2>1, <2>2, <2>3, <2>4, <2>5 DEF Next, ClientStep, MainStep, WorkerStep
<1> QED BY <1>1, <1>2, PTL DEF Spec

\* The variables of a synchronous node keep their types.
THEOREM SyncTypeCorrect == Spec => []TypeOK
  BY SyncInvariant, PTL DEF SyncInv

\* The main thread never locks thread_running while it is held.
THEOREM SyncNeverStuck == Spec => []NeverStuck
  BY SyncInvariant, PTL DEF SyncInv, LockInv

\* A closed node has no thread that could use the freed engine.
THEOREM SyncClosedWithoutThread == Spec => []ClosedWithoutThread
  BY SyncInvariant, PTL DEF SyncInv, LockInv

-----------------------------------------------------------------------------
(* Erase requests and packets *)

\* Every request noted is either still noted or carried out, and no packet in
\* the queue came after more requests than were noted.
EraseInv == /\ done <= asked
            /\ eraseKnowledge \/ done = asked
            /\ \A k \in 1..Len(inputQueue) : inputQueue[k].erases <= asked
            /\ \A k \in 1..Len(current) : current[k].erases <= done

\* What the steps that are not about erasing leave alone.
LEMMA OtherStepsKeepData ==
    ASSUME Next,
           ~\E predict \in BOOLEAN : Accept(predict),
           ~(EraseSync \/ Feedback \/ WorkerFinished \/ Take),
           ~\E announced \in BOOLEAN : ServePacket(announced)
    PROVE  UNCHANGED <<syncVars, eraseKnowledge>>
  BY DEF Next, ClientStep, MainStep, WorkerStep, Save, LearnDisabled, DebugFile, CloseNode,
     Close, BaseMainStep, Assign, LockThreadRunning, BaseWorkerStep, RequestFeedback,
     StopIterating, Start, requestVars

\* A packet accepted after an erase request is processed by an erased engine.
THEOREM SyncErasedBefore == Spec => []ErasedBefore
<1>1. Init => EraseInv
  BY DEF Init, BaseInit, EraseInv
<1>2. EraseInv /\ SyncInv /\ [Next]_vars => EraseInv'
  <2> SUFFICES ASSUME EraseInv, SyncInv, [Next]_vars PROVE EraseInv'
    OBVIOUS
  <2>0. /\ inputQueue \in Seq(Packets) /\ current \in Seq(Packets)
        /\ asked \in Nat /\ done \in Nat /\ Len(current) <= 1
        /\ \A p \in Packets : p.erases \in Nat
    BY QueueTypes, MLSyncNodeAssumption DEF SyncInv, TypeOK, Packets
  <2>1. ASSUME NEW predict \in BOOLEAN, Accept(predict) PROVE EraseInv'
    <3> DEFINE p == [n |-> accepted + 1, predict |-> predict, erases |-> asked]
    <3>1. p \in Packets /\ p.erases = asked
      BY <2>1, MLSyncNodeAssumption DEF Accept, Queued, Packet, Packets, SyncInv, TypeOK
    <3>2. /\ inputQueue' = Append(inputQueue, p)
          /\ UNCHANGED <<asked, done, current, eraseKnowledge>>
      BY <2>1 DEF Accept, Queued, Packet, requestVars
    <3> HIDE DEF p
    <3>3. ASSUME NEW k \in 1..Len(inputQueue') PROVE inputQueue'[k].erases <= asked
      <4>1. k \in 1..Len(inputQueue) \/ k = Len(inputQueue) + 1
        BY <2>0, <3>1, <3>2
      <4>2. k \in 1..Len(inputQueue) => inputQueue'[k] = inputQueue[k]
        BY <2>0, <3>1, <3>2
      <4>3. k = Len(inputQueue) + 1 => inputQueue'[k] = p
        BY <2>0, <3>1, <3>2
      <4> QED BY <2>0, <3>1, <4>1, <4>2, <4>3 DEF EraseInv
    <3> QED BY <3>2, <3>3 DEF EraseInv
  <2>2. CASE EraseSync
    <3>1. asked' = IF eraseKnowledge THEN asked ELSE asked + 1
      BY <2>2 DEF EraseSync
    <3>2. eraseKnowledge' = TRUE /\ UNCHANGED <<inputQueue, current, done>>
      BY <2>2 DEF EraseSync, Erase
    <3>3. asked <= asked' /\ asked' \in Nat
      BY <2>0, <3>1
    <3>4. done <= asked'
      BY <2>0, <3>3 DEF EraseInv
    <3>5. ASSUME NEW k \in 1..Len(inputQueue) PROVE inputQueue[k].erases <= asked'
      <4>1. inputQueue[k].erases \in Nat /\ inputQueue[k].erases <= asked
        BY <2>0 DEF EraseInv
      <4> QED BY <2>0, <3>3, <4>1
    <3> QED BY <3>2, <3>4, <3>5 DEF EraseInv
  <2>3. CASE Feedback \/ WorkerFinished
    BY <2>3 DEF Feedback, WorkerFinished, MoreToDo, requestVars, EraseInv
  <2>4. CASE Take
    <3>1. done' = asked /\ UNCHANGED asked
      BY <2>4 DEF Take, Done, EraseInv
    <3>2. CASE inputQueue = <<>>
      <4>1. current' = <<>> /\ inputQueue' = <<>>
        BY <2>4, <3>2 DEF Take, Done, SyncInv, CurrentMatchesThread
      <4> QED BY <2>0, <3>1, <4>1 DEF EraseInv
    <3>3. CASE inputQueue # <<>>
      <4>1. current' = <<inputQueue[1]>> /\ inputQueue' = Tail(inputQueue)
        BY <2>0, <2>4, <3>3 DEF Take, Done
      <4>2. \A k \in 1..Len(inputQueue') : inputQueue'[k].erases <= asked
        BY <2>0, <3>3, <4>1, HeadTailProperties DEF EraseInv
      <4>3. \A k \in 1..Len(current') : current'[k].erases <= asked
        BY <2>0, <3>3, <4>1 DEF EraseInv
      <4> QED BY <2>0, <3>1, <4>2, <4>3 DEF EraseInv
    <3> QED BY <3>2, <3>3
  <2>5. ASSUME NEW announced \in BOOLEAN, ServePacket(announced) PROVE EraseInv'
    BY <2>5 DEF ServePacket, requestVars, EraseInv
  <2>6. CASE UNCHANGED <<syncVars, eraseKnowledge>>
    BY <2>6 DEF syncVars, EraseInv
  <2>7. CASE UNCHANGED vars
    BY <2>6, <2>7 DEF vars, requestVars
  <2> QED BY <2>1, <2>2, <2>3, <2>4, <2>5, <2>6, <2>7, OtherStepsKeepData
<1>3. EraseInv /\ SyncInv => ErasedBefore
  BY QueueTypes DEF EraseInv, SyncInv, ErasedBefore
<1> QED BY <1>1, <1>2, <1>3, SyncInvariant, PTL DEF Spec
-----------------------------------------------------------------------------
(* The order of packets *)

Out == sent \o outputQueue
Begun == accepted - Len(inputQueue)   \* packets the thread has taken so far

\* The queue holds the packets after the ones taken, the engine has the last
\* one taken, and outputs belong to earlier ones, in order.
OrderInv ==
    /\ Len(inputQueue) <= accepted
    /\ \A k \in 1..Len(inputQueue) : inputQueue[k].n = Begun + k
    /\ \A k \in 1..Len(current) : current[k].n = Begun
    /\ \A k \in 1..Len(Out) : Out[k].n + Len(current) <= Begun
    /\ \A j, k \in 1..Len(Out) : j < k => Out[j].n < Out[k].n

LEMMA OrderTypes ==
    ASSUME SyncInv
    PROVE  /\ inputQueue \in Seq(Packets) /\ Len(inputQueue) \in Nat
           /\ current \in Seq(Packets) /\ Len(current) \in Nat /\ Len(current) <= 1
           /\ Out \in Seq(Packets) /\ Len(Out) \in Nat
           /\ accepted \in Nat /\ Begun \in Int
           /\ \A p \in Packets : p.n \in Nat
  BY QueueTypes, ConcatProperties DEF SyncInv, TypeOK, Out, Begun, Packets

\* A packet in service is the only one.
LEMMA PacketInService ==
    ASSUME SyncInv, current # <<>>
    PROVE  Len(current) = 1 /\ current[1] \in Packets /\ current = <<current[1]>>
<1>1. current \in Seq(Packets) /\ Len(current) <= 1
  BY QueueTypes DEF SyncInv, TypeOK
<1>2. Len(current) \in Nat \ {0}
  BY <1>1, EmptySeq
<1>3. Len(current) = 1
  <2>1. \A n \in Nat \ {0} : n <= 1 => n = 1
    OBVIOUS
  <2> QED BY <1>1, <1>2, <2>1, Zenon
<1>4. current[1] \in Packets
  BY <1>1, <1>3
<1>5. \A i \in 1..Len(current) : current[i] = <<current[1]>>[i]
  BY <1>3
<1>6. <<current[1]>> \in Seq(Packets) /\ Len(<<current[1]>>) = 1
  BY <1>4
<1>7. current = <<current[1]>>
  BY <1>1, <1>3, <1>5, <1>6, SeqEqual
<1> QED BY <1>3, <1>4, <1>7

\* The numbering of the packets along the queues holds of every state.
LEMMA SyncOrder == Spec => []OrderInv
<1>1. Init => OrderInv
  BY DEF Init, OrderInv, Out, Begun
<1>2. OrderInv /\ SyncInv /\ [Next]_vars => OrderInv'
  <2> SUFFICES ASSUME OrderInv, SyncInv, [Next]_vars PROVE OrderInv'
    OBVIOUS
  <2>0. /\ inputQueue \in Seq(Packets) /\ Len(inputQueue) \in Nat
        /\ current \in Seq(Packets) /\ Len(current) \in Nat /\ Len(current) <= 1
        /\ Out \in Seq(Packets) /\ Len(Out) \in Nat
        /\ accepted \in Nat /\ Begun \in Int
        /\ \A p \in Packets : p.n \in Nat
    BY OrderTypes
  <2>1. ASSUME NEW predict \in BOOLEAN, Accept(predict) PROVE OrderInv'
    <3> DEFINE p == [n |-> accepted + 1, predict |-> predict, erases |-> asked]
    <3>1. p \in Packets /\ p.n = accepted + 1
      BY <2>1, MLSyncNodeAssumption DEF Accept, Queued, Packet, Packets, SyncInv, TypeOK
    <3>2. /\ inputQueue' = Append(inputQueue, p)
          /\ accepted' = accepted + 1
          /\ UNCHANGED <<current, sent, outputQueue>>
      BY <2>1 DEF Accept, Queued, Packet
    <3> HIDE DEF p
    <3>3. Len(inputQueue') = Len(inputQueue) + 1 /\ Begun' = Begun /\ Out' = Out
      BY <2>0, <3>1, <3>2 DEF Begun, Out
    <3>4. ASSUME NEW k \in 1..Len(inputQueue') PROVE inputQueue'[k].n = Begun + k
      <4>1. k \in 1..Len(inputQueue) \/ k = Len(inputQueue) + 1
        BY <2>0, <3>3
      <4>2. k \in 1..Len(inputQueue) => inputQueue'[k] = inputQueue[k]
        BY <2>0, <3>1, <3>2
      <4>3. k = Len(inputQueue) + 1 => inputQueue'[k] = p
        BY <2>0, <3>1, <3>2
      <4>4. CASE k \in 1..Len(inputQueue)
        BY <4>2, <4>4 DEF OrderInv
      <4>5. CASE k = Len(inputQueue) + 1
        <5>1. accepted + 1 = Begun + (Len(inputQueue) + 1)
          BY <2>0 DEF Begun
        <5> QED BY <3>1, <4>3, <4>5, <5>1, Zenon
      <4> QED BY <4>1, <4>4, <4>5
    <3>5. Len(inputQueue') <= accepted'
      BY <2>0, <3>2, <3>3 DEF OrderInv
    <3> QED BY <3>2, <3>3, <3>4, <3>5 DEF OrderInv
  <2>2. CASE Feedback \/ WorkerFinished
    <3>1. sent' = Out /\ outputQueue' = <<>> /\ UNCHANGED <<inputQueue, current, accepted>>
      BY <2>2 DEF Feedback, WorkerFinished, MoreToDo, SendOutputs, Out
    <3>2. Out' = Out
      BY <2>0, <3>1, ConcatEmptySeq DEF Out
    <3> QED BY <3>1, <3>2 DEF OrderInv, Begun
  <2>3. CASE Take
    <3>1. UNCHANGED <<accepted, sent, outputQueue>> /\ current = <<>>
      BY <2>3 DEF Take, Done, SyncInv, CurrentMatchesThread
    <3>2. Out' = Out
      BY <3>1 DEF Out
    <3>3. CASE inputQueue = <<>>
      BY <2>3, <3>1, <3>2, <3>3 DEF Take, Done, OrderInv, Begun
    <3>4. CASE inputQueue # <<>>
      <4>1. current' = <<inputQueue[1]>> /\ inputQueue' = Tail(inputQueue)
        BY <2>0, <2>3, <3>4 DEF Take, Done
      <4>2. /\ Len(inputQueue) >= 1 /\ Len(inputQueue') = Len(inputQueue) - 1
            /\ \A k \in 1..Len(inputQueue') : inputQueue'[k] = inputQueue[k + 1]
        BY <2>0, <3>4, <4>1, HeadTailProperties
      <4>3. Begun' = Begun + 1
        BY <2>0, <3>1, <4>2 DEF Begun
      <4>4. ASSUME NEW k \in 1..Len(inputQueue') PROVE inputQueue'[k].n = Begun' + k
        <5>1. k + 1 \in 1..Len(inputQueue) /\ inputQueue'[k] = inputQueue[k + 1]
          BY <2>0, <4>2
        <5>2. inputQueue[k + 1].n = Begun + (k + 1)
          BY <5>1 DEF OrderInv
        <5> QED BY <2>0, <4>3, <5>1, <5>2
      <4>5. inputQueue[1].n = Begun'
        BY <2>0, <4>2, <4>3 DEF OrderInv
      <4>6. \A k \in 1..Len(current') : current'[k].n = Begun'
        BY <4>1, <4>5
      <4>7. ASSUME NEW k \in 1..Len(Out) PROVE Out[k].n + Len(current') <= Begun'
        <5>1. Out[k].n \in Nat /\ Out[k].n <= Begun
          BY <2>0, <3>1 DEF OrderInv
        <5> QED BY <2>0, <4>1, <4>3, <5>1
      <4>8. Len(inputQueue') <= accepted'
        BY <2>0, <3>1, <4>2 DEF OrderInv
      <4> QED BY <3>2, <4>4, <4>6, <4>7, <4>8 DEF OrderInv
    <3> QED BY <3>3, <3>4
  <2>4. ASSUME NEW announced \in BOOLEAN, ServePacket(announced) PROVE OrderInv'
    <3>1. /\ current' = <<>> /\ UNCHANGED <<inputQueue, accepted, sent>>
          /\ outputQueue' = IF announced THEN outputQueue \o current ELSE outputQueue
          /\ current # <<>>
      BY <2>4 DEF ServePacket, SyncInv, CurrentMatchesThread
    <3>2. Begun' = Begun /\ Len(current') = 0 /\ Len(current) = 1
      BY <3>1, PacketInService DEF Begun
    <3>3. CASE ~announced
      <4>1. Out' = Out
        BY <3>1, <3>3 DEF Out
      <4>2. ASSUME NEW k \in 1..Len(Out) PROVE Out[k].n + 0 <= Begun
        <5>1. Out[k].n \in Nat /\ Out[k].n + 1 <= Begun
          BY <2>0, <3>2 DEF OrderInv
        <5> QED BY <2>0, <5>1
      <4> QED BY <3>1, <3>2, <4>1, <4>2 DEF OrderInv
    <3>4. CASE announced
      <4>1. Out' = Out \o current
        <5>1. Out' = sent \o (outputQueue \o current)
          BY <3>1, <3>4 DEF Out
        <5>2. /\ sent \in Seq(Packets) /\ outputQueue \in Seq(Packets)
              /\ current \in Seq(Packets)
          BY QueueTypes DEF SyncInv
        <5>3. (sent \o outputQueue) \o current = sent \o (outputQueue \o current)
          BY <5>2, ConcatAssociative
        <5> QED BY <5>1, <5>3 DEF Out
      <4>2. /\ Len(Out') = Len(Out) + 1
            /\ \A k \in 1..Len(Out) : Out'[k] = Out[k]
            /\ Out'[Len(Out) + 1] = current[1]
        <5>1. /\ Len(Out \o current) = Len(Out) + Len(current)
              /\ \A i \in 1..Len(Out) + Len(current) :
                    (Out \o current)[i] = IF i <= Len(Out) THEN Out[i] ELSE current[i - Len(Out)]
          BY <2>0, ConcatProperties
        <5>2. Len(Out) + 1 - Len(Out) = 1 /\ ~(Len(Out) + 1 <= Len(Out))
          BY <2>0
        <5>3. ASSUME NEW k \in 1..Len(Out) PROVE k \in 1..Len(Out) + 1 /\ k <= Len(Out)
          BY <2>0
        <5>4. Len(Out) + 1 \in 1..Len(Out) + 1
          BY <2>0
        <5> QED BY <3>2, <4>1, <5>1, <5>2, <5>3, <5>4
      <4>3. current[1].n = Begun
        BY <3>2 DEF OrderInv
      <4>4. ASSUME NEW k \in 1..Len(Out)
            PROVE  Out'[k].n \in Nat /\ Out'[k].n + 1 <= Begun
        <5>1. Out[k].n \in Nat /\ Out[k].n + 1 <= Begun
          BY <2>0, <3>2, <4>4 DEF OrderInv
        <5> QED BY <4>2, <4>4, <5>1
      <4>5. ASSUME NEW k \in 1..Len(Out') PROVE Out'[k].n + 0 <= Begun
        <5>1. k \in 1..Len(Out) \/ k = Len(Out) + 1
          BY <2>0, <4>2
        <5> QED BY <2>0, <4>2, <4>3, <4>4, <5>1
      <4>6. ASSUME NEW j \in 1..Len(Out'), NEW k \in 1..Len(Out'), j < k
            PROVE  Out'[j].n < Out'[k].n
        <5>1. j \in 1..Len(Out)
          BY <2>0, <4>2, <4>6
        <5>2. CASE k \in 1..Len(Out)
          BY <4>2, <4>6, <5>1, <5>2 DEF OrderInv
        <5>3. CASE k = Len(Out) + 1
          <6>1. Out'[k].n = Begun
            BY <4>2, <4>3, <5>3
          <6>2. Out'[j].n \in Nat /\ Out'[j].n + 1 <= Begun
            BY <4>4, <5>1
          <6> QED BY <2>0, <6>1, <6>2
        <5> QED BY <2>0, <4>2, <5>2, <5>3
      <4> QED BY <3>1, <3>2, <4>5, <4>6 DEF OrderInv
    <3> QED BY <3>3, <3>4
  <2>5. CASE EraseSync
    BY <2>5 DEF EraseSync, OrderInv, Out, Begun
  <2>6. CASE UNCHANGED <<syncVars, eraseKnowledge>>
    BY <2>6 DEF syncVars, OrderInv, Out, Begun
  <2>7. CASE UNCHANGED vars
    BY <2>6, <2>7 DEF vars, requestVars
  <2> QED BY <2>1, <2>2, <2>3, <2>4, <2>5, <2>6, <2>7, OtherStepsKeepData
<1> QED BY <1>1, <1>2, SyncInvariant, PTL DEF Spec

\* Outputs leave in the order of their packets, none of them twice.
THEOREM SyncInOrder == Spec => []InOrder
<1>1. OrderInv /\ SyncInv => InOrder
  <2> SUFFICES ASSUME OrderInv, SyncInv PROVE InOrder
    OBVIOUS
  <2>1. DOMAIN (sent \o outputQueue) = 1..Len(sent \o outputQueue)
    BY OrderTypes, LenProperties DEF Out
  <2>2. \A j, k \in 1..Len(sent \o outputQueue) :
           j < k => (sent \o outputQueue)[j].n < (sent \o outputQueue)[k].n
    BY DEF OrderInv, Out
  <2> QED BY <2>1, <2>2 DEF InOrder
<1> QED BY <1>1, SyncOrder, SyncInvariant, PTL

\* The packets accepted last, in their order, are the ones not served yet.
THEOREM SyncNothingLost == Spec => []NothingLost
<1>1. OrderInv /\ SyncInv => NothingLost
  <2> SUFFICES ASSUME OrderInv, SyncInv PROVE NothingLost
    OBVIOUS
  <2> DEFINE rest == current \o inputQueue
  <2>0. /\ inputQueue \in Seq(Packets) /\ Len(inputQueue) \in Nat
        /\ current \in Seq(Packets) /\ Len(current) \in Nat /\ Len(current) <= 1
        /\ accepted \in Nat /\ Begun \in Int
    BY OrderTypes
  <2>1. /\ rest \in Seq(Packets) /\ Len(rest) = Len(current) + Len(inputQueue)
        /\ \A i \in 1..Len(current) + Len(inputQueue) :
              rest[i] = IF i <= Len(current) THEN current[i] ELSE inputQueue[i - Len(current)]
    BY <2>0, ConcatProperties
  <2> HIDE DEF rest
  <2>2. ASSUME NEW k \in 1..Len(rest) PROVE rest[k].n = accepted - Len(rest) + k
    <3>1. CASE k <= Len(current)
      <4>1. k = 1 /\ Len(current) = 1
        <5>1. k \in Nat \ {0}
          BY <2>0, <2>1
        <5>2. \A i \in Nat \ {0}, l \in Nat : i <= l /\ l <= 1 => i = 1 /\ l = 1
          OBVIOUS
        <5> QED BY <2>0, <3>1, <5>1, <5>2, Zenon
      <4>2. rest[k].n = Begun
        BY <2>1, <3>1, <4>1 DEF OrderInv
      <4> QED BY <2>0, <2>1, <4>1, <4>2 DEF Begun
    <3>2. CASE ~(k <= Len(current))
      <4>1. k - Len(current) \in 1..Len(inputQueue) /\ rest[k] = inputQueue[k - Len(current)]
        BY <2>0, <2>1, <3>2
      <4>2. rest[k].n = Begun + (k - Len(current))
        BY <4>1 DEF OrderInv
      <4> QED BY <2>0, <2>1, <4>2 DEF Begun
    <3> QED BY <3>1, <3>2
  <2>3. DOMAIN rest = 1..Len(rest)
    BY <2>1
  <2> QED BY <2>2, <2>3 DEF NothingLost, rest
<1> QED BY <1>1, SyncOrder, SyncInvariant, PTL

\* A synchronous node implements the server of FifoServer: taking a packet off
\* the queue is invisible, serving it is.
THEOREM SyncImplementsServer == Spec => ImplementsServer
<1>1. Init => Server!FifoInit
  BY DEF Init, Server!FifoInit
<1>2. SyncInv /\ [Next]_vars => [Server!FifoNext]_Server!fifoVars
  <2> SUFFICES ASSUME SyncInv, [Next]_vars
               PROVE  Server!FifoNext \/ UNCHANGED Server!fifoVars
    OBVIOUS
  <2> USE DEF Server!FifoNext, Server!fifoVars
  <2>0. /\ inputQueue \in Seq(Packets) /\ current \in Seq(Packets) /\ Len(current) <= 1
        /\ outputQueue \in Seq(Packets)
    BY QueueTypes DEF SyncInv, TypeOK
  <2>1. ASSUME NEW predict \in BOOLEAN, Accept(predict)
        PROVE  \E p \in Packets : Server!Accept(p)
    <3> DEFINE p == [n |-> accepted + 1, predict |-> predict, erases |-> asked]
    <3>1. p \in Packets
      BY <2>1, MLSyncNodeAssumption DEF Accept, Queued, Packet, Packets, SyncInv, TypeOK
    <3>2. inputQueue' = Append(inputQueue, p) /\ UNCHANGED <<current, sent, outputQueue>>
      BY <2>1 DEF Accept, Queued, Packet
    <3> HIDE DEF p
    <3>3. current \o Append(inputQueue, p) = Append(current \o inputQueue, p)
      BY <2>0, <3>1
    <3> QED BY <3>1, <3>2, <3>3 DEF Server!Accept
  <2>2. CASE Feedback \/ WorkerFinished
    BY <2>2 DEF Feedback, WorkerFinished, MoreToDo, SendOutputs, Server!Send
  <2>3. CASE Take
    <3>1. UNCHANGED <<sent, outputQueue>> /\ current = <<>>
      BY <2>3 DEF Take, Done, SyncInv, CurrentMatchesThread
    <3>2. current' \o inputQueue' = current \o inputQueue
      <4>1. CASE inputQueue = <<>>
        BY <2>3, <4>1 DEF Take, Done
      <4>2. CASE inputQueue # <<>>
        <5>1. current' = <<Head(inputQueue)>> /\ inputQueue' = Tail(inputQueue)
          BY <2>3, <4>2 DEF Take, Done
        <5>2. <<Head(inputQueue)>> \o Tail(inputQueue) = inputQueue
          BY <2>0, <4>2
        <5>3. <<>> \o inputQueue = inputQueue
          BY <2>0, ConcatEmptySeq
        <5> QED BY <3>1, <5>1, <5>2, <5>3
      <4> QED BY <4>1, <4>2
    <3> QED BY <3>1, <3>2
  <2>4. ASSUME NEW announced \in BOOLEAN, ServePacket(announced) PROVE Server!Serve
    <3>1. /\ current' = <<>> /\ UNCHANGED <<inputQueue, sent>>
          /\ outputQueue' = IF announced THEN outputQueue \o current ELSE outputQueue
          /\ current # <<>>
      BY <2>4 DEF ServePacket, SyncInv, CurrentMatchesThread
    <3>2. PICK p \in Packets : current = <<p>>
      BY <3>1, PacketInService
    <3>3. /\ <<p>> \o inputQueue # <<>>
          /\ Head(<<p>> \o inputQueue) = p
          /\ Tail(<<p>> \o inputQueue) = <<>> \o inputQueue
          /\ outputQueue \o <<p>> = Append(outputQueue, p)
      BY <2>0
    <3> QED BY <3>1, <3>2, <3>3 DEF Server!Serve
  <2>5. CASE EraseSync
    BY <2>5 DEF EraseSync
  <2>6. CASE UNCHANGED <<syncVars, eraseKnowledge>>
    BY <2>6 DEF syncVars
  <2>7. CASE UNCHANGED vars
    BY <2>6, <2>7 DEF vars, requestVars
  <2> QED BY <2>1, <2>2, <2>3, <2>4, <2>5, <2>6, <2>7, OtherStepsKeepData
<1> QED BY <1>1, <1>2, SyncInvariant, PTL DEF Spec, Server!FifoSpec, ImplementsServer

=============================================================================
