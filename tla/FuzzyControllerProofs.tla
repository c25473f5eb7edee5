------------------------- MODULE FuzzyControllerProofs -------------------------
(***************************************************************************)
(* What the calls of the observation controller keep.  Between two calls   *)
(* the knowledge is Sane; here are the lemmas that say so of the calls that*)
(* merge groups, load, erase, enable and disable inputs, take terms and    *)
(* variables away and set the cache's limit.                               *)
(***************************************************************************)
EXTENDS FuzzyRulesProofs

-----------------------------------------------------------------------------
(* What is claimed between two calls                                       *)

\* What a proof claims of the rule groups between two calls, and for which
\* rule it counts them.
ClaimOf(speaks, k, e) ==
    [speaks |-> speaks, fresh |-> {}, but |-> {}, single |-> speaks /\ k.noSimpl, rule |-> e]

\* Nothing is claimed but the counting.
Mute(e) == [speaks |-> FALSE, fresh |-> {}, but |-> {}, single |-> FALSE, rule |-> e]

LEMMA ClaimIs ==
    ASSUME NEW speaks, NEW k, NEW e, NEW a, a = ClaimOf(speaks, k, e)
    PROVE  /\ a.speaks = speaks /\ a.rule = e /\ a.single = (speaks /\ k.noSimpl)
           /\ a.but = {} /\ Plain(a) /\ Suits(a, k)
<1>1. /\ a.speaks = speaks /\ a.rule = e /\ a.single = (speaks /\ k.noSimpl)
      /\ a.but = {} /\ a.fresh = {}
  BY DEF ClaimOf
<1> QED BY <1>1 DEF Plain, Suits

LEMMA MuteIs ==
    ASSUME NEW e, NEW a, a = Mute(e)
    PROVE  ~a.speaks /\ ~a.single /\ a.rule = e /\ a.but = {} /\ Plain(a)
<1>1. ~a.speaks /\ ~a.single /\ a.rule = e /\ a.but = {} /\ a.fresh = {}
  BY DEF Mute
<1> QED BY <1>1 DEF Plain

\* The rule groups of a claim that says nothing do not depend on what the
\* engine knows.
LEMMA MuteMapped ==
    ASSUME NEW fs, NEW k, NEW a, NEW S, Mapped(fs, k, a, S), NEW b, b = Mute(a.rule),
           NEW after, NEW y, Knowing(y), y.map = k.map, y.block = k.block
    PROVE  Mapped(after, y, b, S)
<1>1. ~b.speaks /\ ~b.single /\ b.rule = a.rule /\ b.fresh = {}
  BY DEF Mute
<1>2. Carried(b.rule, y)
  BY <1>1 DEF Mapped, Carried
<1>3. ASSUME NEW n \in DOMAIN k.map PROVE Listed(Context(after, y, n), b, S, k.map[n])
  <2> DEFINE c == Context(fs, k, n)
             d == Context(after, y, n)
  <2>1. Listed(c, a, S, k.map[n])
    BY DEF Mapped
  <2> HIDE DEF c, d
  <2>2. \A rg : Good(c, a, rg) => Good(d, b, rg)
    BY <1>1 DEF Good
  <2> QED BY <2>1, <2>2 DEF Listed, d
<1> QED BY <1>2, <1>3 DEF Mapped

-----------------------------------------------------------------------------
(* Knowledge whose rules are to be made anew                               *)

\* What the engine knows, but for what its rules say: the block has the rules
\* of the lists, the groups in D exist, the cache holds each of its groups
\* once.
Stocked(k, e, D, V) ==
    /\ Knowing(k) /\ Carried(e, k)
    /\ k.heap \in [D -> V]
    /\ k.cache \in Seq(Nat) /\ IsInjective(k.cache)

LEMMA KeptStocked ==
    ASSUME NEW fs, NEW k, NEW a, NEW S, NEW D, NEW V, Kept(fs, k, a, S, D, V)
    PROVE  Stocked(k, a.rule, D, V)
BY DEF Kept, Mapped, Stocked

\* Made anew, the rules are as they should be.
LEMMA RebuiltWhole ==
    ASSUME NEW fs, Vars(fs), NEW k, NEW e, NEW V, Stocked(k, e, ToSet(k.cache), V),
           Len(k.map) <= Len(fs.outTerms), NEW speaks \in BOOLEAN,
           NEW y, y = RulesRebuilt(fs, k)
    PROVE  /\ Whole(fs, y, ClaimOf(speaks, y, e), V)
           /\ SameBut(k, y) /\ Len(y.map) = Len(fs.outTerms)
<1> DEFINE a == ClaimOf(speaks, k, e)
<1>1. /\ a.speaks = speaks /\ a.rule = e /\ a.single = (speaks /\ k.noSimpl)
      /\ a.but = {} /\ Plain(a)
  BY ClaimIs
<1>2. a = ClaimOf(speaks, k, e)
  OBVIOUS
<1> HIDE DEF a
<1>3. Mapped(fs, y, a, ToSet(k.cache)) /\ SameBut(k, y) /\ Len(y.map) = Len(fs.outTerms)
  <2>1. Variables(fs)
    BY DEF Vars, Variables
  <2>2. Knowing(k) /\ Carried(a.rule, k) /\ k.cache \in Seq(Nat) /\ IsInjective(k.cache)
    BY <1>1 DEF Stocked
  <2>3. ~k.noSimpl => a.but = {} /\ ~a.single
    BY <1>1
  <2>4. Len(k.map) <= Len(fs.outTerms) /\ y = RulesRebuilt(fs, k)
    OBVIOUS
  <2> QED BY ONLY <2>1, <2>2, <2>3, <2>4, RulesRebuiltMapped
<1>4. Whole(fs, y, a, V)
  BY <1>1, <1>3 DEF Whole, Kept, SameBut, Stocked
<1>5. a = ClaimOf(speaks, y, e)
  BY <1>2, <1>3 DEF SameBut, ClaimOf
<1> QED BY <1>3, <1>4, <1>5

\* So are they when the lists were given up before.
LEMMA RebuiltFromNothing ==
    ASSUME NEW fs, Vars(fs), NEW k, NEW e, NEW V, Stocked(k, e, ToSet(k.cache), V),
           NEW speaks \in BOOLEAN,
           NEW y, y = RulesRebuilt(fs, MapCleared(k))
    PROVE  /\ Whole(fs, y, ClaimOf(speaks, y, e), V)
           /\ SameBut(k, y) /\ Len(y.map) = Len(fs.outTerms)
<1> DEFINE z == MapCleared(k)
<1>1. z = MapCleared(k) /\ y = RulesRebuilt(fs, z)
  OBVIOUS
<1> HIDE DEF z
<1>2. Knowing(z) /\ Carried(e, z) /\ z.map = <<>> /\ SameBut(k, z)
  <2>1. Knowing(k) /\ Carried(e, k)
    BY DEF Stocked
  <2> QED BY ONLY <1>1, <2>1, MapClearedIs
<1>3. Stocked(z, e, ToSet(z.cache), V)
  BY <1>2 DEF Stocked, SameBut
<1>4. Len(z.map) <= Len(fs.outTerms)
  BY <1>2 DEF Vars
<1>5. /\ Whole(fs, y, ClaimOf(speaks, y, e), V)
      /\ SameBut(z, y) /\ Len(y.map) = Len(fs.outTerms)
  BY <1>1, <1>3, <1>4, RebuiltWhole
<1>6. SameBut(k, y)
  BY <1>2, <1>5 DEF SameBut
<1> QED BY <1>5, <1>6

-----------------------------------------------------------------------------
(* Groups that are apart                                                   *)

\* Observations of one group agree; observations of two groups do not.
Agreed(fs, heap, D) == \A g \in D : Agree(fs, heap[g])
Distinct(fs, heap, D) ==
    \A g \in D, h \in D : g # h => ~Same(fs, Head(heap[g]), Head(heap[h]))
Apart(fs, k) ==
    Agreed(fs, k.heap, ToSet(k.cache)) /\ Distinct(fs, k.heap, ToSet(k.cache))

\* Other groups in the cache, and other observations.
Stock(k, heap, cache) ==
    [heap |-> heap, cache |-> cache, max |-> k.max, map |-> k.map, block |-> k.block,
     noSimpl |-> k.noSimpl]

LEMMA StockIs ==
    ASSUME NEW k, NEW e, NEW D, NEW V, Stocked(k, e, D, V),
           NEW E, NEW W, NEW heap, heap \in [E -> W],
           NEW cache, cache \in Seq(Nat), IsInjective(cache),
           NEW y, y = Stock(k, heap, cache)
    PROVE  /\ Stocked(y, e, E, W) /\ SameShape(k, y) /\ y.map = k.map
           /\ y.heap = heap /\ y.cache = cache
<1>1. /\ y.heap = heap /\ y.cache = cache /\ y.max = k.max /\ y.map = k.map
      /\ y.block = k.block /\ y.noSimpl = k.noSimpl
  BY DEF Stock
<1>2. Knowing(y)
  BY <1>1 DEF Knowing, Stock
<1>3. Carried(e, y)
  BY <1>1 DEF Stocked, Carried
<1> QED BY <1>1, <1>2, <1>3 DEF Stocked, SameShape

\* The groups of the cache, in its order.
LEMMA GroupsAre ==
    ASSUME NEW k, NEW D, NEW V, k.heap \in [D -> V],
           k.cache \in Seq(Nat), ToSet(k.cache) \subseteq D
    PROVE  /\ Groups(k) \in Seq(V) /\ Len(Groups(k)) = Len(k.cache)
           /\ Len(k.cache) \in Nat /\ DOMAIN k.cache = 1..Len(k.cache)
           /\ \A n \in 1..Len(k.cache) : /\ Groups(k)[n] = k.heap[k.cache[n]]
                                         /\ k.cache[n] \in ToSet(k.cache)
<1>1. Len(k.cache) \in Nat /\ DOMAIN k.cache = 1..Len(k.cache)
  BY LenProperties
<1>2. \A n \in 1..Len(k.cache) : k.cache[n] \in ToSet(k.cache)
  BY <1>1 DEF ToSet
<1> DEFINE f == Groups(k)
<1>3. f = [n \in 1..Len(k.cache) |-> k.heap[k.cache[n]]]
  BY <1>1 DEF Groups
<1>4. f \in [1..Len(k.cache) -> V]
  BY <1>2, <1>3
<1>5. \A n \in 1..Len(k.cache) : f[n] = k.heap[k.cache[n]]
  BY <1>3
<1> HIDE DEF f
<1>6. f \in Seq(V) /\ Len(f) = Len(k.cache)
  BY <1>1, <1>4, FunctionSeq
<1> QED BY <1>1, <1>2, <1>5, <1>6 DEF f

-----------------------------------------------------------------------------
(* Merging what agrees                                                     *)

\* Where the group is that another one agrees with.
LEMMA PartnerIs ==
    ASSUME NEW fs, NEW y, NEW D, y.heap \in [D -> Group(fs)],
           y.cache \in Seq(Nat), ToSet(y.cache) \subseteq D, NEW g \in D,
           NEW n, n = Partner(fs, y, g)
    PROVE  /\ n # 0 => n \in DOMAIN y.cache /\ y.cache[n] \in ToSet(y.cache)
                       /\ Same(fs, Head(y.heap[y.cache[n]]), Head(y.heap[g]))
           /\ n = 0 => \A h \in ToSet(y.cache) : ~Same(fs, Head(y.heap[h]), Head(y.heap[g]))
<1> DEFINE seq == Groups(y)
           I == {i \in 1..Len(seq) : GroupEnabledInputEquals(fs, seq[i], y.heap[g])}
           m == IF I # {} THEN Min(I) ELSE 0
<1>1. n = m
  BY DEF Partner, FirstWhere, SelectInSeq
<1>2. /\ seq \in Seq(Group(fs)) /\ Len(seq) = Len(y.cache)
      /\ Len(y.cache) \in Nat /\ DOMAIN y.cache = 1..Len(y.cache)
      /\ \A i \in 1..Len(y.cache) : /\ seq[i] = y.heap[y.cache[i]]
                                    /\ y.cache[i] \in ToSet(y.cache)
  BY GroupsAre
<1>3. /\ m \in 0..Len(seq)
      /\ m # 0 => m \in I
      /\ m = 0 => I = {}
  <2>1. I \in SUBSET (1..Len(seq)) /\ m = (IF I # {} THEN Min(I) ELSE 0) /\ Len(seq) \in Nat
    BY <1>2
  <2> HIDE DEF I, m
  <2> QED BY <2>1, FirstIs
<1>4. \A i \in 1..Len(y.cache) : i \in I <=> Same(fs, Head(y.heap[y.cache[i]]), Head(y.heap[g]))
  <2>1. \A v \in Group(fs) : v # <<>>
    BY DEF Group
  <2>2. y.heap[g] # <<>> /\ \A i \in 1..Len(y.cache) : y.heap[y.cache[i]] # <<>>
    BY <1>2, <2>1
  <2> HIDE DEF seq
  <2> QED BY <1>2, <2>2 DEF GroupEnabledInputEquals, Same
<1> HIDE DEF seq, I, m
<1>5. ASSUME n # 0 PROVE n \in DOMAIN y.cache /\ y.cache[n] \in ToSet(y.cache)
                         /\ Same(fs, Head(y.heap[y.cache[n]]), Head(y.heap[g]))
  <2>1. n \in 1..Len(y.cache) /\ n \in I
    BY <1>1, <1>2, <1>3, <1>5
  <2> QED BY <1>2, <1>4, <2>1
<1>6. ASSUME n = 0, NEW h \in ToSet(y.cache) PROVE ~Same(fs, Head(y.heap[h]), Head(y.heap[g]))
  <2>1. PICK i \in 1..Len(y.cache) : h = y.cache[i]
    BY <1>2 DEF ToSet
  <2> QED BY <1>1, <1>3, <1>4, <1>6, <2>1
<1> QED BY <1>5, <1>6

\* One group joins the group it agrees with, or stays what it is.
MergeStep(p, y, g) ==
    IF Partner(p.fz, y, g) = 0 THEN [y EXCEPT !.cache = Append(@, g)]
    ELSE FreeGroup(TakenOver(p.fz, y, y.cache[Partner(p.fz, y, g)], g), g)

\* What becomes of the groups y has when one more is merged; R are the groups
\* that are still to come.
MergeOf(fs, y, e, R, g, w) ==
    /\ Stocked(w, e, ToSet(w.cache) \cup R, Group(fs))
    /\ SameShape(y, w) /\ w.map = y.map
    /\ ToSet(w.cache) \subseteq ToSet(y.cache) \cup {g}
    /\ Agreed(fs, y.heap, ToSet(y.cache) \cup (R \cup {g})) =>
          /\ Agreed(fs, w.heap, ToSet(w.cache) \cup R)
          /\ Distinct(fs, y.heap, ToSet(y.cache)) => Distinct(fs, w.heap, ToSet(w.cache))

LEMMA MergeNew ==
    ASSUME NEW fs, NEW y, NEW e, NEW R, NEW g \in Nat, g \notin R, g \notin ToSet(y.cache),
           Stocked(y, e, ToSet(y.cache) \cup (R \cup {g}), Group(fs)),
           \A h \in ToSet(y.cache) : ~Same(fs, Head(y.heap[h]), Head(y.heap[g])),
           NEW w, w = [y EXCEPT !.cache = Append(@, g)]
    PROVE  MergeOf(fs, y, e, R, g, w)
<1> DEFINE cache == Append(y.cache, g)
           C == ToSet(y.cache)
<1>1. y.cache \in Seq(Nat) /\ IsInjective(y.cache) /\ y.heap \in [C \cup (R \cup {g}) -> Group(fs)]
  BY DEF Stocked
<1>2. w = Stock(y, y.heap, cache)
  BY DEF Stocked, Knowing, Stock
<1>3. cache \in Seq(Nat) /\ IsInjective(cache) /\ ToSet(cache) = C \cup {g}
  BY <1>1, AppendProperties, AppendedInjective, ToSetAppend
<1> HIDE DEF cache
<1>4. C \cup (R \cup {g}) = ToSet(cache) \cup R
  BY <1>3
<1>5. /\ Stocked(w, e, ToSet(cache) \cup R, Group(fs)) /\ SameShape(y, w) /\ w.map = y.map
      /\ w.heap = y.heap /\ w.cache = cache
  <2> DEFINE heap == y.heap
             E == ToSet(cache) \cup R
             G == Group(fs)
  <2>1. heap \in [E -> G] /\ Stocked(y, e, E, G) /\ w = Stock(y, heap, cache)
    BY <1>1, <1>2, <1>4
  <2> HIDE DEF heap, E, G
  <2>2. Stocked(w, e, E, G) /\ SameShape(y, w) /\ w.map = y.map /\ w.heap = heap /\ w.cache = cache
    BY ONLY <1>3, <2>1, StockIs
  <2> QED BY <2>2 DEF heap, E, G
<1>6. Agreed(fs, y.heap, C \cup (R \cup {g})) => Agreed(fs, w.heap, ToSet(w.cache) \cup R)
  BY <1>4, <1>5
<1>7. ASSUME Distinct(fs, y.heap, C) PROVE Distinct(fs, w.heap, ToSet(w.cache))
  <2>1. \A h \in C : ~Same(fs, Head(y.heap[h]), Head(y.heap[g]))
                     /\ ~Same(fs, Head(y.heap[g]), Head(y.heap[h]))
    BY SameIs
  <2>2. ToSet(w.cache) = C \cup {g} /\ w.heap = y.heap
    BY <1>3, <1>5
  <2> HIDE DEF C
  <2> QED BY <1>7, <2>1, <2>2 DEF Distinct
<1> QED BY <1>3, <1>5, <1>6, <1>7 DEF MergeOf

LEMMA MergeInto ==
    ASSUME NEW fs, fs.outTerms \in Seq(Nat), NEW y, NEW e, NEW R, NEW g, g \notin R, g \notin ToSet(y.cache),
           Stocked(y, e, ToSet(y.cache) \cup (R \cup {g}), Group(fs)),
           NEW h \in ToSet(y.cache), h \notin R, Same(fs, Head(y.heap[h]), Head(y.heap[g])),
           NEW w, w = FreeGroup(TakenOver(fs, y, h, g), g)
    PROVE  MergeOf(fs, y, e, R, g, w)
<1> DEFINE C == ToSet(y.cache)
           D == C \cup (R \cup {g})
           E == C \cup R
           merged == GroupMerge(fs, y.heap[h], y.heap[g])
           heap == [x \in E |-> IF x = h THEN merged ELSE y.heap[x]]
<1>1. y.cache \in Seq(Nat) /\ IsInjective(y.cache) /\ y.heap \in [D -> Group(fs)]
  BY DEF Stocked
<1>2. h \in D /\ g \in D /\ h # g /\ D \ {g} = E /\ h \in E /\ E \subseteq D
  OBVIOUS
<1>3. w = Stock(y, heap, y.cache)
  <2> DEFINE into == TakenOver(fs, y, h, g)
             inner == [y.heap EXCEPT ![h] = merged]
             rest == [x \in DOMAIN inner \ {g} |-> inner[x]]
  <2>1. into = [y EXCEPT !.heap = inner]
    BY DEF TakenOver
  <2>2. rest = heap
    BY <1>1, <1>2
  <2>3. w = FreeGroup(into, g)
    OBVIOUS
  <2>4. y = [heap |-> y.heap, cache |-> y.cache, max |-> y.max, map |-> y.map,
             block |-> y.block, noSimpl |-> y.noSimpl]
    BY DEF Stocked, Knowing
  <2> HIDE DEF inner, into
  <2>5. /\ into.heap = inner
        /\ into = [heap |-> inner, cache |-> y.cache, max |-> y.max, map |-> y.map,
                   block |-> y.block, noSimpl |-> y.noSimpl]
    BY ONLY <2>1, <2>4
  <2>6. w = [into EXCEPT !.heap = rest]
    BY <2>3, <2>5 DEF FreeGroup
  <2> HIDE DEF rest, heap
  <2>7. w = [heap |-> rest, cache |-> y.cache, max |-> y.max, map |-> y.map,
             block |-> y.block, noSimpl |-> y.noSimpl]
    BY ONLY <2>5, <2>6
  <2> QED BY ONLY <2>2, <2>7 DEF Stock
<1>4. y.heap[h] \in Group(fs) /\ y.heap[g] \in Group(fs)
  BY <1>1, <1>2
<1>5. /\ merged \in Group(fs)
      /\ Agree(fs, y.heap[h]) /\ Agree(fs, y.heap[g]) =>
            Agree(fs, merged) /\ Same(fs, Head(y.heap[h]), Head(merged))
  BY <1>4, GroupMergeIs
<1> HIDE DEF merged
<1>6. /\ heap \in [E -> Group(fs)] /\ heap[h] = merged
      /\ \A x \in E : x # h => heap[x] = y.heap[x]
  BY <1>1, <1>2, <1>5
<1> HIDE DEF heap
<1>7. /\ Stocked(w, e, E, Group(fs)) /\ SameShape(y, w) /\ w.map = y.map
      /\ w.heap = heap /\ w.cache = y.cache
  <2> DEFINE G == Group(fs)
             cache == y.cache
  <2>1. heap \in [E -> G] /\ Stocked(y, e, D, G) /\ w = Stock(y, heap, cache)
    BY <1>1, <1>3, <1>6
  <2>3. cache \in Seq(Nat) /\ IsInjective(cache)
    BY <1>1
  <2> HIDE DEF D, E, G, cache
  <2>2. Stocked(w, e, E, G) /\ SameShape(y, w) /\ w.map = y.map /\ w.heap = heap /\ w.cache = cache
    BY ONLY <2>1, <2>3, StockIs
  <2> QED BY <2>2 DEF E, G, cache
<1>8. ASSUME Agreed(fs, y.heap, D)
      PROVE  Agreed(fs, heap, E) /\ (Distinct(fs, y.heap, C) => Distinct(fs, heap, C))
  <2>1. Agree(fs, merged) /\ Same(fs, Head(y.heap[h]), Head(merged))
    BY <1>2, <1>5, <1>8 DEF Agreed
  <2>2. Agreed(fs, heap, E)
    BY <1>2, <1>6, <1>8, <2>1 DEF Agreed
  <2>3. ASSUME Distinct(fs, y.heap, C), NEW x \in C, NEW z \in C, x # z
        PROVE  ~Same(fs, Head(heap[x]), Head(heap[z]))
    <3>1. ~Same(fs, Head(y.heap[x]), Head(y.heap[z]))
      BY <2>3 DEF Distinct
    <3>2. x \in E /\ z \in E
      OBVIOUS
    <3>3. Same(fs, Head(y.heap[x]), Head(heap[x])) /\ Same(fs, Head(y.heap[z]), Head(heap[z]))
      <4>1. \A u \in E : Same(fs, Head(y.heap[u]), Head(heap[u]))
        BY <1>6, <2>1, SameIs
      <4> QED BY <3>2, <4>1
    <3> QED BY <3>1, <3>3, SameIs
  <2> QED BY <2>2, <2>3 DEF Distinct
<1> QED BY <1>7, <1>8 DEF MergeOf

\* The groups that are still to come after the first n.
Behind(seq, n) == {seq[i] : i \in n + 1..Len(seq)}

LEMMA BehindIs ==
    ASSUME NEW T, NEW seq \in Seq(T), IsInjective(seq)
    PROVE  /\ Behind(seq, 0) = ToSet(seq) /\ Behind(seq, Len(seq)) = {}
           /\ \A n \in 1..Len(seq) : /\ Behind(seq, n - 1) = Behind(seq, n) \cup {seq[n]}
                                     /\ seq[n] \notin Behind(seq, n)
                                     /\ seq[n] \notin FirstOf(seq, n - 1)
                                     /\ seq[n] \in T
                                     /\ FirstOf(seq, n - 1) \cap Behind(seq, n) = {}
<1> DEFINE l == Len(seq)
<1>1. l \in Nat /\ DOMAIN seq = 1..l /\ \A n \in 1..l : seq[n] \in T
  BY LenProperties, ElementOfSeq
<1>2. \A i \in 1..l, j \in 1..l : seq[i] = seq[j] => i = j
  BY <1>1 DEF IsInjective
<1> HIDE DEF l
<1>3. Behind(seq, 0) = ToSet(seq)
  BY <1>1 DEF Behind, ToSet, l
<1>4. Behind(seq, l) = {}
  <2>1. l + 1..l = {}
    BY <1>1
  <2> QED BY <2>1 DEF Behind, l
<1>5. ASSUME NEW n \in 1..l
      PROVE  /\ Behind(seq, n - 1) = Behind(seq, n) \cup {seq[n]}
             /\ seq[n] \notin Behind(seq, n)
             /\ seq[n] \notin FirstOf(seq, n - 1)
             /\ FirstOf(seq, n - 1) \cap Behind(seq, n) = {}
  <2>1. (n - 1) + 1..l = (n + 1..l) \cup {n}
    BY <1>1
  <2>2. Behind(seq, n - 1) = Behind(seq, n) \cup {seq[n]}
    BY <2>1 DEF Behind, l
  <2>3. \A i \in n + 1..l : i \in 1..l /\ i # n
    BY <1>1
  <2>4. \A i \in 1..n - 1 : i \in 1..l /\ i # n
    BY <1>1
  <2>5. \A i \in 1..n - 1, j \in n + 1..l : i # j
    BY <1>1
  <2>6. seq[n] \notin Behind(seq, n)
    BY <1>2, <2>3 DEF Behind, l
  <2>7. seq[n] \notin FirstOf(seq, n - 1)
    BY <1>2, <2>4 DEF FirstOf
  <2>8. FirstOf(seq, n - 1) \cap Behind(seq, n) = {}
    BY <1>2, <2>3, <2>4, <2>5 DEF FirstOf, Behind, l
  <2> QED BY <2>2, <2>6, <2>7, <2>8
<1> QED BY <1>1, <1>3, <1>4, <1>5 DEF l

\* What has been merged after n groups.
MergedAt(p, n, y) ==
    /\ Stocked(y, p.e, ToSet(y.cache) \cup Behind(p.seq, n), Group(p.fz))
    /\ SameShape(p.k, y) /\ y.map = p.k.map
    /\ ToSet(y.cache) \subseteq FirstOf(p.seq, n)
    /\ Agreed(p.fz, p.k.heap, ToSet(p.seq)) =>
          /\ Agreed(p.fz, y.heap, ToSet(y.cache) \cup Behind(p.seq, n))
          /\ Distinct(p.fz, y.heap, ToSet(y.cache))

Merging == INSTANCE SeqLemmas WITH FoldOp <- MergeStep, FoldAt <- MergedAt

\* One more group.
LEMMA MergeStepIs ==
    ASSUME NEW p, p.fz.outTerms \in Seq(Nat), p.seq \in Seq(Nat), IsInjective(p.seq),
           NEW n \in 1..Len(p.seq), NEW y, MergedAt(p, n - 1, y),
           NEW w, w = MergeStep(p, y, p.seq[n])
    PROVE  MergedAt(p, n, w)
<1> DEFINE g == p.seq[n]
           R == Behind(p.seq, n)
           C == ToSet(y.cache)
           fs == p.fz
           e == p.e
           m == Partner(fs, y, g)
<1>1. /\ Behind(p.seq, n - 1) = R \cup {g} /\ g \notin R /\ g \notin FirstOf(p.seq, n - 1)
      /\ g \in Nat /\ FirstOf(p.seq, n - 1) \cap R = {}
  BY BehindIs
<1>2. FirstOf(p.seq, n) = FirstOf(p.seq, n - 1) \cup {g}
  BY FrontIs
<1>3. /\ Stocked(y, e, C \cup (R \cup {g}), Group(fs)) /\ C \subseteq FirstOf(p.seq, n - 1)
      /\ SameShape(p.k, y) /\ y.map = p.k.map
      /\ Agreed(fs, p.k.heap, ToSet(p.seq)) =>
            Agreed(fs, y.heap, C \cup (R \cup {g})) /\ Distinct(fs, y.heap, C)
  BY <1>1 DEF MergedAt
<1>4. w = IF m = 0 THEN [y EXCEPT !.cache = Append(@, g)]
          ELSE FreeGroup(TakenOver(fs, y, y.cache[m], g), g)
  BY DEF MergeStep
<1>5. m = Partner(fs, y, g) /\ fs.outTerms \in Seq(Nat)
  OBVIOUS
<1>6. C = ToSet(y.cache)
  OBVIOUS
<1> HIDE DEF g, R, C, fs, e, m
<1>7. g \notin C /\ C \cap R = {}
  BY <1>1, <1>3
<1>8. /\ m # 0 => m \in DOMAIN y.cache /\ y.cache[m] \in C
                  /\ Same(fs, Head(y.heap[y.cache[m]]), Head(y.heap[g]))
      /\ m = 0 => \A h \in C : ~Same(fs, Head(y.heap[h]), Head(y.heap[g]))
  <2> DEFINE D == C \cup (R \cup {g})
  <2>1. y.heap \in [D -> Group(fs)] /\ y.cache \in Seq(Nat) /\ C \subseteq D /\ g \in D
    BY <1>3 DEF Stocked
  <2> HIDE DEF D
  <2> QED BY <1>5, <1>6, <2>1, PartnerIs
<1>9. MergeOf(fs, y, e, R, g, w)
  <2>1. CASE m = 0
    <3>1. w = [y EXCEPT !.cache = Append(@, g)]
      BY <1>4, <2>1
    <3>2. /\ g \in Nat /\ g \notin R /\ g \notin ToSet(y.cache)
          /\ Stocked(y, e, ToSet(y.cache) \cup (R \cup {g}), Group(fs))
      BY <1>1, <1>3, <1>6, <1>7
    <3>3. \A h \in ToSet(y.cache) : ~Same(fs, Head(y.heap[h]), Head(y.heap[g]))
      BY <1>6, <1>8, <2>1
    <3> QED BY ONLY <3>1, <3>2, <3>3, MergeNew
  <2>2. CASE m # 0
    <3> DEFINE h == y.cache[m]
    <3>1. w = FreeGroup(TakenOver(fs, y, h, g), g)
      BY <1>4, <2>2
    <3>2. /\ g \notin R /\ g \notin ToSet(y.cache)
          /\ Stocked(y, e, ToSet(y.cache) \cup (R \cup {g}), Group(fs))
      BY <1>1, <1>3, <1>6, <1>7
    <3>3. h \in ToSet(y.cache) /\ h \notin R /\ Same(fs, Head(y.heap[h]), Head(y.heap[g]))
      BY <1>6, <1>7, <1>8, <2>2
    <3> HIDE DEF h
    <3> QED BY ONLY <1>5, <3>1, <3>2, <3>3, MergeInto
  <2> QED BY ONLY <2>1, <2>2
<1>10. /\ Stocked(w, e, ToSet(w.cache) \cup R, Group(fs))
       /\ SameShape(y, w) /\ w.map = y.map
       /\ ToSet(w.cache) \subseteq C \cup {g}
       /\ Agreed(fs, y.heap, C \cup (R \cup {g})) =>
             /\ Agreed(fs, w.heap, ToSet(w.cache) \cup R)
             /\ Distinct(fs, y.heap, C) => Distinct(fs, w.heap, ToSet(w.cache))
  BY <1>6, <1>9 DEF MergeOf
<1>11. ToSet(w.cache) \subseteq FirstOf(p.seq, n)
  BY <1>2, <1>3, <1>10
<1>12. SameShape(p.k, w) /\ w.map = p.k.map
  BY <1>3, <1>10 DEF SameShape
<1>13. Agreed(fs, p.k.heap, ToSet(p.seq)) =>
          Agreed(fs, w.heap, ToSet(w.cache) \cup R) /\ Distinct(fs, w.heap, ToSet(w.cache))
  BY <1>3, <1>10
<1> QED BY <1>10, <1>11, <1>12, <1>13 DEF MergedAt, R, fs, e

\* Groups that agree become one: what is left is apart.
LEMMA GroupsMergedIs ==
    ASSUME NEW fs, Vars(fs), NEW k, NEW e, Stocked(k, e, ToSet(k.cache), Group(fs)),
           NEW y, y = GroupsMerged(fs, k)
    PROVE  /\ Stocked(y, e, ToSet(y.cache), Group(fs)) /\ SameShape(k, y) /\ y.map = k.map
           /\ ToSet(y.cache) \subseteq ToSet(k.cache)
           /\ Agreed(fs, k.heap, ToSet(k.cache)) => Apart(fs, y)
<1> DEFINE start == [k EXCEPT !.cache = <<>>]
           seq == k.cache
           p == [fz |-> fs, k |-> k, e |-> e, seq |-> seq]
<1>1. p.fz = fs /\ p.k = k /\ p.e = e /\ p.seq = seq
  OBVIOUS
<1>2. y = Merging!Folded(p, start, seq)
  <2> HIDE DEF p
  <2>1. GroupsMerged(fs, k) = FoldLeft(LAMBDA z, g : MergeStep(p, z, g), start, seq)
    BY ONLY <1>1 DEF GroupsMerged, MergeStep
  <2>2. FoldLeft(LAMBDA z, g : MergeStep(p, z, g), start, seq) = Merging!Folded(p, start, seq)
    <3> HIDE DEF start, seq
    <3> QED BY ONLY DEF FoldLeft, MapThenFoldSet, Merging!Folded, Merging!IterEq, Merging!Largest, Max
  <2> QED BY ONLY <2>1, <2>2, y = GroupsMerged(fs, k)
<1>3. seq \in Seq(Nat) /\ IsInjective(seq) /\ k.heap \in [ToSet(seq) -> Group(fs)]
  BY DEF Stocked
<1> HIDE DEF p
<1>4. MergedAt(p, 0, start)
  <2> DEFINE none == <<>>
             heap == k.heap
             D == ToSet(seq)
             G == Group(fs)
  <2>1. start = Stock(k, heap, none)
    BY DEF Stocked, Knowing, Stock
  <2>2. none \in Seq(Nat) /\ IsInjective(none) /\ ToSet(none) = {}
    BY DEF IsInjective, ToSet
  <2>3. heap \in [D -> G] /\ Stocked(k, e, D, G)
    BY <1>3
  <2> HIDE DEF none, heap, D, G, start
  <2>4. /\ Stocked(start, e, D, G) /\ SameShape(k, start) /\ start.map = k.map
        /\ start.heap = heap /\ start.cache = none
    BY ONLY <2>1, <2>2, <2>3, StockIs
  <2>5. Behind(p.seq, 0) = D /\ FirstOf(p.seq, 0) = {}
    BY <1>1, <1>3, BehindIs, FrontIs DEF D
  <2>6. ToSet(start.cache) = {} /\ ToSet(start.cache) \cup Behind(p.seq, 0) = D
    BY <2>2, <2>4, <2>5
  <2>7. Distinct(fs, start.heap, ToSet(start.cache))
    BY <2>6 DEF Distinct
  <2> QED BY <1>1, <2>4, <2>5, <2>6, <2>7 DEF MergedAt, heap, D, G
<1> HIDE DEF start
<1>5. ASSUME NEW z, NEW n \in 1..Len(seq), MergedAt(p, n - 1, z)
      PROVE  MergedAt(p, n, MergeStep(p, z, seq[n]))
  <2>1. p.fz.outTerms \in Seq(Nat)
    BY <1>1 DEF Vars
  <2> QED BY <1>1, <1>3, <1>5, <2>1, MergeStepIs
<1>6. MergedAt(p, Len(seq), y)
  BY <1>2, <1>3, <1>4, <1>5, Merging!FoldsAlong
<1>7. Behind(p.seq, Len(seq)) = {} /\ FirstOf(p.seq, Len(seq)) = ToSet(seq)
  BY <1>1, <1>3, BehindIs, FrontIs
<1>8. ToSet(y.cache) \cup Behind(p.seq, Len(seq)) = ToSet(y.cache)
  BY <1>7
<1> QED BY <1>1, <1>6, <1>7, <1>8 DEF MergedAt, Apart

-----------------------------------------------------------------------------
(* A vector of vectors becomes one                                         *)

JoinStep(c, y, s) == y \o s

\* What has been joined comes from the vectors so far; it is parted if they
\* are, and no two of them have parts that agree.
Parting(p) ==
    /\ \A i \in DOMAIN p.seqs : Parted(p.fz, p.seqs[i])
    /\ \A i \in DOMAIN p.seqs, j \in DOMAIN p.seqs : i # j =>
          \A u \in ToSet(p.seqs[i]), v \in ToSet(p.seqs[j]) : ~Same(p.fz, Head(u), Head(v))

JoinAt(p, n, y) ==
    /\ y \in Seq(p.T)
    /\ \A j \in DOMAIN y : \E i \in 1..n : y[j] \in ToSet(p.seqs[i])
    /\ \A i \in 1..n : ToSet(p.seqs[i]) \subseteq ToSet(y)
    /\ Parting(p) => Parted(p.fz, y)

Joining == INSTANCE SeqLemmas WITH FoldOp <- JoinStep, FoldAt <- JoinAt

\* Joining is the fold of the vectors.
LEMMA FlattenFold ==
    ASSUME NEW c, NEW T, NEW seqs \in Seq(Seq(T))
    PROVE  FlattenSeq(seqs) = Joining!Folded(c, <<>>, seqs)
<1> DEFINE n == Len(seqs)
<1>1. n \in Nat /\ \A i \in 1..n : seqs[i] \in Seq(T)
  BY LenProperties, ElementOfSeq
<1>2. PICK h : Joining!Runs(c, <<>>, seqs, h)
  BY Joining!FoldRun
<1>3. h[0] = <<>> /\ (\A i \in 1..n : h[i] = h[i - 1] \o seqs[i]) /\ Joining!Folded(c, <<>>, seqs) = h[n]
  BY <1>2 DEF Joining!Runs, JoinStep
<1>4. CASE n = 0
  <2>1. FlattenSeq(seqs) = seqs /\ seqs = <<>>
    BY <1>4, EmptySeq DEF FlattenSeq
  <2> QED BY <1>3, <1>4, <2>1
<1>5. CASE n # 0
  <2> DEFINE Right(f) == f = [i \in 1..n |-> IF i = 1 THEN seqs[i] ELSE f[i - 1] \o seqs[i]]
             f == CHOOSE f : Right(f)
  <2>1. FlattenSeq(seqs) = f[n]
    BY <1>5 DEF FlattenSeq
  <2>2. h[1] = seqs[1]
    <3>1. 1 \in 1..n /\ 1 - 1 = 0
      BY <1>1, <1>5
    <3>2. h[1] = h[1 - 1] \o seqs[1]
      BY <1>3, <3>1
    <3>3. <<>> \o seqs[1] = seqs[1]
      BY <1>1, <3>1, ConcatEmptySeq
    <3> QED BY <1>3, <3>1, <3>2, <3>3
  <2>3. Right([i \in 1..n |-> h[i]])
    <3> DEFINE u == [i \in 1..n |-> h[i]]
    <3>1. ASSUME NEW i \in 1..n PROVE u[i] = IF i = 1 THEN seqs[i] ELSE u[i - 1] \o seqs[i]
      <4>1. CASE i = 1
        BY <2>2, <4>1
      <4>2. CASE i # 1
        <5>1. i - 1 \in 1..n
          <6>1. n \in Nat /\ i \in 1..n /\ i # 1
            BY ONLY <1>1, <3>1, <4>2
          <6> HIDE DEF n
          <6> QED BY ONLY <6>1
        <5> QED BY <1>3, <4>2, <5>1
      <4> QED BY <4>1, <4>2
    <3> QED BY <3>1
  <2>4. Right(f)
    BY <2>3
  <2> HIDE DEF f
  <2>5. \A i \in 1..n : f[i] = IF i = 1 THEN seqs[i] ELSE f[i - 1] \o seqs[i]
    BY <2>4
  <2> DEFINE Q == {i \in Nat : i + 1 <= n => f[i + 1] = h[i + 1]}
  <2> HIDE DEF n
  <2>6. 0 \in Q
    <3>1. 1 \in 1..n /\ 0 + 1 = 1
      BY <1>1, <1>5
    <3>2. f[1] = seqs[1]
      BY <2>5, <3>1
    <3> QED BY <2>2, <3>1, <3>2
  <2>7. ASSUME NEW i \in Nat, i \in Q PROVE i + 1 \in Q
    <3> SUFFICES ASSUME (i + 1) + 1 <= n PROVE f[(i + 1) + 1] = h[(i + 1) + 1]
      OBVIOUS
    <3> DEFINE j == (i + 1) + 1
    <3>1. /\ i + 1 <= n /\ j \in 1..n /\ j # 1 /\ j - 1 = i + 1
      BY <1>1
    <3>2. f[i + 1] = h[i + 1]
      BY <2>7, <3>1
    <3> HIDE DEF j
    <3>3. f[j] = f[j - 1] \o seqs[j] /\ h[j] = h[j - 1] \o seqs[j]
      BY <1>3, <2>5, <3>1 DEF n
    <3>4. f[j] = h[j]
      BY <3>1, <3>2, <3>3
    <3> QED BY <3>4 DEF j
  <2> HIDE DEF Q
  <2>8. Nat \subseteq Q
    BY <2>6, <2>7, SetInduction
  <2>9. n - 1 \in Nat /\ (n - 1) + 1 = n
    BY <1>1, <1>5
  <2>10. f[n] = h[n]
    BY <2>8, <2>9 DEF Q
  <2> QED BY <1>3, <2>1, <2>10 DEF n
<1> QED BY <1>4, <1>5

\* Parts that are parted, and have nothing to do with each other.
LEMMA ConcatParted ==
    ASSUME NEW fs, NEW s, NEW t, Parted(fs, s), Parted(fs, t),
           \A i \in DOMAIN s, j \in DOMAIN t : ~Same(fs, Head(s[i]), Head(t[j]))
    PROVE  Parted(fs, s \o t)
<1> DEFINE a == Len(s)
           b == Len(t)
           u == s \o t
           G == Group(fs)
<1>1. /\ s \in Seq(G) /\ t \in Seq(G)
      /\ a \in Nat /\ DOMAIN s = 1..a /\ b \in Nat /\ DOMAIN t = 1..b
  BY LenProperties DEF Parted
<1>2. /\ u \in Seq(G) /\ Len(u) = a + b
      /\ \A j \in 1..a + b : u[j] = IF j <= a THEN s[j] ELSE t[j - a]
  BY <1>1, ConcatIs
<1>3. DOMAIN u = 1..a + b
  BY <1>2, LenProperties
<1> HIDE DEF a, b, u, G
<1>4. \A j \in 1..a + b : \/ j \in DOMAIN s /\ u[j] = s[j]
                          \/ j - a \in DOMAIN t /\ u[j] = t[j - a] /\ ~(j \in DOMAIN s)
  BY <1>1, <1>2
<1>5. ASSUME NEW i \in DOMAIN u PROVE Agree(fs, u[i])
  BY <1>3, <1>4 DEF Parted
<1>6. ASSUME NEW i \in DOMAIN u, NEW j \in DOMAIN u, i # j
      PROVE  ~Same(fs, Head(u[i]), Head(u[j]))
  <2>1. CASE i \in DOMAIN s /\ j \in DOMAIN s
    BY <1>3, <1>4, <1>6, <2>1 DEF Parted
  <2>2. CASE i \in DOMAIN s /\ j \notin DOMAIN s
    BY <1>3, <1>4, <2>2
  <2>3. CASE i \notin DOMAIN s /\ j \in DOMAIN s
    <3>1. ~Same(fs, Head(u[j]), Head(u[i]))
      BY <1>3, <1>4, <2>3
    <3> QED BY <3>1, SameIs
  <2>4. CASE i \notin DOMAIN s /\ j \notin DOMAIN s
    <3>1. i - a # j - a
      BY <1>1, <1>3, <1>6
    <3>2. /\ i - a \in DOMAIN t /\ u[i] = t[i - a]
          /\ j - a \in DOMAIN t /\ u[j] = t[j - a]
      BY <1>3, <1>4, <2>4
    <3> QED BY <3>1, <3>2 DEF Parted
  <2> QED BY <2>1, <2>2, <2>3, <2>4
<1> QED BY <1>2, <1>5, <1>6 DEF Parted, G, u

LEMMA FlattenIs ==
    ASSUME NEW fs, NEW T, NEW seqs \in Seq(Seq(T)), NEW y, y = FlattenSeq(seqs)
    PROVE  /\ y \in Seq(T)
           /\ \A j \in DOMAIN y : \E i \in DOMAIN seqs : y[j] \in ToSet(seqs[i])
           /\ \A i \in DOMAIN seqs : ToSet(seqs[i]) \subseteq ToSet(y)
           /\ Parting([fz |-> fs, T |-> T, seqs |-> seqs]) => Parted(fs, y)
<1> DEFINE p == [fz |-> fs, T |-> T, seqs |-> seqs]
<1>1. p.fz = fs /\ p.T = T /\ p.seqs = seqs
  OBVIOUS
<1> HIDE DEF p
<1>2. y = Joining!Folded(p, <<>>, seqs)
  BY FlattenFold
<1>3. Len(seqs) \in Nat /\ DOMAIN seqs = 1..Len(seqs) /\ \A i \in 1..Len(seqs) : seqs[i] \in Seq(T)
  BY LenProperties, ElementOfSeq
<1>4. JoinAt(p, 0, <<>>)
  <2>1. <<>> \in Seq(p.T) /\ DOMAIN <<>> = {}
    OBVIOUS
  <2>2. Parted(p.fz, <<>>)
    BY <2>1 DEF Parted
  <2> QED BY <2>1, <2>2 DEF JoinAt
<1>5. ASSUME NEW z, NEW n \in 1..Len(seqs), JoinAt(p, n - 1, z)
      PROVE  JoinAt(p, n, JoinStep(p, z, seqs[n]))
  <2> DEFINE t == seqs[n]
             w == z \o t
             a == Len(z)
             b == Len(t)
  <2>1. /\ z \in Seq(T)
        /\ \A j \in DOMAIN z : \E i \in 1..n - 1 : z[j] \in ToSet(seqs[i])
        /\ Parting(p) => Parted(fs, z)
    BY <1>1, <1>5 DEF JoinAt
  <2>2. t \in Seq(T) /\ n \in 1..n /\ (\A i \in 1..n - 1 : i \in 1..n /\ i \in 1..Len(seqs) /\ i # n)
    BY <1>3
  <2>3. a \in Nat /\ DOMAIN z = 1..a /\ b \in Nat /\ DOMAIN t = 1..b
    BY <2>1, <2>2, LenProperties
  <2>4. /\ w \in Seq(T) /\ Len(w) = a + b
        /\ \A j \in 1..a + b : w[j] = IF j <= a THEN z[j] ELSE t[j - a]
    BY <2>1, <2>2, ConcatIs
  <2>5. DOMAIN w = 1..a + b
    BY <2>4, LenProperties
  <2>6. w = JoinStep(p, z, seqs[n])
    BY DEF JoinStep
  <2>7. t = seqs[n]
    OBVIOUS
  <2>14. w = z \o t
    OBVIOUS
  <2> HIDE DEF t, w, a, b
  <2>8. ASSUME NEW j \in DOMAIN w PROVE \E i \in 1..n : w[j] \in ToSet(seqs[i])
    <3>1. CASE j <= a
      <4>1. j \in DOMAIN z /\ w[j] = z[j]
        BY <2>3, <2>4, <2>5, <2>8, <3>1
      <4> QED BY <2>1, <2>2, <4>1
    <3>2. CASE ~(j <= a)
      <4>1. j - a \in DOMAIN t /\ w[j] = t[j - a]
        BY <2>3, <2>4, <2>5, <2>8, <3>2
      <4>2. w[j] \in ToSet(t)
        BY <4>1 DEF ToSet
      <4> QED BY <2>2, <2>7, <4>2
    <3> QED BY <3>1, <3>2
  <2>15. ToSet(z) \subseteq ToSet(w) /\ ToSet(t) \subseteq ToSet(w)
    <3>1. \A j \in DOMAIN z : j \in DOMAIN w /\ w[j] = z[j]
      BY <2>3, <2>4, <2>5
    <3>2. \A j \in DOMAIN t : j + a \in DOMAIN w /\ w[j + a] = t[j]
      <4> SUFFICES ASSUME NEW j \in 1..b PROVE j + a \in 1..a + b /\ w[j + a] = t[j]
        BY <2>3, <2>5
      <4>1. j + a \in 1..a + b /\ ~(j + a <= a) /\ (j + a) - a = j
        BY <2>3
      <4> QED BY <2>4, <4>1
    <3>3. ToSet(z) \subseteq ToSet(w)
      BY <3>1 DEF ToSet
    <3> QED BY <3>2, <3>3 DEF ToSet
  <2>16. \A i \in 1..n : ToSet(seqs[i]) \subseteq ToSet(w)
    <3>1. \A i \in 1..n : i \in 1..n - 1 \/ i = n
      BY <1>3
    <3>2. \A i \in 1..n - 1 : ToSet(seqs[i]) \subseteq ToSet(z)
      BY <1>1, <1>5 DEF JoinAt
    <3> QED BY <2>7, <2>15, <3>1, <3>2
  <2>9. ASSUME Parting(p) PROVE Parted(fs, w)
    <3>1. Parted(fs, z) /\ Parted(fs, t)
      BY <1>1, <1>3, <2>1, <2>7, <2>9 DEF Parting
    <3>2. ASSUME NEW i \in DOMAIN z, NEW j \in DOMAIN t
          PROVE  ~Same(fs, Head(z[i]), Head(t[j]))
      <4>1. PICK m \in 1..n - 1 : z[i] \in ToSet(seqs[m])
        BY <2>1
      <4>2. t[j] \in ToSet(seqs[n])
        BY <2>7 DEF ToSet
      <4>3. m \in DOMAIN seqs /\ n \in DOMAIN seqs /\ m # n
        BY <1>3, <2>2
      <4> QED BY <1>1, <2>9, <4>1, <4>2, <4>3 DEF Parting
    <3> QED BY <2>14, <3>1, <3>2, ConcatParted
  <2> QED BY <1>1, <2>4, <2>6, <2>8, <2>9, <2>16 DEF JoinAt
<1>6. JoinAt(p, Len(seqs), y)
  BY <1>2, <1>4, <1>5, Joining!FoldsAlong
<1> QED BY <1>1, <1>3, <1>6 DEF JoinAt, p

-----------------------------------------------------------------------------
(* Groups that are put into the cache anew                                 *)

LEMMA PutIs ==
    ASSUME NEW fs, NEW y, NEW a, NEW V, Kept(fs, y, a, {}, ToSet(y.cache), V),
           NEW g \in Nat, g \notin ToSet(y.cache), NEW v \in V,
           NEW w, w = CachePut(Placed(y, g, v), g)
    PROVE  Kept(fs, w, a, {}, ToSet(w.cache), V) /\ SameShape(y, w) /\ Put(y, g, v, w)
<1> DEFINE z == Placed(y, g, v)
           C == ToSet(y.cache)
           S == {}
           D == C \cup {g}
<1>1. z = Placed(y, g, v) /\ w = CachePut(z, g) /\ Kept(fs, y, a, S, C, V) /\ g \notin C
  OBVIOUS
<1>2. C = ToSet(y.cache)
  OBVIOUS
<1>3. C \cup {g} = D
  OBVIOUS
<1> HIDE DEF z, S, D, C
<1>4. /\ Kept(fs, z, a, S, C \cup {g}, V) /\ SameShape(y, z) /\ z.cache = y.cache
      /\ z.map = y.map /\ Beside(C, y, g, v, z)
  BY ONLY <1>1, PlacedKept, v \in V
<1>5. Kept(fs, z, a, S, D, V) /\ g \notin ToSet(z.cache) /\ g \in Nat
  BY <1>1, <1>2, <1>3, <1>4
<1>6. /\ Kept(fs, w, a, S \ Oldest(z), D \ Oldest(z), V) /\ SameShape(z, w)
      /\ CacheMore(z, g, w) /\ Survives(z, w)
  BY ONLY <1>1, <1>5, CachePutKept
<1>7. /\ Oldest(z) \subseteq C /\ ToSet(w.cache) = (C \ Oldest(z)) \cup {g}
  BY <1>2, <1>4, <1>6 DEF CacheMore
<1>8. ToSet(w.cache) = D \ Oldest(z) /\ S \ Oldest(z) = {}
  BY <1>1, <1>3, <1>7 DEF S
<1>9. Kept(fs, w, a, {}, ToSet(w.cache), V)
  BY <1>6, <1>8
<1>10. ASSUME NEW h \in ToSet(w.cache) PROVE w.heap[h] = IF h = g THEN v ELSE y.heap[h]
  <2>1. h \in DOMAIN w.heap
    BY <1>9 DEF Kept
  <2>2. w.heap[h] = z.heap[h]
    BY <1>6, <2>1 DEF Survives
  <2>3. h = g \/ h \in C
    BY <1>7
  <2> QED BY <1>4, <2>2, <2>3 DEF Beside
<1>11. Put(y, g, v, w)
  BY <1>2, <1>7, <1>10 DEF Put
<1> QED BY <1>4, <1>6, <1>9, <1>11 DEF SameShape

-----------------------------------------------------------------------------
(* Splitting all groups                                                    *)

\* The groups are emptied, then freed: the cache holds none.
LEMMA EmptiedIs ==
    ASSUME NEW old, NEW fs, NEW k, NEW a, NEW V, NEW W, Whole(old, k, a, V), NEW b, b = Mute(a.rule),
           NEW y, y = CacheCleared([k EXCEPT !.heap = [g \in DOMAIN @ |-> <<>>]])
    PROVE  Kept(fs, y, b, {}, {}, W) /\ y.cache = <<>> /\ SameShape(k, y)
<1> DEFINE heap == [g \in DOMAIN k.heap |-> <<>>]
           z == [k EXCEPT !.heap = [g \in DOMAIN @ |-> <<>>]]
           C == ToSet(k.cache)
           V1 == {<<>>}
<1>1. y = CacheCleared(z)
  OBVIOUS
<1>2. z = Reheaped(k, heap)
  <2>1. z = [k EXCEPT !.heap = heap]
    OBVIOUS
  <2>2. Knowing(k)
    BY DEF Whole, Kept, Mapped
  <2> HIDE DEF z, heap
  <2> QED BY ONLY <2>1, <2>2 DEF Knowing, Reheaped
<1>3. heap \in [C -> V1]
  BY DEF Whole, Kept
<1> HIDE DEF heap, z, V1
<1>4. /\ Knowing(z) /\ z.heap = heap /\ z.cache = k.cache /\ z.map = k.map
      /\ z.block = k.block /\ SameShape(k, z)
  BY ONLY <1>2, ReheapedIs
<1>5. ~b.speaks /\ Plain(b)
  BY MuteIs
<1>6. k.cache \in Seq(Nat) /\ IsInjective(k.cache) /\ Mapped(old, k, a, C)
  BY DEF Whole, Kept
<1>7. C = ToSet(k.cache)
  OBVIOUS
<1> HIDE DEF C
<1>8. Mapped(fs, z, b, C)
  BY ONLY <1>4, <1>6, MuteMapped, b = Mute(a.rule)
<1>9. Kept(fs, z, b, C, C, V1)
  BY <1>3, <1>4, <1>5, <1>6, <1>8 DEF Kept
<1>10. /\ Kept(fs, y, b, C \ ToSet(z.cache), C \ ToSet(z.cache), V1)
       /\ SameShape(z, y) /\ y.cache = <<>>
  BY ONLY <1>1, <1>9, CacheClearedKept
<1>11. C \ ToSet(z.cache) = {}
  BY <1>4, <1>7
<1>12. Kept(fs, y, b, {}, {}, V1)
  BY <1>10, <1>11
<1>13. Kept(fs, y, b, {}, {}, W)
  <2>1. y.heap \in [{} -> V1]
    BY <1>12 DEF Kept
  <2>2. y.heap \in [{} -> W]
    BY <2>1
  <2> QED BY <1>12, <2>2 DEF Kept
<1> QED BY <1>4, <1>10, <1>13 DEF SameShape

\* The parts are put into the cache.
PartStep(p, y, n) == CachePut(Placed(y, n, p.parts[n]), n)

PartAt(p, n, y) ==
    /\ Kept(p.fz, y, Mute(p.e), {}, ToSet(y.cache), Group(p.fz)) /\ SameShape(p.k, y)
    /\ \A h \in ToSet(y.cache) : h \in 1..n /\ y.heap[h] = p.parts[h]

PuttingParts == INSTANCE SeqLemmas WITH FoldOp <- PartStep, FoldAt <- PartAt

LEMMA PartsAre ==
    ASSUME NEW fs, NEW k, NEW D, k.heap \in [D -> Group(fs)], k.cache \in Seq(Nat),
           ToSet(k.cache) \subseteq D, NEW seqs,
           seqs = [n \in DOMAIN k.cache |-> GroupSplit(fs, Groups(k)[n])]
    PROVE  /\ Parts(fs, k) = FlattenSeq(seqs) /\ seqs \in Seq(Seq(Group(fs)))
           /\ DOMAIN seqs = DOMAIN k.cache
           /\ \A n \in DOMAIN seqs :
                 /\ k.cache[n] \in ToSet(k.cache)
                 /\ Parted(fs, seqs[n])
                 /\ \A part \in ToSet(seqs[n]) : \A l \in DOMAIN part :
                       part[l] \in ToSet(k.heap[k.cache[n]])
<1> DEFINE F == Fitting(fs)
           G == Group(fs)
<1>1. /\ Len(k.cache) \in Nat /\ DOMAIN k.cache = 1..Len(k.cache)
      /\ \A n \in 1..Len(k.cache) : /\ Groups(k)[n] = k.heap[k.cache[n]]
                                    /\ k.cache[n] \in ToSet(k.cache)
  BY GroupsAre
<1>2. Parts(fs, k) = FlattenSeq(seqs)
  BY DEF Parts
<1>3. \A n \in 1..Len(k.cache) : k.heap[k.cache[n]] \in Seq(F)
  BY <1>1, GroupIs
<1>4. ASSUME NEW n \in 1..Len(k.cache)
      PROVE  /\ Parted(fs, seqs[n]) /\ seqs[n] \in Seq(G)
             /\ \A part \in ToSet(seqs[n]) : \A l \in DOMAIN part :
                   part[l] \in ToSet(k.heap[k.cache[n]])
  <2> DEFINE group == k.heap[k.cache[n]]
             parts == seqs[n]
  <2>1. parts = GroupSplit(fs, group) /\ group \in Seq(F)
    BY <1>1, <1>3
  <2> HIDE DEF group, parts
  <2>2. /\ Parted(fs, parts)
        /\ \A p \in DOMAIN parts : \A l \in DOMAIN parts[p] : parts[p][l] \in ToSet(group)
    BY <2>1, GroupSplitIs
  <2>3. parts \in Seq(G)
    BY <2>2 DEF Parted
  <2>4. \A part \in ToSet(parts) : \A l \in DOMAIN part : part[l] \in ToSet(group)
    BY <2>2 DEF ToSet
  <2> QED BY <2>2, <2>3, <2>4 DEF group, parts
<1>5. seqs \in [1..Len(k.cache) -> Seq(G)] /\ DOMAIN seqs = 1..Len(k.cache)
  <2>1. seqs = [n \in 1..Len(k.cache) |-> seqs[n]]
    BY <1>1
  <2>2. \A n \in 1..Len(k.cache) : seqs[n] \in Seq(G)
    BY <1>4
  <2> HIDE DEF G
  <2> QED BY ONLY <2>1, <2>2
<1> HIDE DEF G
<1>6. seqs \in Seq(Seq(G))
  BY <1>1, <1>5, FunctionSeq
<1> QED BY <1>1, <1>2, <1>4, <1>5, <1>6 DEF G

LEMMA GroupsSplitIs ==
    ASSUME NEW old, NEW fs, NEW k, NEW a, Whole(old, k, a, Group(fs)),
           NEW y, y = GroupsSplit(fs, k)
    PROVE  /\ Stocked(y, a.rule, ToSet(y.cache), Group(fs)) /\ SameShape(k, y)
           /\ Parted(fs, Parts(fs, k)) => Apart(fs, y)
<1> DEFINE e == a.rule
           b == Mute(e)
           parts == Parts(fs, k)
           empty == CacheCleared([k EXCEPT !.heap = [g \in DOMAIN @ |-> <<>>]])
           seq == [n \in DOMAIN parts |-> n]
           p == [fz |-> fs, e |-> e, k |-> k, parts |-> parts]
<1>1. p.fz = fs /\ p.e = e /\ p.k = k /\ p.parts = parts
  OBVIOUS
<1>2. y = PuttingParts!Folded(p, empty, seq)
  BY DEF GroupsSplit, FoldLeft, MapThenFoldSet, PuttingParts!Folded, PuttingParts!IterEq,
         PuttingParts!Largest, Max, PartStep
<1>3. parts \in Seq(Group(fs))
  <2> DEFINE seqs == [n \in DOMAIN k.cache |-> GroupSplit(fs, Groups(k)[n])]
             C == ToSet(k.cache)
             G == Group(fs)
  <2>1. k.heap \in [C -> Group(fs)] /\ k.cache \in Seq(Nat)
    BY DEF Whole, Kept
  <2> HIDE DEF seqs
  <2>2. parts = FlattenSeq(seqs) /\ seqs \in Seq(Seq(G))
    BY <2>1, PartsAre DEF seqs
  <2> HIDE DEF G, parts
  <2>3. parts \in Seq(G)
    BY <2>2, FlattenIs
  <2> QED BY <2>3 DEF G
<1>4. Kept(fs, empty, b, {}, {}, Group(fs)) /\ empty.cache = <<>> /\ SameShape(k, empty)
  BY EmptiedIs
<1>5. Len(parts) \in Nat /\ DOMAIN parts = 1..Len(parts)
      /\ \A n \in 1..Len(parts) : parts[n] \in Group(fs)
  BY <1>3, LenProperties, ElementOfSeq
<1>6. seq \in Seq(Nat) /\ Len(seq) = Len(parts) /\ \A n \in 1..Len(parts) : seq[n] = n
  <2>1. seq \in [1..Len(parts) -> Nat] /\ \A n \in 1..Len(parts) : seq[n] = n
    BY <1>5
  <2> HIDE DEF seq
  <2> QED BY <1>5, <2>1, FunctionSeq
<1>7. b = Mute(p.e)
  BY <1>1
<1> HIDE DEF p, parts, empty, seq, b, e
<1>8. PartAt(p, 0, empty)
  <2>1. ToSet(empty.cache) = {}
    BY <1>4 DEF ToSet
  <2> QED BY <1>1, <1>4, <1>7, <2>1 DEF PartAt
<1>9. ASSUME NEW z, NEW n \in 1..Len(seq), PartAt(p, n - 1, z)
      PROVE  PartAt(p, n, PartStep(p, z, seq[n]))
  <2> DEFINE v == parts[n]
             w == CachePut(Placed(z, n, v), n)
  <2>1. /\ n \in Nat /\ n \in 1..n /\ n \notin 1..n - 1 /\ 1..n - 1 \subseteq 1..n
        /\ seq[n] = n /\ v \in Group(fs)
    BY <1>5, <1>6
  <2>2. /\ Kept(fs, z, b, {}, ToSet(z.cache), Group(fs)) /\ SameShape(k, z)
        /\ \A h \in ToSet(z.cache) : h \in 1..n - 1 /\ z.heap[h] = parts[h]
    BY <1>1, <1>7, <1>9 DEF PartAt
  <2>3. n \notin ToSet(z.cache)
    BY <2>1, <2>2
  <2>4. PartStep(p, z, seq[n]) = w
    BY <1>1, <2>1 DEF PartStep
  <2>5. w = CachePut(Placed(z, n, v), n)
    OBVIOUS
  <2> HIDE DEF w
  <2>6. Kept(fs, w, b, {}, ToSet(w.cache), Group(fs)) /\ SameShape(z, w) /\ Put(z, n, v, w)
    BY <2>1, <2>2, <2>3, <2>5, PutIs
  <2>7. \A h \in ToSet(w.cache) : h \in 1..n /\ w.heap[h] = parts[h]
    BY <2>1, <2>2, <2>6 DEF Put
  <2>8. SameShape(k, w)
    BY <2>2, <2>6 DEF SameShape
  <2> QED BY <1>1, <1>7, <2>4, <2>6, <2>7, <2>8 DEF PartAt
<1>10. PartAt(p, Len(seq), y)
  BY <1>2, <1>6, <1>8, <1>9, PuttingParts!FoldsAlong
<1>11. Kept(fs, y, b, {}, ToSet(y.cache), Group(fs)) /\ SameShape(k, y)
       /\ \A h \in ToSet(y.cache) : h \in DOMAIN parts /\ y.heap[h] = parts[h]
  BY <1>1, <1>5, <1>6, <1>7, <1>10 DEF PartAt
<1>12. Stocked(y, e, ToSet(y.cache), Group(fs))
  BY <1>11, KeptStocked, MuteIs DEF b
<1>13. ASSUME Parted(fs, parts) PROVE Apart(fs, y)
  BY <1>11, <1>13 DEF Parted, Apart, Agreed, Distinct
<1> QED BY <1>11, <1>12, <1>13 DEF e, parts

-----------------------------------------------------------------------------
(* Loading                                                                 *)

\* The position of the group an observation belongs to.
Home(fs, y, o) ==
    FirstWhere(Groups(y), LAMBDA h : h = <<>> \/ EnabledInputEquals(fs, Head(h), o))

LEMMA HomeIs ==
    ASSUME NEW fs, NEW y, NEW D, y.heap \in [D -> Group(fs)],
           y.cache \in Seq(Nat), ToSet(y.cache) \subseteq D, NEW o,
           NEW n, n = Home(fs, y, o)
    PROVE  /\ n # 0 => n \in DOMAIN y.cache /\ y.cache[n] \in ToSet(y.cache)
                       /\ Same(fs, Head(y.heap[y.cache[n]]), o)
           /\ n = 0 => \A h \in ToSet(y.cache) : ~Same(fs, Head(y.heap[h]), o)
<1> DEFINE seq == Groups(y)
           I == {i \in 1..Len(seq) : seq[i] = <<>> \/ EnabledInputEquals(fs, Head(seq[i]), o)}
           m == IF I # {} THEN Min(I) ELSE 0
<1>1. n = m
  BY DEF Home, FirstWhere, SelectInSeq
<1>2. /\ seq \in Seq(Group(fs)) /\ Len(seq) = Len(y.cache)
      /\ Len(y.cache) \in Nat /\ DOMAIN y.cache = 1..Len(y.cache)
      /\ \A i \in 1..Len(y.cache) : /\ seq[i] = y.heap[y.cache[i]]
                                    /\ y.cache[i] \in ToSet(y.cache)
  BY GroupsAre
<1>3. /\ m \in 0..Len(seq)
      /\ m # 0 => m \in I
      /\ m = 0 => I = {}
  <2>1. I \in SUBSET (1..Len(seq)) /\ m = (IF I # {} THEN Min(I) ELSE 0) /\ Len(seq) \in Nat
    BY <1>2
  <2> HIDE DEF I, m
  <2> QED BY <2>1, FirstIs
<1>4. \A i \in 1..Len(y.cache) : i \in I <=> Same(fs, Head(y.heap[y.cache[i]]), o)
  <2>1. \A v \in Group(fs) : v # <<>>
    BY DEF Group
  <2>2. \A i \in 1..Len(y.cache) : y.heap[y.cache[i]] # <<>>
    BY <1>2, <2>1
  <2> HIDE DEF seq
  <2> QED BY <1>2, <2>2 DEF Same
<1> HIDE DEF seq, I, m
<1>5. ASSUME n # 0 PROVE n \in DOMAIN y.cache /\ y.cache[n] \in ToSet(y.cache)
                         /\ Same(fs, Head(y.heap[y.cache[n]]), o)
  <2>1. n \in 1..Len(y.cache) /\ n \in I
    BY <1>1, <1>2, <1>3, <1>5
  <2> QED BY <1>2, <1>4, <2>1
<1>6. ASSUME n = 0, NEW h \in ToSet(y.cache) PROVE ~Same(fs, Head(y.heap[h]), o)
  <2>1. PICK i \in 1..Len(y.cache) : h = y.cache[i]
    BY <1>2 DEF ToSet
  <2> QED BY <1>1, <1>3, <1>4, <1>6, <2>1
<1> QED BY <1>5, <1>6

\* What an observation that agrees with a group makes of it.
LEMMA JoinedGroup ==
    ASSUME NEW fs, NEW group \in Group(fs), NEW o \in Fitting(fs), NEW new, new = Append(group, o)
    PROVE  /\ new \in Group(fs) /\ Head(new) = Head(group)
           /\ Agree(fs, group) /\ Same(fs, Head(group), o) => Agree(fs, new)
<1> DEFINE l == Len(group)
<1>1. /\ group \in Seq(Fitting(fs)) /\ l \in Nat /\ DOMAIN group = 1..l
      /\ 1 \in 1..l /\ Head(group) = group[1]
  BY GroupIs
<1>2. /\ new \in Seq(Fitting(fs)) /\ new # <<>> /\ Len(new) = l + 1
      /\ \A i \in 1..l : new[i] = group[i]
      /\ new[l + 1] = o
  BY <1>1, AppendProperties
<1>3. new \in Group(fs)
  BY <1>2 DEF Group
<1>4. DOMAIN new = 1..l + 1 /\ Head(new) = new[1]
  BY <1>2, <1>3, GroupIs
<1> HIDE DEF l
<1>5. Head(new) = Head(group)
  BY <1>1, <1>2, <1>4
<1>6. \A i \in DOMAIN new : (i \in DOMAIN group /\ new[i] = group[i]) \/ new[i] = o
  BY <1>1, <1>2, <1>4
<1>7. ASSUME Agree(fs, group), Same(fs, Head(group), o) PROVE Agree(fs, new)
  <2>1. \A i \in DOMAIN new : Same(fs, Head(group), new[i])
    BY <1>1, <1>6, <1>7 DEF Agree
  <2> QED BY <2>1, SameIs DEF Agree
<1> QED BY <1>3, <1>5, <1>7

LEMMA ObservationLoadedIs ==
    ASSUME NEW fs, NEW y, NEW e, NEW b, b = Mute(e), Kept(fs, y, b, {}, ToSet(y.cache), Group(fs)),
           NEW o \in Fitting(fs), NEW w, w = ObservationLoaded(fs, y, o)
    PROVE  /\ Kept(fs, w, b, {}, ToSet(w.cache), Group(fs)) /\ SameShape(y, w)
           /\ Apart(fs, y) => Apart(fs, w)
<1> DEFINE n == Home(fs, y, o)
           C == ToSet(y.cache)
           G == Group(fs)
<1>1. /\ w = IF n = 0 THEN CachePut(Placed(y, FreshGroup(y), <<o>>), FreshGroup(y))
             ELSE [y EXCEPT !.heap[y.cache[n]] = Append(@, o)]
  BY DEF ObservationLoaded, Home
<1>2. y.heap \in [C -> G] /\ y.cache \in Seq(Nat) /\ IsInjective(y.cache)
  BY DEF Kept
<1>3. /\ n # 0 => y.cache[n] \in C /\ Same(fs, Head(y.heap[y.cache[n]]), o)
      /\ n = 0 => \A h \in C : ~Same(fs, Head(y.heap[h]), o)
  <2>1. n = Home(fs, y, o) /\ C \subseteq C
    OBVIOUS
  <2> HIDE DEF n
  <2> QED BY <1>2, <2>1, HomeIs
<1> HIDE DEF n
<1>4. CASE n = 0
  <2> DEFINE g == FreshGroup(y)
             v == <<o>>
  <2>1. g \in Nat /\ g \notin C
    <3>1. DOMAIN y.heap = C /\ IsFiniteSet(C)
      BY <1>2, ToSetFinite
    <3> QED BY <3>1, FreshGroupIs
  <2>2. v \in G /\ Head(v) = o /\ Agree(fs, v)
    <3>1. v \in G /\ Len(v) = 1 /\ DOMAIN v = 1..1 /\ v[1] = o /\ Head(v) = o
      BY DEF Group
    <3> QED BY <3>1, SameIs DEF Agree
  <2>3. w = CachePut(Placed(y, g, v), g)
    BY <1>1, <1>4
  <2> HIDE DEF g, v, G
  <2>4. Kept(fs, y, b, {}, C, G)
    BY DEF G
  <2>5. Kept(fs, w, b, {}, ToSet(w.cache), G) /\ SameShape(y, w) /\ Put(y, g, v, w)
    BY <2>1, <2>2, <2>3, <2>4, PutIs
  <2>6. ASSUME Apart(fs, y) PROVE Apart(fs, w)
    <3>1. \A h \in ToSet(w.cache) : \/ h = g /\ w.heap[h] = v
                                    \/ h # g /\ h \in C /\ w.heap[h] = y.heap[h]
      BY <2>5 DEF Put
    <3>2. Agreed(fs, w.heap, ToSet(w.cache))
      BY <2>2, <2>6, <3>1 DEF Apart, Agreed
    <3>3. \A h \in C : ~Same(fs, Head(y.heap[h]), o) /\ ~Same(fs, o, Head(y.heap[h]))
      BY <1>3, <1>4, SameIs
    <3>4. \A h \in C, x \in C : h # x => ~Same(fs, Head(y.heap[h]), Head(y.heap[x]))
      BY <2>6 DEF Apart, Distinct
    <3>5. Distinct(fs, w.heap, ToSet(w.cache))
      BY <2>2, <3>1, <3>3, <3>4 DEF Distinct
    <3> QED BY <3>2, <3>5 DEF Apart
  <2> QED BY <2>5, <2>6 DEF G
<1>5. CASE n # 0
  <2> DEFINE g == y.cache[n]
             v == Append(y.heap[g], o)
             heap == [y.heap EXCEPT ![g] = v]
  <2>1. g \in C /\ Same(fs, Head(y.heap[g]), o) /\ y.heap[g] \in G
    BY <1>2, <1>3, <1>5
  <2>2. w = Reheaped(y, heap)
    <3>1. w = [y EXCEPT !.heap = heap]
      BY <1>1, <1>5
    <3>2. Knowing(y)
      BY DEF Kept, Mapped
    <3> HIDE DEF heap
    <3> QED BY ONLY <3>1, <3>2 DEF Knowing, Reheaped
  <2>3. /\ v \in G /\ Head(v) = Head(y.heap[g])
        /\ Agree(fs, y.heap[g]) => Agree(fs, v)
    <3> DEFINE group == y.heap[g]
    <3>1. group \in Group(fs) /\ Same(fs, Head(group), o) /\ v = Append(group, o)
      BY <2>1
    <3> HIDE DEF group, v
    <3>2. v \in Group(fs) /\ Head(v) = Head(group) /\ (Agree(fs, group) => Agree(fs, v))
      BY <3>1, JoinedGroup
    <3> QED BY <3>2 DEF group
  <2> HIDE DEF v, g
  <2>4. /\ heap \in [C -> G] /\ heap[g] = v
        /\ \A h \in C : h # g => heap[h] = y.heap[h]
    BY <1>2, <2>1, <2>3
  <2> HIDE DEF heap, G, C
  <2>5. /\ Knowing(w) /\ w.heap = heap /\ w.cache = y.cache /\ w.map = y.map
        /\ w.block = y.block /\ SameShape(y, w)
    BY ONLY <2>2, ReheapedIs
  <2>6. Mapped(fs, w, b, {})
    <3>1. Mapped(fs, y, b, {}) /\ b = Mute(b.rule)
      BY MuteIs DEF Kept
    <3> QED BY <2>5, <3>1, MuteMapped
  <2>7. Kept(fs, w, b, {}, ToSet(w.cache), Group(fs))
    BY <1>2, <2>4, <2>5, <2>6 DEF Kept, G, C
  <2>8. ASSUME Apart(fs, y) PROVE Apart(fs, w)
    <3>1. \A h \in C : Head(heap[h]) = Head(y.heap[h]) /\ Agree(fs, heap[h])
      BY <2>3, <2>4, <2>8 DEF Apart, Agreed, C
    <3> QED BY <2>5, <2>8, <3>1 DEF Apart, Agreed, Distinct, C
  <2> QED BY <2>5, <2>7, <2>8
<1> QED BY <1>4, <1>5

LoadStep(p, y, o) == ObservationLoaded(p.fz, y, o)

LoadAt(p, n, y) ==
    /\ Kept(p.fz, y, Mute(p.e), {}, ToSet(y.cache), Group(p.fz))
    /\ SameShape(p.k, y) /\ Apart(p.fz, y)

Loading == INSTANCE SeqLemmas WITH FoldOp <- LoadStep, FoldAt <- LoadAt

\* An engine that knows nothing.
LEMMA EmptyIs ==
    ASSUME NEW fs, NEW max, NEW a, NEW V, Plain(a), NEW y, y = [NewController EXCEPT !.max = max]
    PROVE  /\ Kept(fs, y, a, {}, {}, V) /\ y.cache = <<>> /\ y.map = <<>> /\ ~y.noSimpl
           /\ ToSet(y.cache) = {} /\ Apart(fs, y)
<1>1. y = [heap |-> <<>>, cache |-> <<>>, max |-> max, map |-> <<>>, block |-> EmptyBag,
           noSimpl |-> FALSE]
  BY DEF NewController
<1>2. /\ y.heap = <<>> /\ y.cache = <<>> /\ y.max = max /\ y.map = <<>>
      /\ y.block = EmptyBag /\ y.noSimpl = FALSE
  BY <1>1
<1>3. Knowing(y)
  BY <1>1, <1>2 DEF Knowing
<1>4. <<>> \in Seq(Nat) /\ <<>> \in Seq(Seq(RuleGroup)) /\ IsInjective(<<>>) /\ ToSet(<<>>) = {}
      /\ DOMAIN <<>> = {}
  BY DEF IsInjective, ToSet
<1>5. Carried(a.rule, y)
  <2>1. IsABag(EmptyBag) /\ Copies(a.rule, EmptyBag) = 0
    BY DEF IsABag, EmptyBag, SetToBag, Copies
  <2>2. Total(a.rule, <<>>) = 0
    BY <1>4, TotalIs
  <2> QED BY <1>2, <1>4, <2>1, <2>2 DEF Carried
<1>6. Mapped(fs, y, a, {})
  BY <1>2, <1>3, <1>4, <1>5 DEF Mapped
<1>7. y.heap \in [{} -> V]
  <2>1. <<>> \in [1..Len(<<>>) -> V] /\ Len(<<>>) = 0
    BY LenProperties
  <2>2. 1..0 = {}
    OBVIOUS
  <2> QED BY <1>2, <2>1, <2>2
<1>8. Kept(fs, y, a, {}, {}, V)
  BY <1>2, <1>4, <1>6, <1>7 DEF Kept
<1>9. Apart(fs, y)
  BY <1>2, <1>4 DEF Apart, Agreed, Distinct
<1> QED BY <1>2, <1>4, <1>8, <1>9

LEMMA ObservationsLoadedIs ==
    ASSUME NEW fs, NEW k, NEW e, Kept(fs, k, Mute(e), {}, ToSet(k.cache), Group(fs)), Apart(fs, k),
           NEW file \in Seq(Fitting(fs)), NEW y, y = ObservationsLoaded(fs, k, file)
    PROVE  Stocked(y, e, ToSet(y.cache), Group(fs)) /\ SameShape(k, y) /\ Apart(fs, y)
<1> DEFINE p == [fz |-> fs, e |-> e, k |-> k]
<1>1. p.fz = fs /\ p.e = e /\ p.k = k
  OBVIOUS
<1>2. y = Loading!Folded(p, k, file)
  BY DEF ObservationsLoaded, FoldLeft, MapThenFoldSet, Loading!Folded, Loading!IterEq,
         Loading!Largest, Max, LoadStep
<1> HIDE DEF p
<1>3. LoadAt(p, 0, k)
  BY <1>1 DEF LoadAt, SameShape
<1>4. ASSUME NEW z, NEW n \in 1..Len(file), LoadAt(p, n - 1, z)
      PROVE  LoadAt(p, n, LoadStep(p, z, file[n]))
  <2> DEFINE o == file[n]
             w == ObservationLoaded(fs, z, o)
             b == Mute(e)
  <2>1. o \in Fitting(fs)
    BY ElementOfSeq
  <2>2. Kept(fs, z, b, {}, ToSet(z.cache), Group(fs)) /\ SameShape(k, z) /\ Apart(fs, z)
    BY <1>1, <1>4 DEF LoadAt
  <2>3. LoadStep(p, z, file[n]) = w
    BY <1>1 DEF LoadStep
  <2>4. w = ObservationLoaded(fs, z, o) /\ b = Mute(e)
    OBVIOUS
  <2> HIDE DEF w, o, b
  <2>5. Kept(fs, w, b, {}, ToSet(w.cache), Group(fs)) /\ SameShape(z, w) /\ Apart(fs, w)
    BY <2>1, <2>2, <2>4, ObservationLoadedIs
  <2>6. SameShape(k, w)
    BY <2>2, <2>5 DEF SameShape
  <2> QED BY <1>1, <2>3, <2>4, <2>5, <2>6 DEF LoadAt
<1>5. LoadAt(p, Len(file), y)
  BY <1>2, <1>3, <1>4, Loading!FoldsAlong
<1>6. Kept(fs, y, Mute(e), {}, ToSet(y.cache), Group(fs)) /\ SameShape(k, y) /\ Apart(fs, y)
  BY <1>1, <1>5 DEF LoadAt
<1>7. Stocked(y, e, ToSet(y.cache), Group(fs))
  BY <1>6, KeptStocked, MuteIs
<1> QED BY <1>6, <1>7

\* What is saved.
LEMMA SavedIs ==
    ASSUME NEW fs, NEW k, NEW D, k.heap \in [D -> Group(fs)], k.cache \in Seq(Nat), ToSet(k.cache) \subseteq D
    PROVE  Saved(k) \in Seq(Fitting(fs))
<1> DEFINE F == Fitting(fs)
           groups == Groups(k)
<1>1. groups \in Seq(Group(fs))
  BY GroupsAre
<1>2. groups \in Seq(Seq(F))
  <2>1. Group(fs) \subseteq Seq(F)
    BY DEF Group
  <2>2. Len(groups) \in Nat /\ groups \in [1..Len(groups) -> Group(fs)]
    BY <1>1, LenProperties
  <2> HIDE DEF groups
  <2>3. groups \in [1..Len(groups) -> Seq(F)]
    BY <2>1, <2>2
  <2> QED BY <2>2, <2>3, FunctionSeq
<1> HIDE DEF groups, F
<1>3. FlattenSeq(groups) \in Seq(F)
  BY <1>2, FlattenIs
<1> QED BY <1>3 DEF Saved, groups, F

-----------------------------------------------------------------------------
(* Empty groups leave                                                      *)

EmptyStep(p, y, g) ==
    IF y.heap[g] = <<>> THEN CacheRemoved(y, FirstWhere(y.cache, LAMBDA h : h = g)) ELSE y

EmptyAt(p, n, y) ==
    /\ Whole(p.fz, y, p.a, p.V) /\ SameShape(p.k, y) /\ Survives(p.k, y)
    /\ Behind(p.seq, n) \subseteq ToSet(y.cache)
    /\ \A g \in ToSet(y.cache) : g \in FirstOf(p.seq, n) => y.heap[g] # <<>>
    /\ ToSet(y.cache) \subseteq ToSet(p.seq)

Emptying == INSTANCE SeqLemmas WITH FoldOp <- EmptyStep, FoldAt <- EmptyAt

LEMMA EmptyStepIs ==
    ASSUME NEW p, p.seq \in Seq(Nat), IsInjective(p.seq), NEW n \in 1..Len(p.seq),
           NEW y, EmptyAt(p, n - 1, y), NEW w, w = EmptyStep(p, y, p.seq[n])
    PROVE  EmptyAt(p, n, w)
<1> DEFINE g == p.seq[n]
           m == PlaceOf(y.cache, g)
<1>1. /\ Behind(p.seq, n - 1) = Behind(p.seq, n) \cup {g} /\ g \notin Behind(p.seq, n)
      /\ g \notin FirstOf(p.seq, n - 1) /\ FirstOf(p.seq, n - 1) \cap Behind(p.seq, n) = {}
  BY BehindIs
<1>2. FirstOf(p.seq, n) = FirstOf(p.seq, n - 1) \cup {g}
  BY FrontIs
<1>3. /\ Whole(p.fz, y, p.a, p.V) /\ SameShape(p.k, y) /\ Survives(p.k, y)
      /\ Behind(p.seq, n - 1) \subseteq ToSet(y.cache)
      /\ \A h \in ToSet(y.cache) : h \in FirstOf(p.seq, n - 1) => y.heap[h] # <<>>
      /\ ToSet(y.cache) \subseteq ToSet(p.seq)
  BY DEF EmptyAt
<1>4. w = IF y.heap[g] = <<>> THEN CacheRemoved(y, m) ELSE y
  BY DEF EmptyStep, PlaceOf, FirstWhere
<1>5. m \in DOMAIN y.cache /\ y.cache[m] = g
  <2>1. y.cache \in Seq(Nat) /\ g \in ToSet(y.cache)
    BY <1>1, <1>3 DEF Whole, Kept
  <2> QED BY <2>1, PlaceOfIs
<1> HIDE DEF g, m
<1>6. CASE y.heap[g] # <<>>
  <2>1. w = y
    BY <1>4, <1>6
  <2>2. Behind(p.seq, n) \subseteq ToSet(w.cache)
    BY <1>1, <1>3, <2>1
  <2>3. \A h \in ToSet(w.cache) : h \in FirstOf(p.seq, n) => w.heap[h] # <<>>
    BY <1>2, <1>3, <1>6, <2>1
  <2> QED BY <1>3, <2>1, <2>2, <2>3 DEF EmptyAt
<1>7. CASE y.heap[g] = <<>>
  <2>1. w = CacheRemoved(y, m)
    BY <1>4, <1>7
  <2>2. Whole(p.fz, w, p.a, p.V) /\ SameShape(y, w) /\ CacheLess(y, g, w) /\ Survives(y, w)
    BY <1>3, <1>5, <2>1, CacheRemovedWhole
  <2>3. ToSet(w.cache) = ToSet(y.cache) \ {g}
    BY <2>2 DEF CacheLess
  <2>4. \A h \in ToSet(w.cache) : w.heap[h] = y.heap[h]
    BY <2>2 DEF Survives, Whole, Kept
  <2>5. Survives(p.k, w) /\ SameShape(p.k, w)
    BY <1>3, <2>2 DEF Survives, SameShape
  <2>6. Behind(p.seq, n) \subseteq ToSet(w.cache)
    BY <1>1, <1>3, <2>3
  <2>7. \A h \in ToSet(w.cache) : h \in FirstOf(p.seq, n) => w.heap[h] # <<>>
    BY <1>2, <1>3, <2>3, <2>4
  <2>8. ToSet(w.cache) \subseteq ToSet(p.seq)
    BY <1>3, <2>3
  <2> QED BY <2>2, <2>5, <2>6, <2>7, <2>8 DEF EmptyAt
<1> QED BY <1>6, <1>7

\* What is left has observations, and is what it was.
LEMMA EmptyGroupsRemovedIs ==
    ASSUME NEW fs, NEW k, NEW a, NEW V, Whole(fs, k, a, V), NEW y, y = EmptyGroupsRemoved(k)
    PROVE  /\ Whole(fs, y, a, V \ {<<>>}) /\ SameShape(k, y) /\ Survives(k, y)
           /\ ToSet(y.cache) \subseteq ToSet(k.cache)
<1> DEFINE p == [fz |-> fs, k |-> k, a |-> a, V |-> V, seq |-> k.cache]
           seq == k.cache
<1>1. p.fz = fs /\ p.k = k /\ p.a = a /\ p.V = V /\ p.seq = seq
  OBVIOUS
<1>2. y = Emptying!Folded(p, k, seq)
  BY DEF EmptyGroupsRemoved, FoldLeft, MapThenFoldSet, Emptying!Folded, Emptying!IterEq,
         Emptying!Largest, Max, EmptyStep
<1>3. seq \in Seq(Nat) /\ IsInjective(seq)
  BY DEF Whole, Kept
<1> HIDE DEF p
<1>4. /\ Behind(seq, 0) = ToSet(seq) /\ FirstOf(seq, 0) = {} /\ FirstOf(seq, Len(seq)) = ToSet(seq)
  BY <1>3, BehindIs, FrontIs
<1>5. EmptyAt(p, 0, k)
  BY <1>1, <1>4 DEF EmptyAt, SameShape, Survives
<1>6. ASSUME NEW z, NEW n \in 1..Len(seq), EmptyAt(p, n - 1, z)
      PROVE  EmptyAt(p, n, EmptyStep(p, z, seq[n]))
  BY <1>1, <1>3, <1>6, EmptyStepIs
<1>7. EmptyAt(p, Len(seq), y)
  BY <1>2, <1>3, <1>5, <1>6, Emptying!FoldsAlong
<1>8. /\ Whole(fs, y, a, V) /\ SameShape(k, y) /\ Survives(k, y)
      /\ \A g \in ToSet(y.cache) : y.heap[g] # <<>>
      /\ ToSet(y.cache) \subseteq ToSet(seq)
  BY <1>1, <1>4, <1>7 DEF EmptyAt
<1>9. y.heap \in [ToSet(y.cache) -> V \ {<<>>}]
  <2>1. y.heap \in [ToSet(y.cache) -> V]
    BY <1>8 DEF Whole, Kept
  <2> QED BY <1>8, <2>1
<1>10. Whole(fs, y, a, V \ {<<>>})
  BY <1>8, <1>9 DEF Whole, Kept
<1> QED BY <1>8, <1>10

-----------------------------------------------------------------------------
(* A variable goes                                                         *)

LEMMA VariableRemovedIs ==
    ASSUME NEW fs, Vars(fs), NEW after, NEW v, NEW input \in BOOLEAN,
           VariableLess(fs, after, v, input), NEW k, NEW a, Whole(fs, k, a, Group(fs)),
           NEW y, y = VariableRemoved(k, v, input)
    PROVE  /\ Stocked(y, a.rule, ToSet(y.cache), Group(after)) /\ SameShape(k, y)
           /\ Agreed(fs, k.heap, ToSet(k.cache)) => Agreed(after, y.heap, ToSet(y.cache))
<1> DEFINE C == ToSet(k.cache)
           F == Seq(Fitting(after))
           heap == [g \in DOMAIN k.heap |-> GroupRemoveVariable(k.heap[g], v, input)]
           z == [k EXCEPT !.heap = [g \in DOMAIN @ |-> GroupRemoveVariable(@[g], v, input)]]
           b == Mute(a.rule)
<1>1. y = EmptyGroupsRemoved(z)
  BY DEF VariableRemoved
<1>2. z = Reheaped(k, heap)
  <2>1. z = [k EXCEPT !.heap = heap]
    OBVIOUS
  <2>2. Knowing(k)
    BY DEF Whole, Kept, Mapped
  <2> HIDE DEF z, heap
  <2> QED BY ONLY <2>1, <2>2 DEF Knowing, Reheaped
<1>3. k.heap \in [C -> Group(fs)] /\ k.cache \in Seq(Nat) /\ IsInjective(k.cache) /\ Mapped(fs, k, a, C)
  BY DEF Whole, Kept
<1>4. \A g \in C : /\ heap[g] = GroupRemoveVariable(k.heap[g], v, input)
                   /\ heap[g] \in F
                   /\ Agree(fs, k.heap[g]) => Agree(after, heap[g])
  <2>1. ASSUME NEW g \in C
        PROVE  /\ heap[g] = GroupRemoveVariable(k.heap[g], v, input)
               /\ heap[g] \in F
               /\ Agree(fs, k.heap[g]) => Agree(after, heap[g])
    <3> DEFINE group == k.heap[g]
               new == heap[g]
    <3>1. group \in Group(fs) /\ new = GroupRemoveVariable(group, v, input)
      BY <1>3
    <3> HIDE DEF group, new
    <3>2. new \in F /\ (Agree(fs, group) => Agree(after, new))
      BY <3>1, GroupRemoveVariableIs
    <3> QED BY <3>1, <3>2 DEF group, new
  <2> QED BY <2>1
<1>5. heap \in [C -> F]
  <2>1. heap = [g \in C |-> heap[g]]
    BY <1>3
  <2>2. \A g \in C : heap[g] \in F
    BY <1>4
  <2> HIDE DEF heap
  <2> QED BY ONLY <2>1, <2>2
<1> HIDE DEF heap, z
<1>6. /\ Knowing(z) /\ z.heap = heap /\ z.cache = k.cache /\ z.map = k.map
      /\ z.block = k.block /\ SameShape(k, z)
  BY ONLY <1>2, ReheapedIs
<1>7. ~b.speaks /\ Plain(b) /\ b.rule = a.rule
  BY MuteIs
<1>8. b = Mute(a.rule)
  OBVIOUS
<1> HIDE DEF b, C, F
<1>9. Mapped(after, z, b, C)
  BY ONLY <1>3, <1>6, <1>8, MuteMapped
<1>10. Whole(after, z, b, F)
  BY <1>3, <1>5, <1>6, <1>7, <1>9 DEF Whole, Kept, C
<1>11. /\ Whole(after, y, b, F \ {<<>>}) /\ SameShape(z, y) /\ Survives(z, y)
       /\ ToSet(y.cache) \subseteq C
  BY <1>1, <1>6, <1>10, EmptyGroupsRemovedIs DEF C
<1>12. F \ {<<>>} = Group(after)
  BY DEF F, Group
<1>13. Stocked(y, a.rule, ToSet(y.cache), Group(after))
  BY <1>7, <1>11, <1>12, KeptStocked DEF Whole
<1>14. ASSUME Agreed(fs, k.heap, C) PROVE Agreed(after, y.heap, ToSet(y.cache))
  <2>1. \A g \in ToSet(y.cache) : g \in C /\ y.heap[g] = heap[g]
    BY <1>6, <1>11 DEF Survives, Whole, Kept
  <2> QED BY <1>4, <1>14, <2>1 DEF Agreed
<1> QED BY <1>6, <1>11, <1>13, <1>14 DEF SameShape, C

\* What is done after a removal: the rules are made anew, and no two groups
\* agree.
LEMMA PostRemoveIs ==
    ASSUME NEW fs, Vars(fs), NEW k, NEW e, Stocked(k, e, ToSet(k.cache), Group(fs)),
           NEW speaks \in BOOLEAN, NEW y, y = PostRemove(fs, k)
    PROVE  /\ Whole(fs, y, ClaimOf(speaks, y, e), Group(fs)) /\ Len(y.map) = Len(fs.outTerms)
           /\ Agreed(fs, k.heap, ToSet(k.cache)) => Apart(fs, y)
<1> DEFINE z == GroupsMerged(fs, k)
<1>1. z = GroupsMerged(fs, k) /\ y = RulesRebuilt(fs, MapCleared(z))
  BY DEF PostRemove
<1> HIDE DEF z
<1>2. /\ Stocked(z, e, ToSet(z.cache), Group(fs))
      /\ Agreed(fs, k.heap, ToSet(k.cache)) => Apart(fs, z)
  BY <1>1, GroupsMergedIs
<1>3. /\ Whole(fs, y, ClaimOf(speaks, y, e), Group(fs)) /\ SameBut(z, y)
      /\ Len(y.map) = Len(fs.outTerms)
  BY <1>1, <1>2, RebuiltFromNothing
<1>4. Apart(fs, z) => Apart(fs, y)
  BY <1>3 DEF Apart, SameBut
<1> QED BY <1>2, <1>3, <1>4

\* Observations that agree still do when a term is gone.
LEMMA SameTermGone ==
    ASSUME NEW fs, Vars(fs), NEW after, NEW v, NEW t, NEW input \in BOOLEAN,
           TermLess(fs, after, v, input), NEW o \in Fitting(fs), NEW p \in Fitting(fs),
           RemoveTermOutcome(o, v, t, input) = "ok", RemoveTermOutcome(p, v, t, input) = "ok",
           Same(fs, o, p)
    PROVE  Same(after, ObservationRemoveTerm(o, v, t, input), ObservationRemoveTerm(p, v, t, input))
<1> DEFINE q == ObservationRemoveTerm(o, v, t, input)
           r == ObservationRemoveTerm(p, v, t, input)
<1>1. /\ ~input => q.in = o.in /\ r.in = p.in
      /\ input => Shifted(o.in, v, t, q.in) /\ Shifted(p.in, v, t, r.in)
  BY ObservationRemoveTermIs
<1>2. t \in Nat \ {0}
  <2>1. /\ o.in \in Seq(Seq({0, 1})) /\ o.out \in Seq(Seq(Weights))
    BY ObservationIs
  <2>2. CASE input
    <3>1. v \in DOMAIN o.in /\ t \in DOMAIN o.in[v]
      BY <2>2 DEF RemoveTermOutcome
    <3>2. o.in[v] \in Seq({0, 1})
      BY <2>1, <3>1
    <3> QED BY <3>1, <3>2
  <2>3. CASE ~input
    <3>1. v \in DOMAIN o.out /\ t \in DOMAIN o.out[v]
      BY <2>3 DEF RemoveTermOutcome
    <3>2. o.out[v] \in Seq(Weights)
      BY <2>1, <3>1
    <3> QED BY <3>1, <3>2
  <2> QED BY <2>2, <2>3
<1> HIDE DEF q, r
<1>3. fs.inTerms \in Seq(Nat) /\ Enabled(fs) \subseteq 1..Len(fs.inTerms)
  BY DEF Vars, Enabled
<1>4. \A i \in Enabled(fs) : \A s \in 1..fs.inTerms[i] : At(o.in, i, s) = At(p.in, i, s)
  BY DEF Same, EnabledInputEquals, SameOn, InBit
<1>5. CASE input
  <2>1. /\ after.inTerms = OneLess(fs.inTerms, v) /\ after.inEnabled = fs.inEnabled
        /\ v \in 1..Len(fs.inTerms)
    BY <1>3, <1>5 DEF TermLess
  <2>2. /\ Enabled(after) = Enabled(fs)
        /\ \A i \in Enabled(fs) : i # v => after.inTerms[i] = fs.inTerms[i]
        /\ after.inTerms[v] = fs.inTerms[v] - 1
    BY <1>3, <2>1 DEF Enabled, OneLess
  <2>3. ASSUME NEW i \in Enabled(fs), NEW s \in 1..after.inTerms[i]
        PROVE  At(q.in, i, s) = At(r.in, i, s)
    <3>1. CASE i # v
      BY <1>1, <1>4, <1>5, <2>2, <2>3, <3>1 DEF Shifted
    <3>2. CASE i = v
      <4> DEFINE w == fs.inTerms[v]
      <4>1. w \in Nat /\ s \in 1..w - 1
        BY <1>3, <2>1, <2>2, <3>2
      <4>2. Was(s, t) \in 1..w /\ s \in Nat \ {0}
        BY <1>2, <4>1 DEF Was
      <4>3. At(o.in, v, Was(s, t)) = At(p.in, v, Was(s, t))
        BY <1>4, <2>3, <3>2, <4>2
      <4> QED BY <1>1, <1>5, <3>2, <4>2, <4>3 DEF Shifted
    <3> QED BY <3>1, <3>2
  <2>4. Same(after, q, r)
    BY <2>2, <2>3 DEF Same, EnabledInputEquals, SameOn, InBit
  <2> QED BY <2>4 DEF q, r
<1>6. CASE ~input
  <2>1. after.inTerms = fs.inTerms /\ Enabled(after) = Enabled(fs)
    BY <1>6 DEF TermLess, Enabled
  <2>2. Same(after, q, r)
    BY <1>1, <1>4, <1>6, <2>1 DEF Same, EnabledInputEquals, SameOn, InBit
  <2> QED BY <2>2 DEF q, r
<1> QED BY <1>5, <1>6

-----------------------------------------------------------------------------
(* A term goes                                                             *)

\* The observations in the order they are visited: group and place.
Visits(k) ==
    FlattenSeq([n \in DOMAIN k.cache |-> [l \in DOMAIN Groups(k)[n] |-> <<k.cache[n], l>>]])

LEMMA VisitsAre ==
    ASSUME NEW k, NEW fs, k.heap \in [ToSet(k.cache) -> Seq(Fitting(fs))], k.cache \in Seq(Nat)
    PROVE  /\ Visits(k) \in Seq(Nat \X Nat)
           /\ \A p \in ToSet(Visits(k)) : p[1] \in ToSet(k.cache) /\ p[2] \in DOMAIN k.heap[p[1]]
           /\ \A g \in ToSet(k.cache) : \A l \in DOMAIN k.heap[g] : <<g, l>> \in ToSet(Visits(k))
<1> DEFINE C == ToSet(k.cache)
           one(n) == [l \in DOMAIN Groups(k)[n] |-> <<k.cache[n], l>>]
           seqs == [n \in DOMAIN k.cache |-> one(n)]
<1>1. /\ Len(k.cache) \in Nat /\ DOMAIN k.cache = 1..Len(k.cache)
      /\ \A n \in 1..Len(k.cache) : /\ Groups(k)[n] = k.heap[k.cache[n]]
                                    /\ k.cache[n] \in C /\ k.cache[n] \in Nat
  BY ElementOfSeq DEF Groups, ToSet
<1>2. ASSUME NEW n \in 1..Len(k.cache)
      PROVE  /\ one(n) \in Seq(Nat \X Nat) /\ DOMAIN one(n) = DOMAIN k.heap[k.cache[n]]
             /\ \A l \in DOMAIN one(n) : one(n)[l] = <<k.cache[n], l>>
  <2> DEFINE s == Groups(k)[n]
  <2>1. s \in Seq(Fitting(fs)) /\ s = k.heap[k.cache[n]]
    BY <1>1
  <2>2. Len(s) \in Nat /\ DOMAIN s = 1..Len(s)
    BY <2>1, LenProperties
  <2> HIDE DEF s
  <2>3. one(n) \in [1..Len(s) -> Nat \X Nat]
    BY <1>1, <2>2 DEF s
  <2>4. one(n) \in Seq(Nat \X Nat)
    BY <2>2, <2>3, FunctionSeq
  <2> QED BY <2>1, <2>4 DEF s
<1> HIDE DEF one
<1>3. seqs \in Seq(Seq(Nat \X Nat))
  BY <1>1, <1>2
<1>4. Visits(k) = FlattenSeq(seqs)
  BY DEF Visits, one
<1>5. DOMAIN seqs = 1..Len(k.cache) /\ \A n \in 1..Len(k.cache) : seqs[n] = one(n)
  BY <1>1
<1> HIDE DEF seqs
<1> DEFINE y == Visits(k)
<1>6. /\ y \in Seq(Nat \X Nat)
      /\ \A j \in DOMAIN y : \E i \in DOMAIN seqs : y[j] \in ToSet(seqs[i])
      /\ \A i \in DOMAIN seqs : ToSet(seqs[i]) \subseteq ToSet(y)
      /\ Parting([fz |-> fs, T |-> Nat \X Nat, seqs |-> seqs]) => Parted(fs, y)
  BY <1>3, <1>4, FlattenIs
<1> HIDE DEF y
<1>7. ASSUME NEW p \in ToSet(y) PROVE p[1] \in C /\ p[2] \in DOMAIN k.heap[p[1]]
  <2>1. PICK j \in DOMAIN y : p = y[j]
    BY <1>7 DEF ToSet
  <2>2. PICK i \in DOMAIN seqs : y[j] \in ToSet(seqs[i])
    BY <1>6
  <2>3. PICK l \in DOMAIN seqs[i] : p = seqs[i][l]
    BY <2>1, <2>2 DEF ToSet
  <2>4. i \in 1..Len(k.cache) /\ seqs[i] = one(i)
    BY <1>5, <2>2
  <2>5. l \in DOMAIN k.heap[k.cache[i]] /\ p = <<k.cache[i], l>>
    BY <1>2, <2>3, <2>4
  <2> QED BY <1>1, <2>4, <2>5
<1>8. ASSUME NEW g \in C, NEW l \in DOMAIN k.heap[g] PROVE <<g, l>> \in ToSet(y)
  <2>1. PICK n \in 1..Len(k.cache) : g = k.cache[n]
    BY <1>1 DEF ToSet
  <2>2. l \in DOMAIN one(n) /\ one(n)[l] = <<g, l>> /\ one(n) = seqs[n]
    BY <1>2, <1>5, <2>1, <1>8
  <2>3. <<g, l>> \in ToSet(seqs[n])
    BY <2>2 DEF ToSet
  <2> QED BY <1>5, <1>6, <2>3
<1> QED BY <1>6, <1>7, <1>8 DEF y

Ends(k, v, t, input, p) == RemoveTermOutcome(k.heap[p[1]][p[2]], v, t, input)

\* Where the first observation is that does not lose the term, and the ones
\* that do before.
StopOf(k, v, t, input) == FirstWhere(Visits(k), LAMBDA p : Ends(k, v, t, input, p) # "ok")
DoneOf(k, v, t, input) ==
    {Visits(k)[n] : n \in 1..(IF StopOf(k, v, t, input) = 0 THEN Len(Visits(k))
                              ELSE StopOf(k, v, t, input) - 1)}
TermHeap(k, v, t, input) ==
    [g \in DOMAIN k.heap |-> [l \in DOMAIN k.heap[g] |->
        IF <<g, l>> \in DoneOf(k, v, t, input)
        THEN ObservationRemoveTerm(k.heap[g][l], v, t, input) ELSE k.heap[g][l]]]

LEMMA DoneIs ==
    ASSUME NEW k, NEW fs, k.heap \in [ToSet(k.cache) -> Seq(Fitting(fs))], k.cache \in Seq(Nat),
           NEW v, NEW t, NEW input
    PROVE  /\ \A p \in DoneOf(k, v, t, input) : Ends(k, v, t, input, p) = "ok"
           /\ StopOf(k, v, t, input) = 0 =>
                 \A g \in ToSet(k.cache) : \A l \in DOMAIN k.heap[g] :
                    <<g, l>> \in DoneOf(k, v, t, input)
<1> DEFINE s == Visits(k)
           I == {n \in 1..Len(s) : Ends(k, v, t, input, s[n]) # "ok"}
           stop == StopOf(k, v, t, input)
<1>1. /\ s \in Seq(Nat \X Nat)
      /\ \A g \in ToSet(k.cache) : \A l \in DOMAIN k.heap[g] : <<g, l>> \in ToSet(s)
  BY VisitsAre
<1>2. stop = IF I # {} THEN Min(I) ELSE 0
  BY DEF StopOf, FirstWhere, SelectInSeq
<1>3. Len(s) \in Nat /\ DOMAIN s = 1..Len(s) /\ I \in SUBSET (1..Len(s))
  BY <1>1
<1>4. \A n \in 1..Len(s) : n \notin I => Ends(k, v, t, input, s[n]) = "ok"
  OBVIOUS
<1>5. DoneOf(k, v, t, input) = {s[n] : n \in 1..(IF stop = 0 THEN Len(s) ELSE stop - 1)}
  BY DEF DoneOf
<1> HIDE DEF s, I, stop
<1>6. /\ stop \in 0..Len(s)
      /\ stop # 0 => stop \in I /\ \A j \in I : stop <= j
      /\ stop = 0 => I = {}
  BY ONLY <1>2, <1>3, FirstIs
<1>7. \A n \in 1..(IF stop = 0 THEN Len(s) ELSE stop - 1) : n \in 1..Len(s) /\ n \notin I
  BY <1>3, <1>6
<1>8. \A p \in DoneOf(k, v, t, input) : Ends(k, v, t, input, p) = "ok"
  BY <1>4, <1>5, <1>7
<1>9. ASSUME stop = 0 PROVE ToSet(s) \subseteq DoneOf(k, v, t, input)
  BY <1>3, <1>5, <1>9 DEF ToSet
<1> QED BY <1>1, <1>8, <1>9 DEF stop

\* What an observation that is done with, and another one, are.
LEMMA TermHeapIs ==
    ASSUME NEW fs, Vars(fs), NEW k, k.heap \in [ToSet(k.cache) -> Group(fs)], k.cache \in Seq(Nat),
           NEW v, NEW t, NEW input \in BOOLEAN, NEW heap, heap = TermHeap(k, v, t, input)
    PROVE  /\ heap \in [ToSet(k.cache) -> Group(fs)]
           /\ StopOf(k, v, t, input) = 0 =>
                 \A after : Vars(after) /\ TermLess(fs, after, v, input) =>
                    /\ heap \in [ToSet(k.cache) -> Group(after)]
                    /\ Agreed(fs, k.heap, ToSet(k.cache)) => Agreed(after, heap, ToSet(k.cache))
<1> DEFINE C == ToSet(k.cache)
           done == DoneOf(k, v, t, input)
           stop == StopOf(k, v, t, input)
           Lost(o) == ObservationRemoveTerm(o, v, t, input)
<1>1. k.heap \in [C -> Seq(Fitting(fs))]
  BY DEF Group
<1>2. /\ \A p \in done : Ends(k, v, t, input, p) = "ok"
      /\ stop = 0 => \A g \in C : \A l \in DOMAIN k.heap[g] : <<g, l>> \in done
  BY <1>1, DoneIs
<1>3. DOMAIN heap = C /\ \A g \in C :
         heap[g] = [l \in DOMAIN k.heap[g] |-> IF <<g, l>> \in done THEN Lost(k.heap[g][l])
                                              ELSE k.heap[g][l]]
  BY DEF TermHeap
<1>4. heap = [g \in C |-> heap[g]]
  BY DEF TermHeap
<1> HIDE DEF done, stop, C
<1>5. ASSUME NEW g \in C
      PROVE  /\ k.heap[g] \in Group(fs) /\ Len(k.heap[g]) \in Nat /\ Len(k.heap[g]) >= 1
             /\ DOMAIN k.heap[g] = 1..Len(k.heap[g])
             /\ \A l \in 1..Len(k.heap[g]) : k.heap[g][l] \in Fitting(fs)
             /\ heap[g] = [l \in 1..Len(k.heap[g]) |-> heap[g][l]]
  <2> DEFINE group == k.heap[g]
  <2>1. group \in Group(fs)
    BY DEF C
  <2> HIDE DEF group
  <2>2. group # <<>> /\ Len(group) \in Nat /\ 1 \in 1..Len(group) /\ DOMAIN group = 1..Len(group)
        /\ \A l \in 1..Len(group) : group[l] \in Fitting(fs)
    BY <2>1, GroupIs
  <2>3. heap[g] = [l \in 1..Len(group) |-> IF <<g, l>> \in done THEN Lost(k.heap[g][l])
                                              ELSE k.heap[g][l]]
    BY <1>3, <2>2 DEF group
  <2> HIDE DEF Lost
  <2>4. heap[g] = [l \in 1..Len(group) |-> heap[g][l]]
    BY <2>3
  <2>5. Len(group) >= 1
    BY <2>2
  <2> QED BY <2>1, <2>2, <2>4, <2>5 DEF group
<1>6. ASSUME NEW g \in C, NEW l \in 1..Len(k.heap[g])
      PROVE  /\ heap[g][l] = IF <<g, l>> \in done THEN Lost(k.heap[g][l]) ELSE k.heap[g][l]
             /\ <<g, l>> \in done => RemoveTermOutcome(k.heap[g][l], v, t, input) = "ok"
             /\ stop = 0 => <<g, l>> \in done
  <2>1. l \in DOMAIN k.heap[g]
    BY <1>5
  <2>2. heap[g][l] = IF <<g, l>> \in done THEN Lost(k.heap[g][l]) ELSE k.heap[g][l]
    BY <1>3, <2>1
  <2>3. <<g, l>> \in done => RemoveTermOutcome(k.heap[g][l], v, t, input) = "ok"
    BY <1>2 DEF Ends
  <2> QED BY <1>2, <2>1, <2>2, <2>3
<1> HIDE DEF Lost
\* A vector of as many observations is a group.
<1>7. ASSUME NEW after, NEW g \in C, \A l \in 1..Len(k.heap[g]) : heap[g][l] \in Fitting(after)
      PROVE  heap[g] \in Group(after) /\ DOMAIN heap[g] = 1..Len(k.heap[g])
  <2> DEFINE n == Len(k.heap[g])
             new == heap[g]
  <2>1. n \in Nat /\ n >= 1 /\ new = [l \in 1..n |-> new[l]]
    BY <1>5
  <2>2. \A l \in 1..n : new[l] \in Fitting(after)
    BY <1>7
  <2> HIDE DEF n, new
  <2>3. new \in [1..n -> Fitting(after)]
    BY <2>1, <2>2
  <2>4. new \in Seq(Fitting(after)) /\ Len(new) = n
    BY ONLY <2>1, <2>3, FunctionSeq
  <2>5. new # <<>>
    BY <2>1, <2>4
  <2> QED BY <2>3, <2>4, <2>5 DEF Group, n, new
<1>8. heap \in [C -> Group(fs)]
  <2>1. ASSUME NEW g \in C PROVE heap[g] \in Group(fs)
    <3>1. ASSUME NEW l \in 1..Len(k.heap[g]) PROVE heap[g][l] \in Fitting(fs)
      <4>1. k.heap[g][l] \in Fitting(fs)
        BY <1>5
      <4>2. CASE <<g, l>> \in done
        BY <1>6, <4>1, <4>2, ObservationRemoveTermIs DEF Lost
      <4>3. CASE <<g, l>> \notin done
        BY <1>6, <4>1, <4>3
      <4> QED BY <4>2, <4>3
    <3> QED BY <1>7, <3>1
  <2> QED BY <1>4, <2>1
<1>9. ASSUME stop = 0, NEW after, Vars(after), TermLess(fs, after, v, input)
      PROVE  /\ heap \in [C -> Group(after)]
             /\ Agreed(fs, k.heap, C) => Agreed(after, heap, C)
  <2>1. ASSUME NEW g \in C, NEW l \in 1..Len(k.heap[g])
        PROVE  /\ heap[g][l] = Lost(k.heap[g][l]) /\ k.heap[g][l] \in Fitting(fs)
               /\ RemoveTermOutcome(k.heap[g][l], v, t, input) = "ok"
    BY <1>5, <1>6, <1>9
  <2>2. ASSUME NEW g \in C PROVE heap[g] \in Group(after) /\ DOMAIN heap[g] = 1..Len(k.heap[g])
    <3>1. ASSUME NEW l \in 1..Len(k.heap[g]) PROVE heap[g][l] \in Fitting(after)
      BY <1>9, <2>1, ObservationRemoveTermIs DEF Lost
    <3> QED BY <1>7, <3>1
  <2>3. heap \in [C -> Group(after)]
    BY <1>4, <2>2
  <2>4. ASSUME Agreed(fs, k.heap, C), NEW g \in C PROVE Agree(after, heap[g])
    <3>1. ASSUME NEW i \in 1..Len(k.heap[g]), NEW j \in 1..Len(k.heap[g])
          PROVE  Same(after, heap[g][i], heap[g][j])
      <4> DEFINE o == k.heap[g][i]
                 p == k.heap[g][j]
      <4>1. Same(fs, o, p)
        BY <1>5, <2>4 DEF Agreed, Agree
      <4>2. /\ heap[g][i] = Lost(o) /\ o \in Fitting(fs) /\ RemoveTermOutcome(o, v, t, input) = "ok"
            /\ heap[g][j] = Lost(p) /\ p \in Fitting(fs) /\ RemoveTermOutcome(p, v, t, input) = "ok"
        BY <2>1
      <4> HIDE DEF o, p
      <4>3. Same(after, Lost(o), Lost(p))
        BY <1>9, <4>1, <4>2, SameTermGone DEF Lost
      <4> QED BY <4>2, <4>3
    <3> QED BY <2>2, <3>1 DEF Agree
  <2> QED BY <2>3, <2>4 DEF Agreed
<1> QED BY <1>8, <1>9 DEF C, stop

\* All observations lose the term, or some do and the knowledge is torn: the
\* rules are as they were.
TermOf(fs, k, e, v, input, result) ==
    /\ result[2] \in {"ok", "error", "crash"}
    /\ SameShape(k, result[1]) /\ result[1].map = k.map /\ result[1].cache = k.cache
    /\ Whole(fs, result[1], Mute(e), Group(fs))
    /\ result[2] = "ok" =>
          \A after : Vars(after) /\ TermLess(fs, after, v, input) =>
             /\ Stocked(result[1], e, ToSet(k.cache), Group(after))
             /\ Agreed(fs, k.heap, ToSet(k.cache)) => Agreed(after, result[1].heap, ToSet(k.cache))

LEMMA TermRemovedIs ==
    ASSUME NEW fs, Vars(fs), NEW k, NEW a, Whole(fs, k, a, Group(fs)),
           NEW v, NEW t, NEW input \in BOOLEAN, NEW result, result = TermRemoved(k, v, t, input)
    PROVE  TermOf(fs, k, a.rule, v, input, result)
<1> DEFINE C == ToSet(k.cache)
           heap == TermHeap(k, v, t, input)
           stop == StopOf(k, v, t, input)
           y == result[1]
           b == Mute(a.rule)
<1>1. /\ result[1] = [k EXCEPT !.heap = heap]
      /\ result[2] = IF stop = 0 THEN "ok" ELSE Ends(k, v, t, input, Visits(k)[stop])
  BY DEF TermRemoved, TermHeap, DoneOf, StopOf, Ends, Visits
<1>2. k.heap \in [C -> Group(fs)] /\ k.cache \in Seq(Nat) /\ IsInjective(k.cache)
      /\ Mapped(fs, k, a, C) /\ Knowing(k)
  BY DEF Whole, Kept, Mapped
<1>3. heap = TermHeap(k, v, t, input)
  OBVIOUS
<1> HIDE DEF heap
<1>4. /\ heap \in [C -> Group(fs)]
      /\ stop = 0 =>
            \A after : Vars(after) /\ TermLess(fs, after, v, input) =>
               /\ heap \in [C -> Group(after)]
               /\ Agreed(fs, k.heap, C) => Agreed(after, heap, C)
  BY <1>2, <1>3, TermHeapIs
<1>5. y = Reheaped(k, heap)
  BY ONLY <1>1, <1>2 DEF Knowing, Reheaped
<1> HIDE DEF y
<1>6. /\ Knowing(y) /\ y.heap = heap /\ y.cache = k.cache /\ y.map = k.map
      /\ y.block = k.block /\ SameShape(k, y)
  BY ONLY <1>5, ReheapedIs
<1>7. ~b.speaks /\ Plain(b) /\ b.rule = a.rule
  BY MuteIs
<1>8. b = Mute(a.rule)
  OBVIOUS
<1> HIDE DEF b, C
<1>9. Mapped(fs, y, b, C)
  BY ONLY <1>2, <1>6, <1>8, MuteMapped
<1>10. Whole(fs, y, b, Group(fs))
  BY <1>2, <1>4, <1>6, <1>7, <1>9 DEF Whole, Kept, C
<1>11. result[2] \in {"ok", "error", "crash"} /\ (result[2] = "ok" => stop = 0)
  <2>1. CASE stop = 0
    BY <1>1, <2>1
  <2>2. CASE stop # 0
    <3> DEFINE s == Visits(k)
               I == {n \in 1..Len(s) : Ends(k, v, t, input, s[n]) # "ok"}
    <3>1. stop = IF I # {} THEN Min(I) ELSE 0
      BY DEF StopOf, FirstWhere, SelectInSeq
    <3>2. s \in Seq(Nat \X Nat)
      <4>1. k.heap \in [ToSet(k.cache) -> Seq(Fitting(fs))]
        BY <1>2 DEF Group, C
      <4> QED BY <1>2, <4>1, VisitsAre
    <3>3. Len(s) \in Nat /\ I \in SUBSET (1..Len(s))
      BY <3>2
    <3>4. \A n \in I : Ends(k, v, t, input, s[n]) # "ok"
      OBVIOUS
    <3>5. stop # 0 => stop \in I
      <4> HIDE DEF s, I, stop
      <4> QED BY ONLY <3>1, <3>3, FirstIs
    <3>6. Ends(k, v, t, input, s[stop]) # "ok"
      BY <2>2, <3>4, <3>5
    <3>7. Ends(k, v, t, input, s[stop]) \in {"ok", "error", "crash"}
      <4> DEFINE o == k.heap[s[stop][1]][s[stop][2]]
      <4>1. Ends(k, v, t, input, s[stop]) = RemoveTermOutcome(o, v, t, input)
        BY DEF Ends
      <4> HIDE DEF o
      <4> QED BY <4>1 DEF RemoveTermOutcome
    <3> QED BY <1>1, <2>2, <3>6, <3>7
  <2> QED BY <2>1, <2>2
<1>12. ASSUME result[2] = "ok", NEW after, Vars(after), TermLess(fs, after, v, input)
       PROVE  /\ Stocked(y, a.rule, C, Group(after))
              /\ Agreed(fs, k.heap, C) => Agreed(after, y.heap, C)
  <2>1. heap \in [C -> Group(after)] /\ (Agreed(fs, k.heap, C) => Agreed(after, heap, C))
    BY <1>4, <1>11, <1>12
  <2>2. Stocked(y, a.rule, C, Group(after))
    BY <1>2, <1>6, <1>7, <1>9, <2>1 DEF Stocked, Mapped
  <2> QED BY <1>6, <2>1, <2>2
<1> QED BY <1>6, <1>8, <1>10, <1>11, <1>12 DEF TermOf, C, y

-----------------------------------------------------------------------------
(* Inputs are enabled and disabled                                         *)

\* What agrees on more inputs agrees on fewer.
LEMMA SameOnFewer ==
    ASSUME NEW fs, NEW after, after.inTerms = fs.inTerms, Enabled(fs) \subseteq Enabled(after),
           NEW o, NEW p, Same(after, o, p)
    PROVE  Same(fs, o, p)
BY DEF Same, EnabledInputEquals, SameOn

\* Parts of groups that are apart are apart.
LEMMA PartsApart ==
    ASSUME NEW fs, NEW after, after.inTerms = fs.inTerms, Enabled(fs) \subseteq Enabled(after),
           NEW k, k.heap \in [ToSet(k.cache) -> Group(after)], k.cache \in Seq(Nat),
           IsInjective(k.cache), Apart(fs, k)
    PROVE  Parted(after, Parts(after, k))
<1> DEFINE seqs == [n \in DOMAIN k.cache |-> GroupSplit(after, Groups(k)[n])]
           C == ToSet(k.cache)
           T == Group(after)
<1>1. /\ Parts(after, k) = FlattenSeq(seqs) /\ seqs \in Seq(Seq(T))
      /\ DOMAIN seqs = DOMAIN k.cache
      /\ \A n \in DOMAIN seqs :
            /\ k.cache[n] \in C
            /\ Parted(after, seqs[n])
            /\ \A part \in ToSet(seqs[n]) : \A l \in DOMAIN part :
                  part[l] \in ToSet(k.heap[k.cache[n]])
  <2>1. seqs = [n \in DOMAIN k.cache |-> GroupSplit(after, Groups(k)[n])]
    OBVIOUS
  <2>2. k.heap \in [C -> T] /\ k.cache \in Seq(Nat) /\ C \subseteq C
    OBVIOUS
  <2> HIDE DEF seqs
  <2> QED BY ONLY <2>1, <2>2, PartsAre, ZenonT(60)
<1> HIDE DEF seqs
<1>2. \A n \in DOMAIN seqs : seqs[n] \in Seq(T)
  BY <1>1
\* A part agrees with the head of its group.
<1>3. ASSUME NEW n \in DOMAIN seqs, NEW u \in ToSet(seqs[n])
      PROVE  Same(fs, Head(k.heap[k.cache[n]]), Head(u))
  <2> DEFINE group == k.heap[k.cache[n]]
  <2>1. u \in T
    BY <1>2, <1>3 DEF ToSet
  <2>2. 1 \in DOMAIN u /\ Head(u) = u[1]
    BY <2>1, GroupIs
  <2>3. Head(u) \in ToSet(group)
    BY <1>1, <1>3, <2>2
  <2>4. group \in T /\ Agree(fs, group)
    BY <1>1 DEF Apart, Agreed, C
  <2> HIDE DEF group
  <2>5. 1 \in DOMAIN group /\ Head(group) = group[1]
    BY <2>4, GroupIs
  <2>6. PICK l \in DOMAIN group : Head(u) = group[l]
    BY <2>3 DEF ToSet
  <2>7. Same(fs, group[1], group[l])
    BY <2>4, <2>5, <2>6 DEF Agree
  <2> QED BY <2>5, <2>6, <2>7 DEF group
<1>4. ASSUME NEW i \in DOMAIN seqs, NEW j \in DOMAIN seqs, i # j,
             NEW u \in ToSet(seqs[i]), NEW v \in ToSet(seqs[j]), Same(after, Head(u), Head(v))
      PROVE  FALSE
  <2> DEFINE g == k.cache[i]
             h == k.cache[j]
  <2>1. g \in C /\ h \in C /\ g # h
    BY <1>1, <1>4 DEF IsInjective
  <2>2. Same(fs, Head(k.heap[g]), Head(u)) /\ Same(fs, Head(k.heap[h]), Head(v))
    BY <1>3
  <2>3. Same(fs, Head(u), Head(v))
    BY <1>4, SameOnFewer
  <2>4. Same(fs, Head(k.heap[g]), Head(k.heap[h]))
    <3> DEFINE x == Head(k.heap[g])
               z == Head(k.heap[h])
    <3>1. Same(fs, x, Head(u)) /\ Same(fs, z, Head(v))
      BY <2>2
    <3> HIDE DEF x, z
    <3>2. Same(fs, x, z)
      BY <2>3, <3>1, SameIs
    <3> QED BY <3>2 DEF x, z
  <2> QED BY <2>1, <2>4 DEF Apart, Distinct, C
<1> DEFINE p == [fz |-> after, T |-> T, seqs |-> seqs]
<1>5. p.fz = after /\ p.seqs = seqs
  OBVIOUS
<1> HIDE DEF p
<1>6. Parting(p)
  BY <1>1, <1>4, <1>5 DEF Parting
<1>7. Parting(p) => Parted(after, FlattenSeq(seqs))
  <2> DEFINE y == FlattenSeq(seqs)
  <2>1. y = FlattenSeq(seqs)
    OBVIOUS
  <2> HIDE DEF y, T
  <2>2. /\ y \in Seq(T)
        /\ \A j \in DOMAIN y : \E i \in DOMAIN seqs : y[j] \in ToSet(seqs[i])
        /\ \A i \in DOMAIN seqs : ToSet(seqs[i]) \subseteq ToSet(y)
        /\ Parting([fz |-> after, T |-> T, seqs |-> seqs]) => Parted(after, y)
    BY <1>1, <2>1, FlattenIs
  <2> QED BY <2>1, <2>2 DEF p
<1> QED BY <1>1, <1>6, <1>7

\* There are lists for all outputs, or there is nothing they would be for.
Outlined(fs, k) == Len(k.map) = Len(fs.outTerms) \/ (k.map = <<>> /\ k.cache = <<>>)

LEMMA OutlinedIs ==
    ASSUME NEW fs, Vars(fs), NEW k, Outlined(fs, k)
    PROVE  /\ Len(k.map) <= Len(fs.outTerms)
           /\ Len(fs.outTerms) = Len(k.map) \/ ToSet(k.cache) = {}
<1>1. CASE Len(k.map) = Len(fs.outTerms)
  BY <1>1 DEF Vars
<1>2. CASE k.map = <<>> /\ k.cache = <<>>
  <2>1. ToSet(k.cache) = {}
    BY <1>2 DEF ToSet
  <2> QED BY <1>2, <2>1 DEF Vars
<1> QED BY <1>1, <1>2 DEF Outlined

\* Lists are there for all outputs.
LEMMA MapInitializedWhole ==
    ASSUME NEW fs, Vars(fs), NEW k, NEW a, NEW V, Whole(fs, k, a, V), Outlined(fs, k),
           NEW y, y = MapInitialized(fs, k)
    PROVE  /\ Whole(fs, y, a, V) /\ SameBut(k, y) /\ Len(y.map) = Len(fs.outTerms)
<1> DEFINE C == ToSet(k.cache)
<1>1. /\ Mapped(fs, k, a, C) /\ k.heap \in [C -> V] /\ k.cache \in Seq(Nat) /\ IsInjective(k.cache)
      /\ Plain(a)
  BY DEF Whole, Kept
<1> HIDE DEF C
<1>2. fs.outTerms \in Seq(Nat)
  BY DEF Vars
<1>3. Len(fs.outTerms) = Len(k.map) \/ C = {}
  BY OutlinedIs DEF C
<1>4. Mapped(fs, y, a, C)
  BY ONLY <1>1, <1>2, <1>3, y = MapInitialized(fs, k), MapInitializedMapped
<1>5. Knowing(k) /\ Carried(a.rule, k)
  BY <1>1 DEF Mapped
<1>6. SameBut(k, y) /\ Extended(fs, k, y)
  BY ONLY <1>2, <1>5, y = MapInitialized(fs, k), MapInitializedIs
<1>7. Len(y.map) = Len(fs.outTerms)
  <2>1. Len(k.map) <= Len(fs.outTerms)
    BY OutlinedIs
  <2>2. Len(k.map) \in Nat /\ Len(fs.outTerms) \in Nat
    BY <1>2, <1>5 DEF Carried
  <2>3. Len(fs.outTerms) > Len(k.map) => Len(y.map) = Len(fs.outTerms)
    BY <1>6 DEF Extended
  <2>4. ~(Len(fs.outTerms) > Len(k.map)) => y.map = k.map
    BY <1>6 DEF Extended
  <2> QED BY <2>1, <2>2, <2>3, <2>4
<1>8. Whole(fs, y, a, V)
  BY <1>1, <1>4, <1>6 DEF Whole, Kept, SameBut, C
<1> QED BY <1>6, <1>7, <1>8

\* Groups are split when an input is enabled, merged when one is disabled.
LEMMA VariableSetEnabledIs ==
    ASSUME NEW fs, NEW after, Vars(fs), Vars(after),
           after.inTerms = fs.inTerms, after.outTerms = fs.outTerms, NEW enabled \in BOOLEAN,
           enabled => Enabled(fs) \subseteq Enabled(after),
           ~enabled => Enabled(after) \subseteq Enabled(fs),
           NEW k, NEW a, Whole(fs, k, a, Group(fs)), Outlined(fs, k), NEW speaks \in BOOLEAN,
           NEW y, y = VariableSetEnabled(after, k, enabled)
    PROVE  /\ Whole(after, y, ClaimOf(speaks, y, a.rule), Group(after))
           /\ Len(y.map) = Len(after.outTerms)
           /\ Apart(fs, k) => Apart(after, y)
<1> DEFINE z == MapInitialized(after, k)
           w == IF enabled THEN GroupsSplit(after, z) ELSE GroupsMerged(after, z)
           C == ToSet(k.cache)
<1>1. y = RulesRebuilt(after, w)
  BY DEF VariableSetEnabled
<1>2. Group(after) = Group(fs)
  BY DEF Group, Fitting
<1>3. z = MapInitialized(fs, k)
  BY DEF MapInitialized
<1> HIDE DEF z
<1>4. Whole(fs, z, a, Group(fs)) /\ SameBut(k, z) /\ Len(z.map) = Len(fs.outTerms)
  BY <1>3, MapInitializedWhole
<1>5. z.heap = k.heap /\ z.cache = k.cache
  BY <1>4 DEF SameBut
<1>6. z.heap \in [ToSet(z.cache) -> Group(after)] /\ z.cache \in Seq(Nat) /\ IsInjective(z.cache)
  BY <1>2, <1>4 DEF Whole, Kept
<1>7. /\ Stocked(w, a.rule, ToSet(w.cache), Group(after)) /\ SameShape(z, w)
      /\ Apart(fs, k) => Apart(after, w)
  <2>1. CASE enabled
    <3>1. w = GroupsSplit(after, z) /\ Whole(fs, z, a, Group(after))
      BY <1>2, <1>4, <2>1
    <3> HIDE DEF w
    <3>2. /\ Stocked(w, a.rule, ToSet(w.cache), Group(after)) /\ SameShape(z, w)
          /\ Parted(after, Parts(after, z)) => Apart(after, w)
      BY ONLY <3>1, GroupsSplitIs
    <3>3. ASSUME Apart(fs, k) PROVE Parted(after, Parts(after, z))
      <4>1. Apart(fs, z)
        BY <1>5, <3>3 DEF Apart
      <4> QED BY <1>6, <2>1, <4>1, PartsApart
    <3> QED BY <3>2, <3>3
  <2>2. CASE ~enabled
    <3>1. w = GroupsMerged(after, z)
      BY <2>2
    <3>2. Stocked(z, a.rule, ToSet(z.cache), Group(after))
      BY <1>2, <1>4, KeptStocked DEF Whole
    <3> HIDE DEF w
    <3>3. /\ Stocked(w, a.rule, ToSet(w.cache), Group(after)) /\ SameShape(z, w)
          /\ Agreed(after, z.heap, ToSet(z.cache)) => Apart(after, w)
      BY <3>1, <3>2, GroupsMergedIs
    <3>4. ASSUME Apart(fs, k) PROVE Agreed(after, z.heap, ToSet(z.cache))
      <4>1. Agreed(fs, z.heap, ToSet(z.cache))
        BY <1>5, <3>4 DEF Apart
      <4>2. \A o, p : Same(fs, o, p) => Same(after, o, p)
        BY <2>2, SameOnFewer
      <4> QED BY <4>1, <4>2 DEF Agreed, Agree
    <3> QED BY <3>3, <3>4
  <2> QED BY <2>1, <2>2
<1> HIDE DEF w
<1>8. Len(w.map) <= Len(after.outTerms)
  BY <1>4, <1>7 DEF SameShape, Vars
<1>9. /\ Whole(after, y, ClaimOf(speaks, y, a.rule), Group(after))
      /\ SameBut(w, y) /\ Len(y.map) = Len(after.outTerms)
  BY <1>1, <1>7, <1>8, RebuiltWhole
<1>10. Apart(after, w) => Apart(after, y)
  BY <1>9 DEF Apart, SameBut
<1> QED BY <1>7, <1>9, <1>10

-----------------------------------------------------------------------------
(* The other calls                                                         *)

\* The knowledge between two calls.
Sane(fs, k, speaks, e) ==
    Outlined(fs, k) /\ Whole(fs, k, ClaimOf(speaks, k, e), Group(fs))

LEMMA SaneIs ==
    ASSUME NEW fs, NEW k, NEW speaks, NEW e, Sane(fs, k, speaks, e)
    PROVE  /\ Stocked(k, e, ToSet(k.cache), Group(fs))
           /\ ClaimOf(speaks, k, e).rule = e
<1>1. ClaimOf(speaks, k, e).rule = e
  BY DEF ClaimOf
<1> DEFINE a == ClaimOf(speaks, k, e)
<1>2. Whole(fs, k, a, Group(fs))
  BY DEF Sane
<1> HIDE DEF a
<1>3. Stocked(k, a.rule, ToSet(k.cache), Group(fs))
  BY <1>2, KeptStocked DEF Whole
<1> QED BY <1>1, <1>3 DEF a

\* Nothing has to be claimed.
LEMMA SaneMuted ==
    ASSUME NEW fs, NEW k, NEW speaks, NEW e, Sane(fs, k, speaks, e)
    PROVE  Sane(fs, k, FALSE, e)
<1> DEFINE a == ClaimOf(speaks, k, e)
           b == ClaimOf(FALSE, k, e)
           C == ToSet(k.cache)
<1>1. /\ Mapped(fs, k, a, C) /\ k.heap \in [C -> Group(fs)] /\ k.cache \in Seq(Nat) /\ IsInjective(k.cache)
      /\ Outlined(fs, k)
  BY DEF Sane, Whole, Kept
<1>2. a.rule = e /\ b = Mute(e)
  BY DEF ClaimOf, Mute
<1>3. Knowing(k)
  BY <1>1 DEF Mapped
<1>4. Plain(b) /\ ~b.speaks
  BY <1>2, MuteIs
<1> HIDE DEF a, b, C
<1>5. b = Mute(a.rule)
  BY <1>2
<1>6. Mapped(fs, k, b, C)
  BY ONLY <1>1, <1>3, <1>5, MuteMapped
<1>7. Whole(fs, k, b, Group(fs))
  BY <1>1, <1>4, <1>6 DEF Whole, Kept, C
<1> QED BY <1>1, <1>7 DEF Sane, b

\* Simplification is switched.
LEMMA SetSimplificationSane ==
    ASSUME NEW fs, Vars(fs), NEW k, NEW old, NEW e, Sane(fs, k, old, e),
           NEW disabled \in BOOLEAN, k.noSimpl # disabled, NEW speaks \in BOOLEAN,
           NEW y, y = SetSimplification(fs, k, disabled)
    PROVE  /\ Sane(fs, y, speaks, e)
           /\ Apart(fs, k) => Apart(fs, y)
<1> DEFINE z == [k EXCEPT !.noSimpl = disabled]
<1>1. y = RulesRebuilt(fs, z)
  BY DEF SetSimplification
<1>2. Stocked(k, e, ToSet(k.cache), Group(fs)) /\ Knowing(k) /\ Outlined(fs, k)
  BY SaneIs DEF Stocked, Sane
<1>3. z = [heap |-> k.heap, cache |-> k.cache, max |-> k.max, map |-> k.map,
           block |-> k.block, noSimpl |-> disabled]
  BY <1>2 DEF Knowing
<1>4. /\ Knowing(z) /\ z.heap = k.heap /\ z.cache = k.cache /\ z.map = k.map
      /\ z.block = k.block
  BY <1>3 DEF Knowing
<1> HIDE DEF z
<1>5. Stocked(z, e, ToSet(z.cache), Group(fs))
  BY <1>2, <1>4 DEF Stocked, Carried
<1>6. Len(z.map) <= Len(fs.outTerms)
  BY <1>2, <1>4, OutlinedIs
<1>7. /\ Whole(fs, y, ClaimOf(speaks, y, e), Group(fs))
      /\ SameBut(z, y) /\ Len(y.map) = Len(fs.outTerms)
  BY <1>1, <1>5, <1>6, RebuiltWhole
<1>8. Apart(fs, k) => Apart(fs, y)
  BY <1>4, <1>7 DEF Apart, SameBut
<1> QED BY <1>7, <1>8 DEF Sane, Outlined

\* The cache gets another limit.
LEMMA CacheResizedSane ==
    ASSUME NEW fs, Vars(fs), NEW k, NEW speaks, NEW e, Sane(fs, k, speaks, e), NEW limit \in Nat,
           NEW y, y = CacheResized(k, limit)
    PROVE  /\ Sane(fs, y, speaks, e)
           /\ Apart(fs, k) => Apart(fs, y)
<1> DEFINE a == ClaimOf(speaks, k, e)
<1>1. Whole(fs, k, a, Group(fs)) /\ Outlined(fs, k)
  BY DEF Sane
<1>2. a = ClaimOf(speaks, k, e)
  OBVIOUS
<1> HIDE DEF a
<1>3. Whole(fs, y, a, Group(fs)) /\ Len(y.map) = Len(k.map) /\ y.noSimpl = k.noSimpl
      /\ Survives(k, y) /\ (k.cache = <<>> => y.cache = <<>>)
  BY <1>1, CacheResizedWhole
<1>4. ClaimOf(speaks, y, e) = a
  BY <1>2, <1>3 DEF ClaimOf
<1>5. Outlined(fs, y)
  <2>1. k.map = <<>> => y.map = <<>>
    <3>1. y.map \in Seq(Seq(RuleGroup))
      BY <1>3 DEF Whole, Kept, Mapped, Carried
    <3>2. Len(y.map) = 0 => y.map = <<>>
      BY <3>1, EmptySeq
    <3> QED BY <1>3, <3>2
  <2> QED BY <1>1, <1>3, <2>1 DEF Outlined
<1>6. ASSUME Apart(fs, k) PROVE Apart(fs, y)
  <2>1. \A h \in ToSet(y.cache) : h \in ToSet(k.cache) /\ y.heap[h] = k.heap[h]
    BY <1>1, <1>3 DEF Survives, Whole, Kept
  <2>2. Agreed(fs, k.heap, ToSet(k.cache)) /\ Distinct(fs, k.heap, ToSet(k.cache))
    BY <1>6 DEF Apart
  <2>3. Agreed(fs, y.heap, ToSet(y.cache))
    BY <2>1, <2>2 DEF Agreed
  <2>4. Distinct(fs, y.heap, ToSet(y.cache))
    BY <2>1, <2>2 DEF Distinct
  <2> QED BY <2>3, <2>4 DEF Apart
<1> QED BY <1>3, <1>4, <1>5, <1>6 DEF Sane

\* Nothing is in the cache: no two groups agree.
LEMMA ApartEmpty ==
    ASSUME NEW fs, NEW k, k.cache = <<>>
    PROVE  Apart(fs, k)
<1>1. ToSet(k.cache) = {}
  BY DEF ToSet
<1> QED BY <1>1 DEF Apart, Agreed, Distinct

\* All that is known is given up.  Whatever is claimed holds of nothing.
LEMMA ControllerClearedSane ==
    ASSUME NEW fs, NEW k, NEW old, NEW e, Sane(fs, k, old, e), NEW speaks \in BOOLEAN,
           NEW y, y = ControllerCleared(k)
    PROVE  Sane(fs, y, speaks, e) /\ Apart(fs, y)
<1> DEFINE a == ClaimOf(old, k, e)
           b == ClaimOf(speaks, y, e)
<1>1. Whole(fs, k, a, Group(fs)) /\ a.rule = e
  BY SaneIs DEF Sane
<1> HIDE DEF a
<1>2. Whole(fs, y, a, Group(fs)) /\ y.cache = <<>> /\ y.map = <<>>
  BY <1>1, ControllerClearedKept
<1>3. b.rule = e /\ Plain(b)
  BY ClaimIs
<1> HIDE DEF b
<1>4. ToSet(y.cache) = {}
  BY <1>2 DEF ToSet
<1>5. Mapped(fs, y, b, ToSet(y.cache))
  <2>1. Knowing(y) /\ Carried(e, y)
    BY <1>1, <1>2 DEF Whole, Kept, Mapped
  <2> QED BY <1>2, <1>3, <2>1 DEF Mapped
<1>6. Whole(fs, y, b, Group(fs))
  BY <1>2, <1>3, <1>4, <1>5 DEF Whole, Kept
<1>7. Sane(fs, y, speaks, e)
  BY <1>2, <1>6 DEF Sane, Outlined, b
<1> QED BY <1>2, <1>7, ApartEmpty

\* A new process loads what was saved.
LEMMA StateLoadedSane ==
    ASSUME NEW fs, Vars(fs), NEW k, NEW old, NEW e, Sane(fs, k, old, e), NEW speaks \in BOOLEAN,
           NEW y, y = StateLoaded(fs, [NewController EXCEPT !.max = k.max], Saved(k), TRUE)
    PROVE  Sane(fs, y, speaks, e) /\ Apart(fs, y)
<1> DEFINE z == [NewController EXCEPT !.max = k.max]
           file == Saved(k)
           w == ObservationsLoaded(fs, z, file)
<1>1. y = RulesRebuilt(fs, w)
  BY DEF StateLoaded
<1>2. Stocked(k, e, ToSet(k.cache), Group(fs))
  BY SaneIs
<1>3. file \in Seq(Fitting(fs))
  BY <1>2, SavedIs DEF Stocked
<1>4. z = [NewController EXCEPT !.max = k.max] /\ w = ObservationsLoaded(fs, z, file)
  OBVIOUS
<1> HIDE DEF z, file, w
<1>5. /\ Kept(fs, z, Mute(e), {}, {}, Group(fs)) /\ z.map = <<>>
      /\ ToSet(z.cache) = {} /\ Apart(fs, z)
  <2>1. Plain(Mute(e))
    BY MuteIs
  <2> QED BY <1>4, <2>1, EmptyIs
<1>6. Kept(fs, z, Mute(e), {}, ToSet(z.cache), Group(fs))
  BY <1>5
<1>7. Stocked(w, e, ToSet(w.cache), Group(fs)) /\ SameShape(z, w) /\ Apart(fs, w)
  BY <1>3, <1>4, <1>5, <1>6, ObservationsLoadedIs
<1>8. Len(w.map) <= Len(fs.outTerms)
  BY <1>5, <1>7 DEF SameShape, Vars
<1>9. /\ Whole(fs, y, ClaimOf(speaks, y, e), Group(fs))
      /\ SameBut(w, y) /\ Len(y.map) = Len(fs.outTerms)
  BY <1>1, <1>7, <1>8, RebuiltWhole
<1>10. Apart(fs, y)
  BY <1>7, <1>9 DEF Apart, SameBut
<1> QED BY <1>9, <1>10 DEF Sane, Outlined

===============================================================================
