--------------------------- MODULE FuzzyRulesProofs ---------------------------
(***************************************************************************)
(* Lemmas about the operators FuzzyLearning is built from: the vectors and *)
(* the rule block; lists of rule groups; the operations on the lists of    *)
(* all outputs; the cache; observations and groups of them that merge and  *)
(* split.                                                                  *)
(*                                                                         *)
(* An operation on one list of rule groups keeps the list Listed and the   *)
(* rule block Sound; a fold of it over the outputs keeps the map Mapped;   *)
(* with the groups and the cache, the knowledge is Kept.                   *)
(***************************************************************************)
EXTENDS FuzzyLearning, SeqLemmas, SequenceTheorems, FiniteSetTheorems, TLAPS

-----------------------------------------------------------------------------
(* Vectors                                                                 *)

\* What RemoveAt of the community modules leaves.
LEMMA RemoveAtProperties ==
    ASSUME NEW S, NEW s \in Seq(S), NEW i \in 1..Len(s)
    PROVE  /\ RemoveAt(s, i) \in Seq(S)
           /\ Len(RemoveAt(s, i)) = Len(s) - 1
           /\ \A j \in 1..i - 1 : RemoveAt(s, i)[j] = s[j]
           /\ \A j \in i..Len(s) - 1 : RemoveAt(s, i)[j] = s[j + 1]
<1>1. RemoveAt(s, i) = Cut(s, i)
  BY DEF RemoveAt, Cut
<1> QED BY <1>1, CutProperties

\* What ToSet of the community modules has.
LEMMA ToSetEmpty ==
    ASSUME NEW S, NEW s \in Seq(S)
    PROVE  /\ ToSet(s) \subseteq S
           /\ ToSet(s) = {} <=> s = <<>>
           /\ s # <<>> => s[1] \in ToSet(s)
<1>1. ToSet(s) = Held(s)
  BY DEF ToSet, Held
<1> QED BY <1>1, HeldEmpty

LEMMA ToSetAppend ==
    ASSUME NEW S, NEW s \in Seq(S), NEW e \in S
    PROVE  ToSet(Append(s, e)) = ToSet(s) \cup {e}
<1>1. ToSet(s) = Held(s) /\ ToSet(Append(s, e)) = Held(Append(s, e))
  BY DEF ToSet, Held
<1> QED BY <1>1, HeldAppend

LEMMA MinIs ==
    ASSUME NEW I \in SUBSET Nat, I # {}
    PROVE  Min(I) \in I /\ \A j \in I : Min(I) <= j
<1>1. \E i \in I : \A j \in I : i <= j
  BY LeastElement
<1> QED BY <1>1 DEF Min

\* The first of some places, or 0.
LEMMA FirstIs ==
    ASSUME NEW l \in Nat, NEW I \in SUBSET (1..l), NEW n, n = IF I # {} THEN Min(I) ELSE 0
    PROVE  /\ n \in 0..l
           /\ n # 0 => n \in I /\ \A j \in I : n <= j
           /\ n = 0 => I = {}
<1>1. CASE I # {}
  <2>1. I \in SUBSET Nat
    OBVIOUS
  <2>2. n \in I /\ \A j \in I : n <= j
    BY <1>1, <2>1, MinIs
  <2> QED BY <1>1, <2>2
<1>2. CASE I = {}
  BY <1>2
<1> QED BY <1>1, <1>2

\* What is left of an injective vector when an element is taken out.
LEMMA RemoveAtSet ==
    ASSUME NEW T, NEW s \in Seq(T), IsInjective(s), NEW i \in DOMAIN s
    PROVE  /\ IsInjective(RemoveAt(s, i))
           /\ ToSet(RemoveAt(s, i)) = ToSet(s) \ {s[i]}
<1>0. DOMAIN s = 1..Len(s) /\ Len(s) \in Nat
  BY LenProperties
<1>1. i \in 1..Len(s) /\ DOMAIN s = 1..Len(s) /\ Len(s) \in Nat
  BY ONLY <1>0, i \in DOMAIN s
<1> DEFINE r == RemoveAt(s, i)
<1>2. /\ r \in Seq(T) /\ Len(r) = Len(s) - 1
      /\ \A j \in 1..i - 1 : r[j] = s[j]
      /\ \A j \in i..Len(s) - 1 : r[j] = s[j + 1]
  BY <1>1, RemoveAtProperties
<1> HIDE DEF r
<1>3. DOMAIN r = 1..Len(s) - 1
  BY <1>2, LenProperties
<1> DEFINE old == [j \in 1..Len(s) - 1 |-> IF j < i THEN j ELSE j + 1]
<1>4. ASSUME NEW j \in 1..Len(s) - 1
      PROVE  old[j] \in 1..Len(s) /\ old[j] # i /\ r[j] = s[old[j]]
  <2>1. CASE j < i
    <3>1. j \in 1..i - 1 /\ old[j] = j
      BY <1>1, <2>1
    <3> QED BY <1>1, <1>2, <3>1, <2>1
  <2>2. CASE ~(j < i)
    <3>1. j \in i..Len(s) - 1 /\ old[j] = j + 1
      BY <1>1, <2>2
    <3> QED BY <1>1, <1>2, <3>1
  <2> QED BY <2>1, <2>2
<1>5. ASSUME NEW j \in 1..Len(s) - 1, NEW k \in 1..Len(s) - 1, old[j] = old[k] PROVE j = k
  BY <1>1, <1>5
<1>6. ASSUME NEW n \in 1..Len(s), n # i PROVE \E j \in 1..Len(s) - 1 : old[j] = n
  <2>1. CASE n < i
    <3>1. n \in 1..Len(s) - 1
      BY <1>1, <2>1
    <3> QED BY <2>1, <3>1
  <2>2. CASE ~(n < i)
    <3>1. n - 1 \in 1..Len(s) - 1 /\ ~(n - 1 < i) /\ (n - 1) + 1 = n
      BY <1>1, <1>6, <2>2
    <3> QED BY <3>1
  <2> QED BY <2>1, <2>2
<1> HIDE DEF old
<1>7. IsInjective(r)
  <2> SUFFICES ASSUME NEW j \in DOMAIN r, NEW k \in DOMAIN r, r[j] = r[k] PROVE j = k
    BY DEF IsInjective
  <2>1. s[old[j]] = s[old[k]] /\ old[j] \in DOMAIN s /\ old[k] \in DOMAIN s
    BY <1>1, <1>3, <1>4
  <2>2. old[j] = old[k]
    BY <2>1 DEF IsInjective
  <2> QED BY <1>3, <1>5, <2>2
<1>8. ASSUME NEW x \in ToSet(r) PROVE x \in ToSet(s) \ {s[i]}
  <2>1. PICK j \in DOMAIN r : x = r[j]
    BY DEF ToSet
  <2>2. old[j] \in DOMAIN s /\ old[j] # i /\ x = s[old[j]]
    BY <1>1, <1>3, <1>4, <2>1
  <2> QED BY <2>2 DEF ToSet, IsInjective
<1>9. ASSUME NEW x \in ToSet(s), x # s[i] PROVE x \in ToSet(r)
  <2>1. PICK n \in DOMAIN s : x = s[n]
    BY DEF ToSet
  <2>2. PICK j \in 1..Len(s) - 1 : old[j] = n
    BY <1>1, <1>6, <1>9, <2>1
  <2> QED BY <1>3, <1>4, <2>1, <2>2 DEF ToSet
<1> QED BY <1>7, <1>8, <1>9 DEF r

\* The first place of an element, and the vector without it.
PlaceOf(s, e) == SelectInSeq(s, LAMBDA v : v = e)

LEMMA PlaceOfIs ==
    ASSUME NEW T, NEW s \in Seq(T), NEW e \in ToSet(s)
    PROVE  PlaceOf(s, e) \in DOMAIN s /\ s[PlaceOf(s, e)] = e
<1> DEFINE I == {i \in 1..Len(s) : s[i] = e}
<1>1. Len(s) \in Nat /\ DOMAIN s = 1..Len(s)
  BY LenProperties
<1>2. PlaceOf(s, e) = IF I # {} THEN Min(I) ELSE 0
  BY DEF PlaceOf, SelectInSeq
<1>3. I # {} /\ I \in SUBSET Nat
  BY <1>1 DEF ToSet
<1>4. Min(I) \in I
  <2> HIDE DEF I
  <2> QED BY <1>3, MinIs
<1> QED BY <1>1, <1>2, <1>3, <1>4

LEMMA RemoveFirstIs ==
    ASSUME NEW T, NEW s \in Seq(T), NEW e \in ToSet(s), IsInjective(s)
    PROVE  /\ RemoveFirst(s, e) \in Seq(T)
           /\ Len(RemoveFirst(s, e)) = Len(s) - 1
           /\ IsInjective(RemoveFirst(s, e))
           /\ ToSet(RemoveFirst(s, e)) = ToSet(s) \ {e}
<1>1. Len(s) \in Nat /\ DOMAIN s = 1..Len(s)
  BY LenProperties
<1>2. \E i \in 1..Len(s) : s[i] = e
  BY <1>1 DEF ToSet
<1>3. RemoveFirst(s, e) = RemoveAt(s, PlaceOf(s, e))
  BY <1>2 DEF RemoveFirst, PlaceOf
<1>4. PlaceOf(s, e) \in DOMAIN s /\ s[PlaceOf(s, e)] = e
  BY PlaceOfIs
<1>5. RemoveAt(s, PlaceOf(s, e)) \in Seq(T) /\ Len(RemoveAt(s, PlaceOf(s, e))) = Len(s) - 1
  BY <1>1, <1>4, RemoveAtProperties
<1> DEFINE i == PlaceOf(s, e)
<1>6. i \in DOMAIN s /\ s[i] = e /\ RemoveFirst(s, e) = RemoveAt(s, i)
      /\ RemoveAt(s, i) \in Seq(T) /\ Len(RemoveAt(s, i)) = Len(s) - 1
  BY ONLY <1>3, <1>4, <1>5
<1> HIDE DEF i
<1>7. IsInjective(RemoveAt(s, i)) /\ ToSet(RemoveAt(s, i)) = ToSet(s) \ {s[i]}
  BY ONLY <1>6, s \in Seq(T), IsInjective(s), RemoveAtSet
<1> QED BY ONLY <1>6, <1>7

\* Appending an element that is new.
LEMMA AppendedInjective ==
    ASSUME NEW T, NEW s \in Seq(T), IsInjective(s), NEW e \in T, e \notin ToSet(s)
    PROVE  IsInjective(Append(s, e))
<1> DEFINE t == Append(s, e)
<1>1. /\ DOMAIN s = 1..Len(s) /\ Len(s) \in Nat
      /\ DOMAIN t = 1..Len(s) + 1
      /\ \A i \in 1..Len(s) : t[i] = s[i]
      /\ t[Len(s) + 1] = e
  BY LenProperties
<1> HIDE DEF t
<1>2. \A i \in 1..Len(s) : s[i] # e
  BY <1>1 DEF ToSet
<1>3. ASSUME NEW j \in DOMAIN t, NEW k \in DOMAIN t, t[j] = t[k] PROVE j = k
  <2>1. (j \in 1..Len(s) \/ j = Len(s) + 1) /\ (k \in 1..Len(s) \/ k = Len(s) + 1)
    BY <1>1
  <2>2. CASE j \in 1..Len(s) /\ k \in 1..Len(s)
    <3>1. s[j] = s[k] /\ j \in DOMAIN s /\ k \in DOMAIN s
      BY <1>1, <1>3, <2>2
    <3> QED BY <3>1 DEF IsInjective
  <2>3. CASE j = Len(s) + 1 /\ k = Len(s) + 1
    BY <2>3
  <2>4. CASE j \in 1..Len(s) /\ k = Len(s) + 1
    BY <1>1, <1>2, <1>3, <2>4
  <2>5. CASE j = Len(s) + 1 /\ k \in 1..Len(s)
    BY <1>1, <1>2, <1>3, <2>5
  <2> QED BY <2>1, <2>2, <2>3, <2>4, <2>5
<1>4. IsInjective(t)
  BY <1>3 DEF IsInjective
<1> QED BY <1>4 DEF t

-----------------------------------------------------------------------------
(* The elements of a vector that are in a set                              *)

OnlyStep(S, kept, x) == IF x \in S THEN Append(kept, x) ELSE kept

\* What the first n elements of a vector leave.
OnlyAt(c, n, kept) ==
    /\ kept \in Seq(c.T)
    /\ \A x : x \in ToSet(kept) <=> x \in c.S /\ \E i \in 1..n : c.seq[i] = x
    /\ IsInjective(c.seq) => IsInjective(kept)

OnlyCStep(c, kept, x) == OnlyStep(c.S, kept, x)

Picking == INSTANCE SeqLemmas WITH FoldOp <- OnlyCStep, FoldAt <- OnlyAt

LEMMA OnlyIs ==
    ASSUME NEW T, NEW seq \in Seq(T), NEW S
    PROVE  /\ Only(seq, S) \in Seq(T)
           /\ ToSet(Only(seq, S)) = ToSet(seq) \cap S
           /\ IsInjective(seq) => IsInjective(Only(seq, S))
<1> DEFINE c == [T |-> T, seq |-> seq, S |-> S]
<1>1. c.T = T /\ c.seq = seq /\ c.S = S
  OBVIOUS
<1>2. Only(seq, S) = Picking!Folded(c, <<>>, seq)
  BY DEF Only, FoldLeft, MapThenFoldSet, Picking!Folded, Picking!IterEq, Picking!Largest, Max,
         OnlyCStep, OnlyStep
<1> HIDE DEF c
<1>3. Len(seq) \in Nat /\ DOMAIN seq = 1..Len(seq)
  BY LenProperties
<1>4. OnlyAt(c, 0, <<>>)
  BY <1>1 DEF OnlyAt, ToSet, IsInjective
<1>5. ASSUME NEW y, NEW n \in 1..Len(seq), OnlyAt(c, n - 1, y)
      PROVE  OnlyAt(c, n, OnlyCStep(c, y, seq[n]))
  <2> DEFINE x == seq[n]
  <2>1. x \in T /\ y \in Seq(T)
    BY <1>1, <1>3, <1>5, ElementOfSeq DEF OnlyAt
  <2>2. 1..n = (1..n - 1) \cup {n}
    BY <1>3
  <2>3. n - 1 \in Nat /\ n \notin 1..n - 1
    BY <1>3
  <2>4. CASE x \in S
    <3>1. OnlyCStep(c, y, x) = Append(y, x)
      BY <1>1, <2>4 DEF OnlyCStep, OnlyStep
    <3>2. ToSet(Append(y, x)) = ToSet(y) \cup {x}
      BY <2>1, ToSetAppend
    <3>3. ASSUME NEW z PROVE z \in ToSet(Append(y, x)) <=> z \in S /\ \E i \in 1..n : seq[i] = z
      BY <1>1, <1>5, <2>2, <2>4, <3>2 DEF OnlyAt
    <3>4. ASSUME IsInjective(seq) PROVE IsInjective(Append(y, x))
      <4>1. IsInjective(y)
        BY <1>1, <1>5, <3>4 DEF OnlyAt
      <4>2. x \notin ToSet(y)
        <5> SUFFICES ASSUME NEW i \in 1..n - 1, seq[i] = x PROVE FALSE
          BY <1>1, <1>5 DEF OnlyAt
        <5>1. i \in DOMAIN seq /\ n \in DOMAIN seq
          BY <1>3
        <5> QED BY <2>3, <3>4, <5>1 DEF IsInjective
      <4> HIDE DEF x
      <4> QED BY <2>1, <4>1, <4>2, AppendedInjective
    <3>5. Append(y, x) \in Seq(T)
      BY <2>1
    <3> HIDE DEF x
    <3> QED BY <1>1, <3>1, <3>3, <3>4, <3>5 DEF OnlyAt, x
  <2>5. CASE x \notin S
    <3>1. OnlyCStep(c, y, x) = y
      BY <1>1, <2>5 DEF OnlyCStep, OnlyStep
    <3>2. ASSUME NEW z PROVE z \in ToSet(y) <=> z \in S /\ \E i \in 1..n : seq[i] = z
      BY <1>1, <1>5, <2>2, <2>5 DEF OnlyAt
    <3> HIDE DEF x
    <3> QED BY <1>1, <1>5, <3>1, <3>2 DEF OnlyAt, x
  <2> QED BY <2>4, <2>5
<1>6. OnlyAt(c, Len(seq), Only(seq, S))
  BY <1>2, <1>4, <1>5, Picking!FoldsAlong
<1>7. ToSet(Only(seq, S)) = ToSet(seq) \cap S
  <2>1. \A x : x \in ToSet(seq) <=> \E i \in 1..Len(seq) : seq[i] = x
    BY <1>3 DEF ToSet
  <2> QED BY <1>1, <1>6, <2>1 DEF OnlyAt
<1> QED BY <1>1, <1>6, <1>7 DEF OnlyAt

-----------------------------------------------------------------------------
(* The rule block: how often a rule is in it                               *)

Copies(e, b) == IF e \in DOMAIN b THEN b[e] ELSE 0

\* Putting rules into the block, each once.
LEMMA BlockAdd ==
    ASSUME NEW b, IsABag(b), NEW R, NEW e
    PROVE  /\ IsABag(b (+) SetToBag(R))
           /\ Copies(e, b) \in Nat
           /\ Copies(e, b (+) SetToBag(R)) = Copies(e, b) + Bit(e \in R)
<1> DEFINE d == b (+) SetToBag(R)
<1>1. /\ DOMAIN d = DOMAIN b \cup R
      /\ \A x \in DOMAIN d : d[x] = (IF x \in DOMAIN b THEN b[x] ELSE 0) + (IF x \in R THEN 1 ELSE 0)
  BY DEF (+), SetToBag
<1>2. d = [x \in DOMAIN d |-> d[x]]
  BY DEF (+)
<1>3. \A x \in DOMAIN b : b[x] \in Nat /\ b[x] > 0
  BY DEF IsABag
<1> HIDE DEF d
<1>4. ASSUME NEW x \in DOMAIN d PROVE d[x] \in Nat /\ d[x] > 0
  <2>1. CASE x \in DOMAIN b
    BY <1>1, <1>3, <2>1
  <2>2. CASE x \notin DOMAIN b
    BY <1>1, <2>2
  <2> QED BY <2>1, <2>2
<1>5. IsABag(d)
  BY <1>2, <1>4 DEF IsABag
<1>6. Copies(e, b) \in Nat
  BY <1>3 DEF Copies
<1>7. Copies(e, d) = Copies(e, b) + Bit(e \in R)
  <2>1. CASE e \in DOMAIN d
    BY <1>1, <1>3, <2>1 DEF Copies, Bit
  <2>2. CASE e \notin DOMAIN d
    BY <1>1, <2>2 DEF Copies, Bit
  <2> QED BY <2>1, <2>2
<1> QED BY <1>5, <1>6, <1>7 DEF d

\* Taking rules out of the block, each once.
LEMMA BlockTake ==
    ASSUME NEW b, IsABag(b), NEW R, NEW e
    PROVE  /\ IsABag(b (-) SetToBag(R))
           /\ Bit(e \in R) <= Copies(e, b) =>
                 Copies(e, b (-) SetToBag(R)) = Copies(e, b) - Bit(e \in R)
<1> DEFINE left == [x \in DOMAIN b |-> IF x \in R THEN b[x] - 1 ELSE b[x]]
           d == b (-) SetToBag(R)
<1>1. \A x \in DOMAIN b : b[x] \in Nat /\ b[x] > 0
  BY DEF IsABag
<1>2. d = [x \in {y \in DOMAIN left : left[y] > 0} |-> left[x]]
  BY DEF (-), SetToBag
<1>3. DOMAIN left = DOMAIN b /\ \A x \in DOMAIN b : left[x] = IF x \in R THEN b[x] - 1 ELSE b[x]
  OBVIOUS
<1> HIDE DEF d, left
<1>4. ASSUME NEW x \in DOMAIN b PROVE left[x] \in Nat
  BY <1>1, <1>3
<1>5. DOMAIN d = {y \in DOMAIN b : left[y] > 0} /\ \A x \in DOMAIN d : d[x] = left[x]
  BY <1>2, <1>3
<1>6. d = [x \in DOMAIN d |-> d[x]]
  BY <1>2
<1>7. \A x \in DOMAIN d : d[x] \in {n \in Nat : n > 0}
  BY <1>4, <1>5
<1>8. IsABag(d)
  BY <1>6, <1>7 DEF IsABag
<1>9. ASSUME Bit(e \in R) <= Copies(e, b) PROVE Copies(e, d) = Copies(e, b) - Bit(e \in R)
  <2>1. CASE e \notin DOMAIN b
    <3>1. Copies(e, b) = 0 /\ Copies(e, d) = 0
      BY <1>5, <2>1 DEF Copies
    <3>2. Bit(e \in R) = 0
      BY <1>9, <3>1 DEF Bit
    <3> QED BY <3>1, <3>2
  <2>2. CASE e \in DOMAIN b
    <3>1. Copies(e, b) = b[e]
      BY <2>2 DEF Copies
    <3>2. left[e] = b[e] - Bit(e \in R)
      BY <1>1, <1>3, <2>2 DEF Bit
    <3>3. Copies(e, d) = left[e]
      <4>1. CASE left[e] > 0
        BY <1>5, <2>2, <4>1 DEF Copies
      <4>2. CASE ~(left[e] > 0)
        <5>1. left[e] = 0
          BY <1>4, <2>2, <4>2
        <5> QED BY <1>5, <4>2, <5>1 DEF Copies
      <4> QED BY <4>1, <4>2
    <3> QED BY <3>1, <3>2, <3>3
  <2> QED BY <2>1, <2>2
<1> QED BY <1>8, <1>9 DEF d

\* Blocks with the same rules, as often, are the same.
LEMMA BlockEqual ==
    ASSUME NEW b, NEW d, IsABag(b), IsABag(d), \A e : Copies(e, b) = Copies(e, d)
    PROVE  b = d
<1>1. /\ \A x \in DOMAIN b : b[x] \in Nat /\ b[x] > 0
      /\ \A x \in DOMAIN d : d[x] \in Nat /\ d[x] > 0
  BY DEF IsABag
<1>2. b = [x \in DOMAIN b |-> b[x]] /\ d = [x \in DOMAIN d |-> d[x]]
  BY DEF IsABag
<1>3. ASSUME NEW e PROVE e \in DOMAIN b <=> e \in DOMAIN d
  <2>1. e \in DOMAIN b => Copies(e, b) > 0
    BY <1>1 DEF Copies
  <2>2. e \in DOMAIN d => Copies(e, d) > 0
    BY <1>1 DEF Copies
  <2>3. e \notin DOMAIN b => Copies(e, b) = 0
    BY DEF Copies
  <2>4. e \notin DOMAIN d => Copies(e, d) = 0
    BY DEF Copies
  <2>5. Copies(e, b) = Copies(e, d)
    OBVIOUS
  <2> QED BY <2>1, <2>2, <2>3, <2>4, <2>5
<1>4. DOMAIN b = DOMAIN d
  BY <1>3
<1>5. ASSUME NEW e \in DOMAIN b PROVE b[e] = d[e]
  <2>1. Copies(e, b) = b[e] /\ Copies(e, d) = d[e]
    BY <1>4 DEF Copies
  <2> QED BY <2>1
<1> QED BY <1>2, <1>4, <1>5

-----------------------------------------------------------------------------
(* Rule groups                                                             *)

Rule == [out : Nat, if : SUBSET (Nat \X Nat), then : Nat]

RuleGroup == [obs : Seq(Nat), relevant : SUBSET Nat, rules : SUBSET Rule]

Obs(rg) == ToSet(rg.obs)

\* The rules of a rule group are the rules of its members, except that what
\* the groups in but conclude may have changed.
Speaks(c, but, rg) ==
    /\ \A g \in Obs(rg), h \in Obs(rg) :
          SameOn(c.fz, First(c, g), First(c, h), Enabled(c.fz) \cap rg.relevant)
    /\ \A g \in Obs(rg) \ but, h \in Obs(rg) \ but :
          OutputEquals(c.fz, First(c, g), First(c, h), c.out)
    /\ \A rule \in rg.rules : rule.if = Antecedent(c, rg)

\* What a proof claims of every rule group, a: that it speaks for all its
\* members but some; that the rules of the groups in fresh are made from
\* what is known now; that each group has a rule group of its own.
Good(c, a, rg) ==
    /\ rg.obs # <<>> /\ IsInjective(rg.obs)
    /\ a.single => Len(rg.obs) = 1
    /\ a.speaks => Speaks(c, a.but, rg)
    /\ Obs(rg) \cap a.fresh # {} => rg.rules = Generated(c, rg)

ContextOK(c) ==
    /\ c.fz.inTerms \in Seq(Nat) /\ c.fz.outTerms \in Seq(Nat)
    /\ c.out \in DOMAIN c.fz.outTerms

\* A rule group with other rules has the same weights and antecedent.
WeightOf(c, obs, t) ==
    SumOver(DOMAIN obs, LAMBDA n :
        SumOver(DOMAIN c.heap[obs[n]], LAMBDA l :
            OutWeight(c.heap[obs[n]][l], c.out, t)))

AntecedentOf(c, obs, relevant) ==
    UNION {{<<i, t>> : t \in {t \in 1..c.fz.inTerms[i] : InBit(First(c, obs[1]), i, t) = 1}} :
              i \in Enabled(c.fz) \cap relevant}

TotalOf(c, obs) == SumOver(1..c.fz.outTerms[c.out], LAMBDA t : WeightOf(c, obs, t))

GeneratedOf(c, obs, relevant) ==
    IF AntecedentOf(c, obs, relevant) = {} THEN {}
    ELSE {[out |-> c.out, if |-> AntecedentOf(c, obs, relevant), then |-> t] :
            t \in {t \in 1..c.fz.outTerms[c.out] :
                     RuleShare * WeightOf(c, obs, t) > TotalOf(c, obs)}}

LEMMA GeneratedBy ==
    ASSUME NEW c, NEW rg
    PROVE  /\ Antecedent(c, rg) = AntecedentOf(c, rg.obs, rg.relevant)
           /\ Generated(c, rg) = GeneratedOf(c, rg.obs, rg.relevant)
<1>1. Antecedent(c, rg) = AntecedentOf(c, rg.obs, rg.relevant)
  BY DEF Antecedent, AntecedentOf
<1>2. Generated(c, rg) = GeneratedOf(c, rg.obs, rg.relevant)
  BY DEF Generated, GeneratedOf, Weight, WeightOf, TotalOf, Antecedent, AntecedentOf, SumOver, FoldSet,
         MapThenFoldSet
<1> QED BY <1>1, <1>2

LEMMA SameOnIs ==
    ASSUME NEW f, NEW inputs
    PROVE  /\ \A o : SameOn(f, o, o, inputs)
           /\ \A o, p : SameOn(f, o, p, inputs) => SameOn(f, p, o, inputs)
           /\ \A o, p, q : SameOn(f, o, p, inputs) /\ SameOn(f, p, q, inputs) => SameOn(f, o, q, inputs)
BY DEF SameOn

LEMMA OutputEqualsIs ==
    ASSUME NEW f, NEW k
    PROVE  /\ \A o : OutputEquals(f, o, o, k)
           /\ \A o, p : OutputEquals(f, o, p, k) => OutputEquals(f, p, o, k)
           /\ \A o, p, q : OutputEquals(f, o, p, k) /\ OutputEquals(f, p, q, k) => OutputEquals(f, o, q, k)
BY DEF OutputEquals

\* The rules that are made anew.
LEMMA RefreshedIs ==
    ASSUME NEW c, NEW rg \in RuleGroup, ContextOK(c)
    PROVE  /\ Refreshed(c, rg) \in RuleGroup
           /\ Refreshed(c, rg).obs = rg.obs
           /\ Refreshed(c, rg).relevant = rg.relevant
           /\ Refreshed(c, rg).rules = Generated(c, Refreshed(c, rg))
           /\ \A rule \in Refreshed(c, rg).rules : rule.if = Antecedent(c, Refreshed(c, rg))
<1> DEFINE r == Refreshed(c, rg)
           G == GeneratedOf(c, rg.obs, rg.relevant)
           A == AntecedentOf(c, rg.obs, rg.relevant)
<1>1. rg = [obs |-> rg.obs, relevant |-> rg.relevant, rules |-> rg.rules]
      /\ rg.obs \in Seq(Nat) /\ rg.relevant \in SUBSET Nat
  BY DEF RuleGroup
<1>2. /\ Generated(c, rg) = G /\ Generated(c, r) = GeneratedOf(c, r.obs, r.relevant)
      /\ Antecedent(c, r) = AntecedentOf(c, r.obs, r.relevant)
  BY GeneratedBy
<1>3. r = [rg EXCEPT !.rules = G]
  BY <1>2 DEF Refreshed
<1>4. A \in SUBSET (Nat \X Nat)
  <2>1. Enabled(c.fz) \subseteq Nat
    BY LenProperties DEF Enabled, ContextOK
  <2>2. \A i \in Enabled(c.fz) : c.fz.inTerms[i] \in Nat
    <3>1. Enabled(c.fz) \subseteq DOMAIN c.fz.inTerms
      BY DEF Enabled
    <3> QED BY <3>1, LenProperties, ElementOfSeq DEF ContextOK
  <2>3. ASSUME NEW p \in A PROVE p \in Nat \X Nat
    <3>1. PICK i \in Enabled(c.fz) : \E t \in 1..c.fz.inTerms[i] : p = <<i, t>>
      BY <2>3 DEF AntecedentOf
    <3> QED BY <2>1, <2>2, <3>1
  <2> HIDE DEF A
  <2> QED BY <2>3
<1>5. G \in SUBSET Rule
  <2>1. c.fz.outTerms[c.out] \in Nat /\ c.out \in Nat
    BY LenProperties, ElementOfSeq DEF ContextOK
  <2>2. \A x \in G : \E t \in 1..c.fz.outTerms[c.out] : x = [out |-> c.out, if |-> A, then |-> t]
    <3> HIDE DEF A
    <3> QED BY DEF GeneratedOf, A
  <2> HIDE DEF G, A
  <2>3. ASSUME NEW x \in G PROVE x \in Rule
    <3>1. PICK t \in 1..c.fz.outTerms[c.out] : x = [out |-> c.out, if |-> A, then |-> t]
      BY <2>2
    <3>2. t \in Nat
      BY <2>1
    <3> QED BY <1>4, <2>1, <3>1, <3>2 DEF Rule
  <2> QED BY <2>3
<1>6. \A x \in G : x.if = A
  <2>1. \A x \in G : \E t : x = [out |-> c.out, if |-> A, then |-> t]
    <3> HIDE DEF A
    <3> QED BY DEF GeneratedOf, A
  <2> HIDE DEF G, A
  <2> QED BY <2>1
<1> HIDE DEF G, A, r
<1>7. r = [obs |-> rg.obs, relevant |-> rg.relevant, rules |-> G]
  BY <1>1, <1>3
<1>8. r.obs = rg.obs /\ r.relevant = rg.relevant /\ r.rules = G
  BY <1>7
<1>9. r \in RuleGroup
  BY <1>1, <1>5, <1>7 DEF RuleGroup
<1>10. Generated(c, r) = G /\ Antecedent(c, r) = A
  BY <1>2, <1>8 DEF G, A
<1> QED BY <1>6, <1>8, <1>9, <1>10 DEF r

\* The rule group of one group of observations.
LEMMA AloneGood ==
    ASSUME NEW c, NEW a, ContextOK(c), NEW g \in Nat
    PROVE  /\ Refreshed(c, Alone(c, g)) \in RuleGroup
           /\ Good(c, a, Refreshed(c, Alone(c, g)))
           /\ Obs(Refreshed(c, Alone(c, g))) = {g}
<1> DEFINE one == Alone(c, g)
           r == Refreshed(c, one)
<1>1. /\ <<g>> \in Seq(Nat) /\ Len(<<g>>) = 1 /\ <<g>> # <<>> /\ IsInjective(<<g>>)
      /\ ToSet(<<g>>) = {g}
  BY DEF IsInjective, ToSet
<1>2. DOMAIN c.fz.inTerms \in SUBSET Nat
  BY LenProperties DEF ContextOK
<1>3. one \in RuleGroup /\ one.obs = <<g>>
  BY <1>1, <1>2 DEF Alone, RuleGroup
<1> HIDE DEF one
<1>4. /\ r \in RuleGroup /\ r.obs = <<g>> /\ r.rules = Generated(c, r)
      /\ \A rule \in r.rules : rule.if = Antecedent(c, r)
  BY <1>3, RefreshedIs
<1> HIDE DEF r
<1>5. Obs(r) = {g}
  BY <1>1, <1>4 DEF Obs
<1>6. Speaks(c, a.but, r)
  BY <1>4, <1>5, SameOnIs, OutputEqualsIs DEF Speaks
<1>7. Good(c, a, r)
  BY <1>1, <1>4, <1>6 DEF Good
<1> QED BY <1>4, <1>5, <1>7 DEF r, one

\* A group that joins a rule group agrees with it on what stays relevant.
LEMMA WidenedGood ==
    ASSUME NEW c, NEW a, ContextOK(c), NEW rg \in RuleGroup, Good(c, a, rg),
           NEW g \in Nat, g \notin Obs(rg), a.but = {}, ~a.single, ~Conflicts(c, rg, g)
    PROVE  /\ Refreshed(c, Widened(c, rg, g)) \in RuleGroup
           /\ Good(c, a, Refreshed(c, Widened(c, rg, g)))
           /\ Obs(Refreshed(c, Widened(c, rg, g))) = Obs(rg) \cup {g}
<1> DEFINE w == Widened(c, rg, g)
           r == Refreshed(c, w)
           rel == {i \in rg.relevant : i \in Enabled(c.fz) => i \in Agreeing(c, rg, g)}
           f == rg.obs[1]
<1>1. /\ rg = [obs |-> rg.obs, relevant |-> rg.relevant, rules |-> rg.rules]
      /\ rg.obs \in Seq(Nat) /\ rg.relevant \in SUBSET Nat /\ rg.rules \in SUBSET Rule
      /\ rg.obs # <<>> /\ IsInjective(rg.obs)
  BY DEF RuleGroup, Good
<1>2. w = [obs |-> Append(rg.obs, g), relevant |-> rel, rules |-> rg.rules]
  <2>1. w = [rg EXCEPT !.obs = Append(rg.obs, g), !.relevant = rel]
    BY DEF Widened
  <2> HIDE DEF w, rel
  <2> QED BY <1>1, <2>1
<1>3. Append(rg.obs, g) \in Seq(Nat) /\ ToSet(Append(rg.obs, g)) = Obs(rg) \cup {g}
  BY <1>1, ToSetAppend DEF Obs
<1>4. Append(rg.obs, g) # <<>> /\ IsInjective(Append(rg.obs, g))
  <2>1. IsInjective(Append(rg.obs, g))
    BY <1>1, AppendedInjective DEF Obs
  <2>2. Len(Append(rg.obs, g)) = Len(rg.obs) + 1 /\ Len(rg.obs) \in Nat
    BY <1>1, AppendProperties, LenProperties
  <2>3. Append(rg.obs, g) # <<>>
    BY <1>1, AppendProperties
  <2> QED BY <2>1, <2>3
<1>5. w \in RuleGroup /\ w.obs = Append(rg.obs, g) /\ w.relevant = rel
  BY <1>1, <1>2, <1>3 DEF RuleGroup
<1> HIDE DEF w
<1>6. /\ r \in RuleGroup /\ r.obs = Append(rg.obs, g) /\ r.relevant = rel
      /\ r.rules = Generated(c, r) /\ \A rule \in r.rules : rule.if = Antecedent(c, r)
  BY <1>5, RefreshedIs
<1> HIDE DEF r
<1>7. Obs(r) = Obs(rg) \cup {g}
  BY <1>3, <1>6 DEF Obs
<1>8. f \in Obs(rg) /\ f # g
  BY <1>1, ToSetEmpty DEF Obs
<1>9. OutputEquals(c.fz, First(c, f), First(c, g), c.out)
  <2>1. rg.obs # <<g>>
    BY <1>8, <1>1
  <2> QED BY <1>8, <2>1 DEF Conflicts
<1>10. SameOn(c.fz, First(c, f), First(c, g), Enabled(c.fz) \cap rel)
  <2>1. \A i \in Enabled(c.fz) \cap rel : SameOn(c.fz, First(c, f), First(c, g), {i})
    BY DEF Agreeing
  <2> HIDE DEF rel
  <2> QED BY <2>1 DEF SameOn
<1>11. ASSUME a.speaks PROVE Speaks(c, a.but, r)
  <2>1. /\ \A x \in Obs(rg), y \in Obs(rg) :
             SameOn(c.fz, First(c, x), First(c, y), Enabled(c.fz) \cap rg.relevant)
        /\ \A x \in Obs(rg), y \in Obs(rg) :
             OutputEquals(c.fz, First(c, x), First(c, y), c.out)
    BY <1>11 DEF Good, Speaks
  <2>2. \A o, p : SameOn(c.fz, o, p, Enabled(c.fz) \cap rg.relevant)
                     => SameOn(c.fz, o, p, Enabled(c.fz) \cap rel)
    BY DEF SameOn
  <2>3. \A x \in Obs(rg) : SameOn(c.fz, First(c, x), First(c, g), Enabled(c.fz) \cap rel)
    BY <1>8, <1>10, <2>1, <2>2, SameOnIs
  <2>4. \A x \in Obs(rg) : OutputEquals(c.fz, First(c, x), First(c, g), c.out)
    BY <1>8, <1>9, <2>1, OutputEqualsIs
  <2> HIDE DEF rel
  <2>5. \A x \in Obs(r), y \in Obs(r) : SameOn(c.fz, First(c, x), First(c, y), Enabled(c.fz) \cap rel)
    BY <1>7, <2>1, <2>2, <2>3, SameOnIs
  <2>6. \A x \in Obs(r), y \in Obs(r) : OutputEquals(c.fz, First(c, x), First(c, y), c.out)
    BY <1>7, <2>1, <2>4, OutputEqualsIs
  <2> QED BY <1>6, <2>5, <2>6 DEF Speaks
<1>12. Good(c, a, r)
  BY <1>4, <1>6, <1>11 DEF Good
<1> QED BY <1>6, <1>7, <1>12 DEF r, w

\* A rule group that loses a member still speaks for the others.
LEMMA DroppedGood ==
    ASSUME NEW c, NEW a, NEW rg \in RuleGroup, Good(c, a, rg), a.fresh = {},
           NEW g \in Obs(rg), rg.obs # <<g>>
    PROVE  /\ [rg EXCEPT !.obs = RemoveFirst(@, g)] \in RuleGroup
           /\ Good(c, a, [rg EXCEPT !.obs = RemoveFirst(@, g)])
           /\ Obs([rg EXCEPT !.obs = RemoveFirst(@, g)]) = Obs(rg) \ {g}
           /\ [rg EXCEPT !.obs = RemoveFirst(@, g)].rules = rg.rules
<1> DEFINE obs == RemoveFirst(rg.obs, g)
           r == [rg EXCEPT !.obs = obs]
           f == rg.obs[1]
<1>1. /\ rg = [obs |-> rg.obs, relevant |-> rg.relevant, rules |-> rg.rules]
      /\ rg.obs \in Seq(Nat) /\ rg.relevant \in SUBSET Nat /\ rg.rules \in SUBSET Rule
      /\ rg.obs # <<>> /\ IsInjective(rg.obs)
  BY DEF RuleGroup, Good
<1>2. /\ obs \in Seq(Nat) /\ Len(obs) = Len(rg.obs) - 1 /\ IsInjective(obs)
      /\ ToSet(obs) = Obs(rg) \ {g}
  BY <1>1, RemoveFirstIs DEF Obs
<1> HIDE DEF obs
<1>3. r = [obs |-> obs, relevant |-> rg.relevant, rules |-> rg.rules]
  BY <1>1
<1> HIDE DEF r
<1>4. r \in RuleGroup /\ r.obs = obs /\ r.relevant = rg.relevant /\ r.rules = rg.rules
  BY <1>1, <1>2, <1>3 DEF RuleGroup
<1>5. Len(rg.obs) # 1
  <2> SUFFICES ASSUME Len(rg.obs) = 1 PROVE FALSE
    OBVIOUS
  <2>1. rg.obs = <<rg.obs[1]>>
    BY <1>1
  <2>2. g = rg.obs[1]
    <3>1. PICK i \in DOMAIN rg.obs : g = rg.obs[i]
      BY DEF Obs, ToSet
    <3>2. i = 1
      BY <1>1, <3>1, LenProperties
    <3> QED BY <3>1, <3>2
  <2> QED BY <2>1, <2>2
<1>6. obs # <<>>
  <2>1. Len(rg.obs) \in Nat /\ Len(rg.obs) # 0
    BY <1>1, LenProperties, EmptySeq
  <2>2. Len(obs) # 0
    BY <1>2, <1>5, <2>1
  <2> QED BY <2>2
<1>7. Obs(r) = Obs(rg) \ {g}
  BY <1>2, <1>4 DEF Obs
<1>8. ASSUME a.speaks PROVE Speaks(c, a.but, r)
  <2>1. Speaks(c, a.but, rg)
    BY <1>8 DEF Good
  <2>2. /\ \A x \in Obs(r), y \in Obs(r) :
             SameOn(c.fz, First(c, x), First(c, y), Enabled(c.fz) \cap r.relevant)
        /\ \A x \in Obs(r) \ a.but, y \in Obs(r) \ a.but :
             OutputEquals(c.fz, First(c, x), First(c, y), c.out)
    BY <1>4, <1>7, <2>1 DEF Speaks
  <2>3. obs[1] \in Obs(rg) /\ f \in Obs(rg)
    BY <1>1, <1>2, <1>6, ToSetEmpty DEF Obs
  <2>4. SameOn(c.fz, First(c, f), First(c, obs[1]), Enabled(c.fz) \cap rg.relevant)
    BY <2>1, <2>3 DEF Speaks
  <2>5. AntecedentOf(c, rg.obs, rg.relevant) = AntecedentOf(c, obs, rg.relevant)
    BY <2>4 DEF AntecedentOf, SameOn
  <2>6. Antecedent(c, r) = Antecedent(c, rg)
    BY <1>4, <2>5, GeneratedBy
  <2> QED BY <1>4, <2>1, <2>2, <2>6 DEF Speaks
<1>9. Good(c, a, r)
  BY <1>2, <1>4, <1>5, <1>6, <1>8 DEF Good
<1> QED BY <1>4, <1>7, <1>9 DEF r, obs

\* A member whose outputs have changed, and still agree with the others.
LEMMA BalancedGood ==
    ASSUME NEW c, NEW a, NEW b, ContextOK(c), NEW rg \in RuleGroup, Good(c, a, rg),
           NEW g \in Obs(rg), a.but \subseteq {g}, a.single = b.single, a.speaks = b.speaks,
           rg.obs # <<g>>, ~Conflicts(c, rg, g)
    PROVE  Refreshed(c, rg) \in RuleGroup /\ Good(c, b, Refreshed(c, rg)) /\ Obs(Refreshed(c, rg)) = Obs(rg)
<1> DEFINE r == Refreshed(c, rg)
           other == IF rg.obs[1] # g THEN rg.obs[1] ELSE rg.obs[2]
<1>1. rg.obs \in Seq(Nat) /\ rg.obs # <<>> /\ IsInjective(rg.obs)
  BY DEF RuleGroup, Good
<1>2. /\ r \in RuleGroup /\ r.obs = rg.obs /\ r.relevant = rg.relevant
      /\ r.rules = Generated(c, r) /\ \A rule \in r.rules : rule.if = Antecedent(c, r)
  BY RefreshedIs
<1> HIDE DEF r
<1>3. Obs(r) = Obs(rg)
  BY <1>2 DEF Obs
<1>4. Len(rg.obs) \in Nat \ {0, 1}
  <2>1. Len(rg.obs) \in Nat \ {0}
    BY <1>1, LenProperties, EmptySeq
  <2>2. ASSUME Len(rg.obs) = 1 PROVE FALSE
    <3>1. rg.obs = <<rg.obs[1]>>
      BY <1>1, <2>2
    <3>2. PICK i \in DOMAIN rg.obs : g = rg.obs[i]
      BY DEF Obs, ToSet
    <3>3. i = 1
      BY <1>1, <2>2, <3>2, LenProperties
    <3> QED BY <3>1, <3>2, <3>3
  <2> QED BY <2>1, <2>2
<1>5. other \in Obs(rg) /\ other # g
  <2>1. 1 \in DOMAIN rg.obs /\ 2 \in DOMAIN rg.obs
    <3>1. DOMAIN rg.obs = 1..Len(rg.obs)
      BY <1>1, LenProperties
    <3>2. 1 \in 1..Len(rg.obs) /\ 2 \in 1..Len(rg.obs)
      <4>1. \A n \in Nat \ {0, 1} : 1 \in 1..n /\ 2 \in 1..n
        OBVIOUS
      <4> QED BY ONLY <1>4, <4>1
    <3> QED BY ONLY <3>1, <3>2
  <2>2. rg.obs[1] # rg.obs[2]
    BY <1>1, <2>1 DEF IsInjective
  <2> QED BY <2>1, <2>2 DEF Obs, ToSet
<1>6. OutputEquals(c.fz, First(c, other), First(c, g), c.out)
  BY DEF Conflicts
<1> HIDE DEF other
<1>7. ASSUME b.speaks PROVE Speaks(c, b.but, r)
  <2>1. /\ \A x \in Obs(rg), y \in Obs(rg) :
             SameOn(c.fz, First(c, x), First(c, y), Enabled(c.fz) \cap rg.relevant)
        /\ \A x \in Obs(rg) \ {g}, y \in Obs(rg) \ {g} :
             OutputEquals(c.fz, First(c, x), First(c, y), c.out)
    BY <1>7 DEF Good, Speaks
  <2>2. \A x \in Obs(rg) : OutputEquals(c.fz, First(c, x), First(c, g), c.out)
    BY <1>5, <1>6, <2>1, OutputEqualsIs
  <2>3. \A x \in Obs(rg), y \in Obs(rg) : OutputEquals(c.fz, First(c, x), First(c, y), c.out)
    BY <2>2, OutputEqualsIs
  <2> QED BY <1>2, <1>3, <2>1, <2>3 DEF Speaks
<1>8. Good(c, b, r)
  BY <1>1, <1>2, <1>4, <1>7 DEF Good
<1> QED BY <1>2, <1>3, <1>8 DEF r

\* A rule group that has nothing to do with the group that changes.
LEMMA OtherGood ==
    ASSUME NEW c, NEW a, NEW b, NEW rg, Good(c, a, rg), NEW g, g \notin Obs(rg),
           a.single = b.single, a.speaks = b.speaks, a.but \subseteq {g}, b.fresh \subseteq {g}
    PROVE  Good(c, b, rg)
<1>1. ASSUME b.speaks PROVE Speaks(c, b.but, rg)
  <2>1. Speaks(c, a.but, rg)
    BY <1>1 DEF Good
  <2> QED BY <2>1 DEF Speaks
<1>2. Obs(rg) \cap b.fresh = {}
  OBVIOUS
<1> QED BY <1>1, <1>2 DEF Good

-----------------------------------------------------------------------------
(* A list of rule groups                                                   *)

\* How many rule groups of a list have the rule.
UseStep(rule, sum, rg) == sum + Bit(rule \in rg.rules)

Using == INSTANCE SeqLemmas WITH FoldOp <- UseStep

Uses(rule, list) == Using!Folded(rule, 0, list)

Has(rule, rg) == Bit(rule \in rg.rules)

LEMMA UseAdds ==
    ASSUME NEW e
    PROVE  Using!Additive(e, RuleGroup) /\ \A rg : Using!Share(e, rg) = Has(e, rg) /\ Has(e, rg) \in Nat
BY DEF Using!Additive, Using!Share, UseStep, Has, Bit

LEMMA UsesIs ==
    ASSUME NEW e, NEW list \in Seq(RuleGroup)
    PROVE  /\ Uses(e, list) \in Nat /\ Uses(e, <<>>) = 0
           /\ \A rg \in RuleGroup : Uses(e, Append(list, rg)) = Uses(e, list) + Has(e, rg)
           /\ \A n \in 1..Len(list), rg \in RuleGroup :
                 Uses(e, [list EXCEPT ![n] = rg]) + Has(e, list[n]) = Uses(e, list) + Has(e, rg)
           /\ \A n \in 1..Len(list) : Uses(e, RemoveAt(list, n)) + Has(e, list[n]) = Uses(e, list)
           /\ \A n \in 1..Len(list) : Has(e, list[n]) <= Uses(e, list)
<1>1. Using!Additive(e, RuleGroup) /\ \A rg : Using!Share(e, rg) = Has(e, rg) /\ Has(e, rg) \in Nat
  BY UseAdds
<1>2. Uses(e, list) \in Nat /\ Uses(e, <<>>) = 0
  BY <1>1, Using!SumType DEF Uses
<1>3. \A rg \in RuleGroup : Uses(e, Append(list, rg)) = Uses(e, list) + Has(e, rg)
  BY <1>1, Using!SumAppend DEF Uses
<1>4. \A n \in 1..Len(list), rg \in RuleGroup :
         Uses(e, [list EXCEPT ![n] = rg]) + Has(e, list[n]) = Uses(e, list) + Has(e, rg)
  <2> TAKE n \in 1..Len(list), rg \in RuleGroup
  <2>1. Uses(e, [list EXCEPT ![n] = rg]) + Using!Share(e, list[n]) = Uses(e, list) + Using!Share(e, rg)
    BY <1>1, Using!SumExcept DEF Uses
  <2> QED BY <1>1, <2>1
<1>5. ASSUME NEW n \in 1..Len(list)
      PROVE  /\ Uses(e, RemoveAt(list, n)) + Has(e, list[n]) = Uses(e, list)
             /\ Has(e, list[n]) <= Uses(e, list)
  <2>1. Uses(e, RemoveAt(list, n)) + Using!Share(e, list[n]) = Uses(e, list)
    <3>1. Using!Cut(list, n) = RemoveAt(list, n)
      BY DEF RemoveAt, Using!Cut
    <3>2. Using!Folded(e, 0, Using!Cut(list, n)) + Using!Share(e, list[n]) = Using!Folded(e, 0, list)
      BY <1>1, Using!SumCut
    <3> QED BY <3>1, <3>2 DEF Uses
  <2>2. RemoveAt(list, n) \in Seq(RuleGroup)
    BY RemoveAtProperties
  <2>3. Uses(e, RemoveAt(list, n)) \in Nat
    <3> DEFINE t == RemoveAt(list, n)
    <3>1. t \in Seq(RuleGroup)
      BY <2>2
    <3> HIDE DEF t
    <3>2. Uses(e, t) \in Nat
      BY <1>1, <3>1, Using!SumType DEF Uses
    <3> QED BY <3>2 DEF t
  <2>4. Uses(e, RemoveAt(list, n)) + Has(e, list[n]) = Uses(e, list) /\ Has(e, list[n]) \in Nat
    BY <1>1, <2>1
  <2> QED BY <1>2, <2>3, <2>4
<1> QED BY <1>2, <1>3, <1>4, <1>5

\* The rule groups of a list are good, and have no group in common; S are the
\* groups they have.
Listed(c, a, S, list) ==
    /\ list \in Seq(RuleGroup)
    /\ \A r \in DOMAIN list : Good(c, a, list[r])
    /\ \A r \in DOMAIN list, q \in DOMAIN list : r # q => Obs(list[r]) \cap Obs(list[q]) = {}
    /\ S = UNION {Obs(list[r]) : r \in DOMAIN list}

\* A good rule group has a member.
LEMMA GoodHolds ==
    ASSUME NEW c, NEW a, NEW rg \in RuleGroup, Good(c, a, rg)
    PROVE  Obs(rg) # {} /\ Obs(rg) \subseteq Nat
<1>1. rg.obs \in Seq(Nat) /\ rg.obs # <<>>
  BY DEF RuleGroup, Good
<1> QED BY <1>1, ToSetEmpty DEF Obs

LEMMA ListedEmpty ==
    ASSUME NEW c, NEW a
    PROVE  Listed(c, a, {}, <<>>)
<1>1. <<>> \in Seq(RuleGroup) /\ DOMAIN <<>> = {}
  OBVIOUS
<1> QED BY <1>1 DEF Listed

LEMMA ListedAppend ==
    ASSUME NEW c, NEW a, NEW S, NEW list, Listed(c, a, S, list),
           NEW rg \in RuleGroup, Good(c, a, rg), Obs(rg) \cap S = {}
    PROVE  Listed(c, a, S \cup Obs(rg), Append(list, rg))
<1> DEFINE t == Append(list, rg)
<1>1. list \in Seq(RuleGroup)
  BY DEF Listed
<1>2. /\ t \in Seq(RuleGroup) /\ Len(list) \in Nat /\ DOMAIN list = 1..Len(list)
      /\ DOMAIN t = 1..Len(list) + 1
      /\ \A r \in 1..Len(list) : t[r] = list[r]
      /\ t[Len(list) + 1] = rg
  BY <1>1, AppendProperties, LenProperties
<1> HIDE DEF t
<1>3. DOMAIN t = DOMAIN list \cup {Len(list) + 1} /\ Len(list) + 1 \notin DOMAIN list
  BY <1>2
<1>4. \A r \in DOMAIN list : t[r] = list[r] /\ Obs(list[r]) \subseteq S
  BY <1>2 DEF Listed
<1>5. \A r \in DOMAIN t : Good(c, a, t[r])
  BY <1>2, <1>3, <1>4 DEF Listed
<1>6. ASSUME NEW r \in DOMAIN t, NEW q \in DOMAIN t, r # q PROVE Obs(t[r]) \cap Obs(t[q]) = {}
  <2>1. CASE r \in DOMAIN list /\ q \in DOMAIN list
    BY <1>4, <1>6, <2>1 DEF Listed
  <2>2. CASE r \in DOMAIN list /\ q = Len(list) + 1
    BY <1>2, <1>4, <2>2
  <2>3. CASE r = Len(list) + 1 /\ q \in DOMAIN list
    BY <1>2, <1>4, <2>3
  <2> QED BY <1>3, <1>6, <2>1, <2>2, <2>3
<1>7. S \cup Obs(rg) = UNION {Obs(t[r]) : r \in DOMAIN t}
  <2>1. S = UNION {Obs(t[r]) : r \in DOMAIN list}
    BY <1>4 DEF Listed
  <2> QED BY <1>2, <1>3, <2>1
<1> QED BY <1>2, <1>5, <1>6, <1>7 DEF Listed, t

\* One rule group is replaced: claims may change, if they hold of the others.
LEMMA ListedExcept ==
    ASSUME NEW c, NEW a, NEW b, NEW S, NEW list, Listed(c, a, S, list), NEW n \in DOMAIN list,
           NEW rg \in RuleGroup, Good(c, b, rg),
           \A r \in DOMAIN list : r # n => Good(c, b, list[r]) /\ Obs(list[r]) \cap Obs(rg) = {}
    PROVE  Listed(c, b, (S \ Obs(list[n])) \cup Obs(rg), [list EXCEPT ![n] = rg])
<1> DEFINE t == [list EXCEPT ![n] = rg]
<1>1. list \in Seq(RuleGroup)
  BY DEF Listed
<1>2. /\ t \in Seq(RuleGroup) /\ DOMAIN t = DOMAIN list
      /\ t[n] = rg /\ \A r \in DOMAIN list : r # n => t[r] = list[r]
  <2>1. list = [r \in DOMAIN list |-> list[r]]
    BY <1>1
  <2>2. t \in Seq(RuleGroup)
    BY <1>1, ExceptSeq, LenProperties
  <2> QED BY <1>1, <2>1, <2>2
<1> HIDE DEF t
<1>3. \A r \in DOMAIN t : Good(c, b, t[r])
  BY <1>2
<1>4. ASSUME NEW r \in DOMAIN t, NEW q \in DOMAIN t, r # q PROVE Obs(t[r]) \cap Obs(t[q]) = {}
  <2>1. CASE r # n /\ q # n
    BY <1>2, <1>4, <2>1 DEF Listed
  <2>2. CASE r = n
    BY <1>2, <1>4, <2>2
  <2>3. CASE q = n
    BY <1>2, <1>4, <2>3
  <2> QED BY <2>1, <2>2, <2>3
<1>5. (S \ Obs(list[n])) \cup Obs(rg) = UNION {Obs(t[r]) : r \in DOMAIN t}
  <2>1. ASSUME NEW x \in S, x \notin Obs(list[n]) PROVE \E r \in DOMAIN t : x \in Obs(t[r])
    BY <1>2, <2>1 DEF Listed
  <2>2. ASSUME NEW r \in DOMAIN t, NEW x \in Obs(t[r]), r # n PROVE x \in S /\ x \notin Obs(list[n])
    <3>1. t[r] = list[r] /\ r \in DOMAIN list
      BY <1>2, <2>2
    <3>2. Obs(list[r]) \cap Obs(list[n]) = {} /\ Obs(list[r]) \subseteq S
      BY <2>2, <3>1 DEF Listed
    <3> QED BY <2>2, <3>1, <3>2
  <2> QED BY <1>2, <2>1, <2>2
<1> QED BY <1>2, <1>3, <1>4, <1>5 DEF Listed, t

\* One rule group leaves the list.
LEMMA ListedRemoveAt ==
    ASSUME NEW c, NEW a, NEW b, NEW S, NEW list, Listed(c, a, S, list), NEW n \in DOMAIN list,
           \A r \in DOMAIN list : r # n => Good(c, b, list[r])
    PROVE  /\ Listed(c, b, S \ Obs(list[n]), RemoveAt(list, n))
           /\ ToSet(RemoveAt(list, n)) = ToSet(list) \ {list[n]}
<1> DEFINE t == RemoveAt(list, n)
<1>1. list \in Seq(RuleGroup) /\ \A r \in DOMAIN list : Obs(list[r]) # {} /\ Obs(list[r]) \subseteq S
  <2>1. list \in Seq(RuleGroup) /\ \A r \in DOMAIN list : list[r] \in RuleGroup /\ Good(c, a, list[r])
    BY LenProperties, ElementOfSeq DEF Listed
  <2> QED BY <2>1, GoodHolds DEF Listed
<1>2. IsInjective(list)
  <2>1. ASSUME NEW r \in DOMAIN list, NEW q \in DOMAIN list, list[r] = list[q] PROVE r = q
    BY <1>1, <2>1 DEF Listed
  <2> QED BY <2>1 DEF IsInjective
<1>3. t \in Seq(RuleGroup) /\ IsInjective(t) /\ ToSet(t) = ToSet(list) \ {list[n]}
  BY <1>1, <1>2, RemoveAtSet, RemoveAtProperties
<1> HIDE DEF t
<1>4. \A r \in DOMAIN t : \E m \in DOMAIN list : m # n /\ t[r] = list[m]
  <2>1. \A r \in DOMAIN t : t[r] \in ToSet(list) /\ t[r] # list[n]
    BY <1>3 DEF ToSet
  <2> QED BY <2>1 DEF ToSet
<1>5. \A m \in DOMAIN list : m # n => \E r \in DOMAIN t : t[r] = list[m]
  <2>1. ASSUME NEW m \in DOMAIN list, m # n PROVE list[m] \in ToSet(t)
    <3>1. list[m] # list[n]
      BY <1>2, <2>1 DEF IsInjective
    <3> QED BY <1>3, <3>1 DEF ToSet
  <2> QED BY <2>1 DEF ToSet
<1>6. \A r \in DOMAIN t : Good(c, b, t[r])
  BY <1>4
<1>7. ASSUME NEW r \in DOMAIN t, NEW q \in DOMAIN t, r # q PROVE Obs(t[r]) \cap Obs(t[q]) = {}
  <2>1. t[r] # t[q]
    BY <1>3, <1>7 DEF IsInjective
  <2>2. PICK m \in DOMAIN list : t[r] = list[m]
    BY <1>4
  <2>3. PICK k \in DOMAIN list : t[q] = list[k]
    BY <1>4
  <2> QED BY <2>1, <2>2, <2>3 DEF Listed
<1>8. S \ Obs(list[n]) = UNION {Obs(t[r]) : r \in DOMAIN t}
  <2>1. ASSUME NEW x \in S, x \notin Obs(list[n]) PROVE \E r \in DOMAIN t : x \in Obs(t[r])
    <3>1. PICK m \in DOMAIN list : x \in Obs(list[m])
      BY DEF Listed
    <3> QED BY <1>5, <2>1, <3>1
  <2>2. ASSUME NEW r \in DOMAIN t, NEW x \in Obs(t[r]) PROVE x \in S /\ x \notin Obs(list[n])
    <3>1. PICK m \in DOMAIN list : m # n /\ t[r] = list[m]
      BY <1>4
    <3>2. Obs(list[m]) \cap Obs(list[n]) = {} /\ Obs(list[m]) \subseteq S
      BY <1>1, <3>1 DEF Listed
    <3> QED BY <2>2, <3>1, <3>2
  <2> QED BY <2>1, <2>2
<1> QED BY <1>3, <1>6, <1>7, <1>8 DEF Listed, t

-----------------------------------------------------------------------------
(* The operations on a list and the rule block                             *)

\* The block has the rules of the list, and k times the rule of the claim
\* besides them.
Sound(c, a, S, k, x) ==
    /\ x = [list |-> x.list, block |-> x.block]
    /\ Listed(c, a, S, x.list)
    /\ IsABag(x.block)
    /\ Copies(a.rule, x.block) = k + Uses(a.rule, x.list)

LEMMA HasType == ASSUME NEW e, NEW rg PROVE Has(e, rg) \in Nat /\ Has(e, rg) = Bit(e \in rg.rules)
BY DEF Has, Bit

\* Rules that are exchanged.
LEMMA ExchangedBlock ==
    ASSUME NEW b, IsABag(b), NEW e, NEW old, NEW new, NEW k \in Nat, Copies(e, b) = k + Has(e, old)
    PROVE  /\ IsABag((b (-) SetToBag(old.rules)) (+) SetToBag(new.rules))
           /\ Copies(e, (b (-) SetToBag(old.rules)) (+) SetToBag(new.rules)) = k + Has(e, new)
<1> DEFINE d == b (-) SetToBag(old.rules)
<1>1. Has(e, old) = Bit(e \in old.rules) /\ Has(e, new) = Bit(e \in new.rules)
      /\ Has(e, old) \in Nat /\ Has(e, new) \in Nat
  BY HasType
<1>2. Bit(e \in old.rules) <= Copies(e, b)
  BY <1>1
<1>3. IsABag(d) /\ Copies(e, d) = Copies(e, b) - Bit(e \in old.rules)
  BY <1>2, BlockTake
<1> HIDE DEF d
<1>4. /\ IsABag(d (+) SetToBag(new.rules))
      /\ Copies(e, d (+) SetToBag(new.rules)) = Copies(e, d) + Bit(e \in new.rules)
  BY <1>3, BlockAdd
<1>5. Copies(e, d) = k
  BY <1>1, <1>3
<1> QED BY <1>1, <1>4, <1>5 DEF d

LEMMA ExchangedSound ==
    ASSUME NEW c, NEW a, NEW b, NEW S, NEW k \in Nat, NEW x, Sound(c, a, S, k, x),
           NEW n \in DOMAIN x.list, NEW rg \in RuleGroup, Good(c, b, rg), a.rule = b.rule,
           \A r \in DOMAIN x.list : r # n => Good(c, b, x.list[r]) /\ Obs(x.list[r]) \cap Obs(rg) = {}
    PROVE  Sound(c, b, (S \ Obs(x.list[n])) \cup Obs(rg), k, Exchanged(x, n, rg))
<1> DEFINE list == [x.list EXCEPT ![n] = rg]
           block == (x.block (-) SetToBag(x.list[n].rules)) (+) SetToBag(rg.rules)
           e == a.rule
<1>1. Exchanged(x, n, rg) = [list |-> list, block |-> block]
  BY DEF Exchanged
<1>2. x.list \in Seq(RuleGroup) /\ n \in 1..Len(x.list)
  BY LenProperties DEF Sound, Listed
<1>3. Listed(c, b, (S \ Obs(x.list[n])) \cup Obs(rg), list)
  BY ListedExcept DEF Sound
<1>4. /\ Uses(e, list) + Has(e, x.list[n]) = Uses(e, x.list) + Has(e, rg)
      /\ Has(e, x.list[n]) <= Uses(e, x.list) /\ Uses(e, x.list) \in Nat
  BY <1>2, UsesIs
<1>5. Has(e, x.list[n]) \in Nat /\ Has(e, rg) \in Nat
  BY HasType
<1>6. Uses(e, list) \in Nat
  <2> HIDE DEF list
  <2>1. list \in Seq(RuleGroup)
    BY <1>3 DEF Listed
  <2> QED BY <2>1, UsesIs
<1> DEFINE j == (k + Uses(e, x.list)) - Has(e, x.list[n])
<1>7. j \in Nat /\ k + Uses(e, x.list) = j + Has(e, x.list[n])
  BY <1>4, <1>5
<1>8. j + Has(e, rg) = k + Uses(e, list)
  BY <1>4, <1>5, <1>6
<1> HIDE DEF list, j, e
<1>9. Copies(e, x.block) = j + Has(e, x.list[n]) /\ IsABag(x.block)
  BY <1>7 DEF Sound, e
<1>10. IsABag(block) /\ Copies(e, block) = j + Has(e, rg)
  BY <1>7, <1>9, ExchangedBlock
<1> HIDE DEF block
<1> DEFINE y == Exchanged(x, n, rg)
<1>11. y = [list |-> y.list, block |-> y.block] /\ y.list = list /\ y.block = block
  BY <1>1
<1> HIDE DEF y
<1>12. Sound(c, b, (S \ Obs(x.list[n])) \cup Obs(rg), k, y)
  BY <1>3, <1>8, <1>10, <1>11 DEF Sound, e
<1> QED BY <1>12 DEF y

\* A rule group of its own.
LEMMA AppendAloneSound ==
    ASSUME NEW c, NEW a, NEW S, NEW k \in Nat, NEW x, Sound(c, a, S, k, x), ContextOK(c),
           NEW g \in Nat, g \notin S
    PROVE  /\ Sound(c, a, S \cup {g}, k, AppendAlone(c, x, g))
           /\ ToSet(x.list) \subseteq ToSet(AppendAlone(c, x, g).list)
<1> DEFINE one == Alone(c, g)
           r == Refreshed(c, one)
           l == x.list
           y == [x EXCEPT !.list = Append(@, one)]
           n == Len(y.list)
           e == a.rule
           block == (x.block (-) SetToBag(one.rules)) (+) SetToBag(r.rules)
<1>1. /\ x = [list |-> l, block |-> x.block] /\ l \in Seq(RuleGroup) /\ Len(l) \in Nat
      /\ DOMAIN l = 1..Len(l)
  BY LenProperties DEF Sound, Listed
<1>2. y = [list |-> Append(l, one), block |-> x.block]
  BY <1>1
<1>3. r \in RuleGroup /\ Good(c, a, r) /\ Obs(r) = {g}
  BY AloneGood
<1>4. /\ one \in RuleGroup /\ one.rules = {}
  <2>1. DOMAIN c.fz.inTerms \in SUBSET Nat
    <3>1. c.fz.inTerms \in Seq(Nat)
      BY DEF ContextOK
    <3>2. Len(c.fz.inTerms) \in Nat /\ DOMAIN c.fz.inTerms = 1..Len(c.fz.inTerms)
      BY ONLY <3>1, LenProperties
    <3> QED BY ONLY <3>2
  <2>2. one = [obs |-> <<g>>, relevant |-> DOMAIN c.fz.inTerms, rules |-> {}]
    BY DEF Alone
  <2>3. <<g>> \in Seq(Nat) /\ {} \in SUBSET Rule
    OBVIOUS
  <2> HIDE DEF one
  <2> QED BY <2>1, <2>2, <2>3 DEF RuleGroup
<1> HIDE DEF one
<1>5. /\ Append(l, one) \in Seq(RuleGroup) /\ Len(Append(l, one)) = Len(l) + 1
      /\ Append(l, one)[Len(l) + 1] = one
      /\ \A i \in 1..Len(l) : Append(l, one)[i] = l[i]
  BY <1>1, <1>4, AppendProperties
<1>6. n = Len(l) + 1 /\ y.list[n] = one /\ y.block = x.block /\ y.list = Append(l, one)
  BY <1>2, <1>5
<1>7. AppendAlone(c, x, g) = Exchanged(y, n, r)
  BY <1>6 DEF AppendAlone, Refresh, one
<1> HIDE DEF r
<1>8. [Append(l, one) EXCEPT ![Len(l) + 1] = r] = Append(l, r)
  <2> DEFINE p == Append(l, one)
             q == Append(l, r)
  <2>1. /\ Len(p) = Len(l) + 1 /\ p \in Seq(RuleGroup)
        /\ \A i \in 1..Len(l) : p[i] = l[i]
    BY <1>5
  <2>2. /\ q \in Seq(RuleGroup) /\ Len(q) = Len(l) + 1 /\ q[Len(l) + 1] = r
        /\ \A i \in 1..Len(l) : q[i] = l[i]
    BY <1>1, <1>3, AppendProperties
  <2> HIDE DEF p, q
  <2>3. DOMAIN p = 1..Len(l) + 1 /\ DOMAIN q = 1..Len(l) + 1
    BY <2>1, <2>2, LenProperties
  <2>4. q = [i \in 1..Len(l) + 1 |-> q[i]]
    BY <2>2, <2>3
  <2>5. [p EXCEPT ![Len(l) + 1] = r] = [i \in 1..Len(l) + 1 |-> IF i = Len(l) + 1 THEN r ELSE p[i]]
    <3>1. p = [i \in 1..Len(l) + 1 |-> p[i]]
      BY <2>1, <2>3
    <3> QED BY <3>1, <2>3
  <2>6. \A i \in 1..Len(l) + 1 : (IF i = Len(l) + 1 THEN r ELSE p[i]) = q[i]
    BY <1>1, <2>1, <2>2
  <2>7. [p EXCEPT ![Len(l) + 1] = r] = q
    BY <2>4, <2>5, <2>6
  <2> QED BY <2>7 DEF p, q
<1>9. AppendAlone(c, x, g) = [list |-> Append(l, r), block |-> block]
  BY <1>6, <1>7, <1>8 DEF Exchanged
<1>10. /\ Uses(e, l) \in Nat
       /\ Uses(e, Append(l, r)) = Uses(e, l) + Has(e, r)
  BY <1>1, <1>3, UsesIs
<1>11. Has(e, one) = 0
  BY <1>4 DEF Has, Bit
<1> DEFINE j == k + Uses(e, l)
<1>12. j \in Nat /\ Copies(e, x.block) = j + Has(e, one) /\ IsABag(x.block)
  BY <1>10, <1>11 DEF Sound
<1>13. IsABag(block) /\ Copies(e, block) = j + Has(e, r)
  <2> HIDE DEF j, e
  <2> QED BY <1>12, ExchangedBlock
<1>14. Copies(e, block) = k + Uses(e, Append(l, r))
  <2>1. Has(e, r) \in Nat
    BY HasType
  <2> QED BY <1>10, <1>13, <2>1
<1>15. Listed(c, a, S \cup {g}, Append(l, r))
  <2>1. Obs(r) \cap S = {}
    BY <1>3
  <2> QED BY <1>3, <2>1, ListedAppend DEF Sound
<1> HIDE DEF block
<1> DEFINE z == AppendAlone(c, x, g)
<1>16. z = [list |-> z.list, block |-> z.block] /\ z.list = Append(l, r) /\ z.block = block
  BY <1>9
<1> HIDE DEF z
<1>17. Sound(c, a, S \cup {g}, k, z)
  BY <1>13, <1>14, <1>15, <1>16 DEF Sound
<1>18. ToSet(l) \subseteq ToSet(z.list)
  BY <1>1, <1>3, <1>16, ToSetAppend
<1> QED BY <1>17, <1>18 DEF z

\* A rule group leaves the list; its rules stay in the block.
Less(list, rg, left) == ToSet(left) = ToSet(list) \ {rg}

LEMMA WithoutIs ==
    ASSUME NEW c, NEW a, NEW S, NEW k \in Nat, NEW x, Sound(c, a, S, k, x), NEW rg \in ToSet(x.list)
    PROVE  /\ Sound(c, a, S \ Obs(rg), k + Has(a.rule, rg), Without(x, rg))
           /\ Less(x.list, rg, Without(x, rg).list)
<1> DEFINE l == x.list
           I == {i \in 1..Len(l) : l[i].obs = rg.obs}
           n == Min(I)
           e == a.rule
<1>1. /\ x = [list |-> l, block |-> x.block] /\ l \in Seq(RuleGroup) /\ Len(l) \in Nat
      /\ DOMAIN l = 1..Len(l)
  BY LenProperties DEF Sound, Listed
<1>2. PICK m \in DOMAIN l : l[m] = rg
  BY DEF ToSet
<1>3. I # {} /\ I \in SUBSET Nat
  BY <1>1, <1>2
<1>4. n \in I
  <2> HIDE DEF I
  <2> QED BY <1>3, MinIs
<1>5. n \in DOMAIN l /\ l[n].obs = rg.obs
  BY <1>1, <1>4
<1>6. Without(x, rg) = [x EXCEPT !.list = RemoveAt(x.list, n)]
  BY <1>3, <1>1 DEF Without, RemoveFirstMatch, SelectInSeq
<1> HIDE DEF n
<1>7. l[n] = rg
  <2>1. Obs(l[n]) = Obs(l[m])
    BY <1>2, <1>5 DEF Obs
  <2>2. Obs(l[m]) # {}
    <3>1. l[m] \in RuleGroup /\ Good(c, a, l[m])
      BY <1>1, <1>2, ElementOfSeq DEF Sound, Listed
    <3> QED BY <3>1, GoodHolds
  <2>3. n = m
    BY <1>2, <1>5, <2>1, <2>2 DEF Sound, Listed
  <2> QED BY <1>2, <2>3
<1> DEFINE t == RemoveAt(l, n)
           z == Without(x, rg)
<1>8. /\ Listed(c, a, S \ Obs(rg), t) /\ ToSet(t) = ToSet(l) \ {rg}
  <2>1. \A r \in DOMAIN l : Good(c, a, l[r])
    BY DEF Sound, Listed
  <2> QED BY <1>5, <1>7, <2>1, ListedRemoveAt DEF Sound
<1>9. /\ Uses(e, t) + Has(e, rg) = Uses(e, l) /\ Uses(e, l) \in Nat
  BY <1>1, <1>5, <1>7, UsesIs
<1> HIDE DEF t
<1>10. z = [list |-> t, block |-> x.block]
  BY <1>1, <1>6 DEF t
<1> HIDE DEF z
<1>11. z = [list |-> z.list, block |-> z.block] /\ z.list = t /\ z.block = x.block
  BY <1>10
<1>12. Copies(e, z.block) = (k + Has(e, rg)) + Uses(e, t)
  <2>1. t \in Seq(RuleGroup)
    BY <1>8 DEF Listed
  <2>2. Uses(e, t) \in Nat /\ Has(e, rg) \in Nat
    BY <2>1, UsesIs, HasType
  <2>3. Copies(e, x.block) = k + Uses(e, l)
    BY DEF Sound
  <2> QED BY <1>9, <1>11, <2>2, <2>3
<1>13. Sound(c, a, S \ Obs(rg), k + Has(e, rg), z)
  BY <1>8, <1>11, <1>12 DEF Sound
<1>14. Less(x.list, rg, z.list)
  BY <1>8, <1>11 DEF Less
<1> QED BY <1>13, <1>14 DEF z

\* Its rules leave the block.
LEMMA FreeRulesSound ==
    ASSUME NEW c, NEW a, NEW S, NEW k \in Nat, NEW x, NEW rg, Sound(c, a, S, k + Has(a.rule, rg), x)
    PROVE  Sound(c, a, S, k, FreeRules(x, rg)) /\ FreeRules(x, rg).list = x.list
<1> DEFINE block == x.block (-) SetToBag(rg.rules)
           e == a.rule
           z == FreeRules(x, rg)
<1>1. z = [list |-> x.list, block |-> block]
  <2>1. x = [list |-> x.list, block |-> x.block]
    BY DEF Sound
  <2>2. z = [x EXCEPT !.block = block]
    BY DEF FreeRules
  <2> HIDE DEF block, z
  <2> QED BY <2>1, <2>2
<1>2. Has(e, rg) \in Nat /\ Has(e, rg) = Bit(e \in rg.rules)
  BY HasType
<1>3. /\ Copies(e, x.block) = (k + Has(e, rg)) + Uses(e, x.list) /\ IsABag(x.block)
      /\ Uses(e, x.list) \in Nat
  BY UsesIs DEF Sound, Listed
<1>4. IsABag(block) /\ Copies(e, block) = Copies(e, x.block) - Bit(e \in rg.rules)
  <2>1. Bit(e \in rg.rules) <= Copies(e, x.block)
    BY <1>2, <1>3
  <2> QED BY <1>3, <2>1, BlockTake
<1>5. Copies(e, block) = k + Uses(e, x.list)
  BY <1>2, <1>3, <1>4
<1> HIDE DEF block, z
<1>6. z = [list |-> z.list, block |-> z.block] /\ z.list = x.list /\ z.block = block
  BY <1>1
<1>7. Sound(c, a, S, k, z)
  BY <1>4, <1>5, <1>6 DEF Sound
<1> QED BY <1>6, <1>7 DEF z

-----------------------------------------------------------------------------
(* Breaking rule groups                                                    *)

\* Groups that get a rule group each; p has the context, the claims and what
\* was in the list: the groups S, k uses, the rule groups kept.
AloneStep(p, z, g) == AppendAlone(p.c, z, g)

AloneAt(p, n, z) ==
    /\ Sound(p.c, p.a, p.S \cup {p.obs[i] : i \in 1..n}, p.k, z)
    /\ p.kept \subseteq ToSet(z.list)

Singling == INSTANCE SeqLemmas WITH FoldOp <- AloneStep, FoldAt <- AloneAt

Alones(c, z, obs) == FoldLeft(LAMBDA y, g : AppendAlone(c, y, g), z, obs)

LEMMA AlonesSound ==
    ASSUME NEW c, NEW a, NEW S, NEW k \in Nat, NEW z, Sound(c, a, S, k, z), ContextOK(c),
           NEW obs \in Seq(Nat), IsInjective(obs), ToSet(obs) \cap S = {},
           NEW kept, kept \subseteq ToSet(z.list)
    PROVE  /\ Sound(c, a, S \cup ToSet(obs), k, Alones(c, z, obs))
           /\ kept \subseteq ToSet(Alones(c, z, obs).list)
<1> DEFINE p == [c |-> c, a |-> a, S |-> S, k |-> k, obs |-> obs, kept |-> kept]
<1>1. p.c = c /\ p.a = a /\ p.S = S /\ p.k = k /\ p.obs = obs /\ p.kept = kept
  OBVIOUS
<1>2. Alones(c, z, obs) = Singling!Folded(p, z, obs)
  BY DEF Alones, FoldLeft, MapThenFoldSet, Singling!Folded, Singling!IterEq, Singling!Largest, Max, AloneStep
<1> HIDE DEF p
<1>3. Len(obs) \in Nat /\ DOMAIN obs = 1..Len(obs) /\ \A i \in 1..Len(obs) : obs[i] \in Nat
  BY LenProperties, ElementOfSeq
<1>4. AloneAt(p, 0, z)
  <2>1. 1..0 = {}
    OBVIOUS
  <2>2. p.S \cup {p.obs[i] : i \in 1..0} = S
    BY ONLY <1>1, <2>1
  <2> QED BY <1>1, <2>2 DEF AloneAt
<1>5. ASSUME NEW y, NEW n \in 1..Len(obs), AloneAt(p, n - 1, y)
      PROVE  AloneAt(p, n, AloneStep(p, y, obs[n]))
  <2> DEFINE T == S \cup {obs[i] : i \in 1..n - 1}
             w == AppendAlone(c, y, obs[n])
  <2>1. Sound(c, a, T, k, y) /\ kept \subseteq ToSet(y.list)
    BY <1>1, <1>5 DEF AloneAt
  <2>2. obs[n] \in Nat /\ obs[n] \notin T
    <3>1. obs[n] \in ToSet(obs)
      BY <1>3 DEF ToSet
    <3>2. \A i \in 1..n - 1 : i \in DOMAIN obs /\ n \in DOMAIN obs /\ i # n
      BY <1>3
    <3>3. \A i \in 1..n - 1 : obs[i] # obs[n]
      BY <3>2 DEF IsInjective
    <3> QED BY <1>3, <3>1, <3>3
  <2>3. T \cup {obs[n]} = S \cup {obs[i] : i \in 1..n}
    <3>1. 1..n = (1..n - 1) \cup {n}
      BY <1>3
    <3> QED BY <3>1
  <2> HIDE DEF T
  <2>4. Sound(c, a, T \cup {obs[n]}, k, w) /\ ToSet(y.list) \subseteq ToSet(w.list)
    BY <2>1, <2>2, AppendAloneSound
  <2>5. AloneStep(p, y, obs[n]) = w
    BY <1>1 DEF AloneStep
  <2> HIDE DEF w
  <2> QED BY <1>1, <2>1, <2>3, <2>4, <2>5 DEF AloneAt
<1>6. AloneAt(p, Len(obs), Singling!Folded(p, z, obs))
  BY <1>4, <1>5, Singling!FoldsAlong
<1>7. {obs[i] : i \in 1..Len(obs)} = ToSet(obs)
  BY <1>3 DEF ToSet
<1> QED BY <1>1, <1>2, <1>6, <1>7 DEF AloneAt

\* A rule group of the list, its members and the others.
LEMMA SoundElement ==
    ASSUME NEW c, NEW a, NEW S, NEW k, NEW x, Sound(c, a, S, k, x), NEW rg \in ToSet(x.list)
    PROVE  /\ rg \in RuleGroup /\ rg.obs \in Seq(Nat) /\ IsInjective(rg.obs)
           /\ Good(c, a, rg) /\ Obs(rg) \subseteq S
           /\ \A other \in ToSet(x.list) : other # rg => Obs(other) \cap Obs(rg) = {}
<1>1. PICK n \in DOMAIN x.list : rg = x.list[n]
  BY DEF ToSet
<1>2. x.list \in Seq(RuleGroup) /\ Good(c, a, rg)
  BY <1>1 DEF Sound, Listed
<1>3. rg \in RuleGroup
  BY <1>1, <1>2, LenProperties, ElementOfSeq
<1>4. rg.obs \in Seq(Nat) /\ IsInjective(rg.obs)
  BY <1>2, <1>3 DEF RuleGroup, Good
<1>5. Obs(rg) \subseteq S
  BY <1>1 DEF Sound, Listed
<1>6. ASSUME NEW other \in ToSet(x.list), other # rg PROVE Obs(other) \cap Obs(rg) = {}
  <2>1. PICK m \in DOMAIN x.list : other = x.list[m]
    BY DEF ToSet
  <2> QED BY <1>1, <1>6, <2>1 DEF Sound, Listed
<1> QED BY <1>2, <1>3, <1>4, <1>5, <1>6

\* Conflicts are broken the hard way.
HardStep(p, y, rg) == FreeRules(Alones(p.c, Without(y, rg), rg.obs), rg)

\* What is still to be broken is in the list.
Ahead(p, n, y) == {p.conf[m] : m \in n + 1..Len(p.conf)} \subseteq ToSet(y.list)

HardAt(p, n, y) == Sound(p.c, p.a, p.S, p.k, y) /\ Ahead(p, n, y)

Breaking == INSTANCE SeqLemmas WITH FoldOp <- HardStep, FoldAt <- HardAt

LEMMA BreakHardSound ==
    ASSUME NEW c, NEW a, NEW S, NEW k \in Nat, NEW x, Sound(c, a, S, k, x), ContextOK(c),
           NEW conf \in Seq(RuleGroup), IsInjective(conf), ToSet(conf) \subseteq ToSet(x.list)
    PROVE  Sound(c, a, S, k, BreakHard(c, x, conf))
<1> DEFINE p == [c |-> c, a |-> a, S |-> S, k |-> k, conf |-> conf]
<1>1. p.c = c /\ p.a = a /\ p.S = S /\ p.k = k /\ p.conf = conf
  OBVIOUS
<1>2. BreakHard(c, x, conf) = Breaking!Folded(p, x, conf)
  BY DEF BreakHard, FoldLeft, MapThenFoldSet, Breaking!Folded, Breaking!IterEq, Breaking!Largest, Max,
         HardStep, Alones
<1> HIDE DEF p
<1>3. Len(conf) \in Nat /\ DOMAIN conf = 1..Len(conf)
  BY LenProperties
<1>4. HardAt(p, 0, x)
  <2>1. {conf[m] : m \in 0 + 1..Len(conf)} \subseteq ToSet(x.list)
    <3>1. 0 + 1..Len(conf) = DOMAIN conf
      BY <1>3
    <3>2. \A m \in DOMAIN conf : conf[m] \in ToSet(conf)
      BY DEF ToSet
    <3> QED BY <3>1, <3>2
  <2> QED BY <1>1, <2>1 DEF HardAt, Ahead
<1>5. ASSUME NEW y, NEW n \in 1..Len(conf), HardAt(p, n - 1, y)
      PROVE  HardAt(p, n, HardStep(p, y, conf[n]))
  <2> DEFINE rg == conf[n]
             v == Without(y, rg)
             w == Alones(c, v, rg.obs)
             z == FreeRules(w, rg)
             kept == {conf[m] : m \in n + 1..Len(conf)}
             j == k + Has(a.rule, rg)
  <2>1. Sound(c, a, S, k, y) /\ {conf[m] : m \in (n - 1) + 1..Len(conf)} \subseteq ToSet(y.list)
    BY <1>1, <1>5 DEF HardAt, Ahead
  <2>2. rg \in ToSet(y.list) /\ kept \subseteq ToSet(y.list)
    <3>1. n \in (n - 1) + 1..Len(conf) /\ n + 1..Len(conf) \subseteq (n - 1) + 1..Len(conf)
      BY <1>3
    <3> QED BY <2>1, <3>1
  <2>3. rg \notin kept
    <3>1. \A m \in n + 1..Len(conf) : m \in DOMAIN conf /\ n \in DOMAIN conf /\ m # n
      BY <1>3
    <3> QED BY <3>1 DEF IsInjective
  <2> HIDE DEF rg, kept
  <2>4. rg.obs \in Seq(Nat) /\ IsInjective(rg.obs) /\ Obs(rg) \subseteq S
    BY <2>1, <2>2, SoundElement
  <2>5. /\ Sound(c, a, S \ Obs(rg), j, v)
        /\ ToSet(v.list) = ToSet(y.list) \ {rg}
    <3> HIDE DEF v, j
    <3>1. /\ Sound(c, a, S \ Obs(rg), k + Has(a.rule, rg), Without(y, rg))
          /\ Less(y.list, rg, Without(y, rg).list)
      <4>1. k \in Nat
        OBVIOUS
      <4>2. Sound(c, a, S, k, y) /\ rg \in ToSet(y.list)
        BY <2>1, <2>2
      <4> QED BY ONLY <4>1, <4>2, WithoutIs
    <3> QED BY <3>1 DEF Less, v, j
  <2>6. j \in Nat /\ kept \subseteq ToSet(v.list)
    BY <2>2, <2>3, <2>5, HasType
  <2> HIDE DEF v, j
  <2>7. Sound(c, a, (S \ Obs(rg)) \cup Obs(rg), j, w) /\ kept \subseteq ToSet(w.list)
    <3>1. Obs(rg) = ToSet(rg.obs)
      BY DEF Obs
    <3>2. ToSet(rg.obs) \cap (S \ Obs(rg)) = {}
      BY <3>1
    <3> HIDE DEF w
    <3>3. Sound(c, a, (S \ Obs(rg)) \cup ToSet(rg.obs), j, Alones(c, v, rg.obs))
          /\ kept \subseteq ToSet(Alones(c, v, rg.obs).list)
      BY ONLY <2>4, <2>5, <2>6, <3>2, AlonesSound, ContextOK(c)
    <3> QED BY <3>1, <3>3 DEF w
  <2>8. (S \ Obs(rg)) \cup Obs(rg) = S
    BY <2>4
  <2> HIDE DEF w
  <2>9. Sound(c, a, S, k, z) /\ z.list = w.list
    <3>1. Sound(c, a, S, k + Has(a.rule, rg), w)
      BY <2>7, <2>8 DEF j
    <3> HIDE DEF z
    <3>2. Sound(c, a, S, k, FreeRules(w, rg)) /\ FreeRules(w, rg).list = w.list
      BY <3>1, FreeRulesSound
    <3> QED BY <3>2 DEF z
  <2>10. HardStep(p, y, conf[n]) = z
    BY <1>1 DEF HardStep, z, w, v, rg
  <2> HIDE DEF z
  <2>11. Ahead(p, n, z)
    BY <1>1, <2>7, <2>9 DEF Ahead, kept
  <2> QED BY <1>1, <2>9, <2>10, <2>11 DEF HardAt
<1>6. HardAt(p, Len(conf), Breaking!Folded(p, x, conf))
  BY <1>4, <1>5, Breaking!FoldsAlong
<1> QED BY <1>1, <1>2, <1>6 DEF HardAt

-----------------------------------------------------------------------------
(* Adding a group                                                          *)

LEMMA InsertSound ==
    ASSUME NEW c, NEW a, NEW S, NEW k \in Nat, NEW x, Sound(c, a, S, k, x), ContextOK(c),
           a.but = {}, ~a.single, NEW g \in Nat, g \notin S,
           NEW n \in DOMAIN x.list, ~Conflicts(c, x.list[n], g)
    PROVE  Sound(c, a, S \cup {g}, k, Insert(c, x, n, g))
<1> DEFINE rg == x.list[n]
           w == Widened(c, rg, g)
           r == Refreshed(c, w)
           y == [x EXCEPT !.list[n] = w]
<1>1. /\ x = [list |-> x.list, block |-> x.block] /\ x.list \in Seq(RuleGroup)
      /\ DOMAIN x.list = 1..Len(x.list) /\ x.list = [i \in DOMAIN x.list |-> x.list[i]]
  BY LenProperties DEF Sound, Listed
<1>2. rg \in RuleGroup /\ Good(c, a, rg) /\ Obs(rg) \subseteq S
  BY <1>1, ElementOfSeq DEF Sound, Listed
<1>3. r \in RuleGroup /\ Good(c, a, r) /\ Obs(r) = Obs(rg) \cup {g}
  BY <1>2, WidenedGood
<1>4. w.rules = rg.rules
  <2> HIDE DEF rg
  <2>1. rg = [obs |-> rg.obs, relevant |-> rg.relevant, rules |-> rg.rules]
    BY <1>2 DEF RuleGroup
  <2> QED BY <2>1 DEF Widened
<1> HIDE DEF w
<1>5. /\ y.list = [x.list EXCEPT ![n] = w] /\ y.block = x.block /\ y.list[n] = w
  <2> DEFINE list == x.list
             block == x.block
  <2>1. x = [list |-> list, block |-> block] /\ n \in DOMAIN list
    BY <1>1
  <2> HIDE DEF list, block
  <2>2. y = [list |-> [list EXCEPT ![n] = w], block |-> block]
    BY ONLY <2>1
  <2> HIDE DEF y
  <2>3. y.list = [list EXCEPT ![n] = w] /\ y.block = block /\ y.list[n] = w
    BY ONLY <2>1, <2>2
  <2> QED BY ONLY <2>3 DEF list, block
<1>6. Insert(c, x, n, g) = Exchanged(y, n, r)
  BY <1>5 DEF Insert, Refresh, w
<1> HIDE DEF r, y
<1>7. [y.list EXCEPT ![n] = r] = [x.list EXCEPT ![n] = r]
  BY <1>1, <1>5
<1>8. Exchanged(y, n, r) = Exchanged(x, n, r)
  BY <1>4, <1>5, <1>7 DEF Exchanged
<1>9. \A i \in DOMAIN x.list : i # n => Good(c, a, x.list[i]) /\ Obs(x.list[i]) \cap Obs(r) = {}
  <2>1. \A i \in DOMAIN x.list : Obs(x.list[i]) \subseteq S /\ Good(c, a, x.list[i])
    BY DEF Sound, Listed
  <2>2. \A i \in DOMAIN x.list : i # n => Obs(x.list[i]) \cap Obs(rg) = {}
    BY DEF Sound, Listed
  <2> HIDE DEF rg
  <2> QED BY <1>3, <2>1, <2>2
<1>10. Sound(c, a, (S \ Obs(rg)) \cup Obs(r), k, Exchanged(x, n, r))
  BY <1>3, <1>9, ExchangedSound
<1>11. (S \ Obs(rg)) \cup Obs(r) = S \cup {g}
  BY <1>2, <1>3
<1> QED BY <1>6, <1>8, <1>10, <1>11

\* Where a rule group stands in a list.
Standing(list, e) == FirstWhere(list, LAMBDA rg : rg = e)

LEMMA StandingIs ==
    ASSUME NEW T, NEW list \in Seq(T), NEW e \in ToSet(list)
    PROVE  Standing(list, e) \in DOMAIN list /\ list[Standing(list, e)] = e
<1>1. Standing(list, e) = PlaceOf(list, e)
  BY DEF Standing, FirstWhere, PlaceOf
<1> QED BY <1>1, PlaceOfIs

LEMMA PlaceSound ==
    ASSUME NEW c, NEW a, NEW S, NEW k \in Nat, NEW x, Sound(c, a, S, k, x), ContextOK(c),
           a.but = {}, ~a.single, NEW g \in Nat, g \notin S
    PROVE  /\ Sound(c, a, S \cup {g}, k, Place(c, x, g))
           /\ InConflict(c, x.list, g) \in Seq(RuleGroup) /\ IsInjective(InConflict(c, x.list, g))
           /\ ToSet(InConflict(c, x.list, g)) \subseteq ToSet(Place(c, x, g).list)
           /\ ToSet(InConflict(c, x.list, g)) \subseteq ToSet(x.list)
<1> DEFINE cand == Candidates(c, x.list, g)
           bad == {rg \in Range(cand) : Conflicts(c, rg, g)}
           conf == InConflict(c, x.list, g)
           alone == cand = <<>> \/ \E n \in DOMAIN cand : Conflicts(c, cand[n], g)
<1>1. x.list \in Seq(RuleGroup)
  BY DEF Sound, Listed
<1>2. IsInjective(x.list)
  <2>1. \A r \in DOMAIN x.list : Obs(x.list[r]) # {}
    <3>1. \A r \in DOMAIN x.list : x.list[r] \in RuleGroup /\ Good(c, a, x.list[r])
      BY <1>1, LenProperties, ElementOfSeq DEF Sound, Listed
    <3> QED BY <3>1, GoodHolds
  <2>2. ASSUME NEW r \in DOMAIN x.list, NEW q \in DOMAIN x.list, x.list[r] = x.list[q] PROVE r = q
    BY <2>1, <2>2 DEF Sound, Listed
  <2> QED BY <2>2 DEF IsInjective
<1>3. cand \in Seq(RuleGroup) /\ ToSet(cand) \subseteq ToSet(x.list) /\ IsInjective(cand)
  <2>1. \A R : /\ Only(x.list, R) \in Seq(RuleGroup) /\ IsInjective(Only(x.list, R))
               /\ ToSet(Only(x.list, R)) = ToSet(x.list) \cap R
    BY <1>1, <1>2, OnlyIs
  <2>2. \E R : cand = Only(x.list, R)
    BY DEF Candidates, AtLevel
  <2> HIDE DEF cand
  <2> QED BY <2>1, <2>2
<1>4. conf = Only(cand, bad)
  BY DEF InConflict
<1> HIDE DEF cand, bad, conf
<1>5. conf \in Seq(RuleGroup) /\ IsInjective(conf) /\ ToSet(conf) = ToSet(cand) \cap bad
  BY <1>3, <1>4, OnlyIs
<1>6. Place(c, x, g) = IF alone THEN AppendAlone(c, x, g)
                                ELSE Insert(c, x, Standing(x.list, cand[1]), g)
  BY DEF Place, PlaceAmong, Standing, cand
<1>7. CASE alone
  <2>1. Sound(c, a, S \cup {g}, k, AppendAlone(c, x, g)) /\ ToSet(x.list) \subseteq ToSet(AppendAlone(c, x, g).list)
    BY AppendAloneSound
  <2> QED BY <1>3, <1>5, <1>6, <1>7, <2>1 DEF conf
<1>8. CASE ~alone
  <2>1. 1 \in DOMAIN cand /\ cand[1] \in ToSet(cand)
    <3>1. cand # <<>>
      BY <1>8
    <3>2. Len(cand) \in Nat \ {0} /\ DOMAIN cand = 1..Len(cand)
      BY <1>3, <3>1, EmptySeq, LenProperties
    <3>3. 1 \in DOMAIN cand
      BY <3>2
    <3> QED BY <3>3 DEF ToSet
  <2>2. ~Conflicts(c, cand[1], g)
    BY <1>8, <2>1
  <2> DEFINE n == Standing(x.list, cand[1])
  <2>3. n \in DOMAIN x.list /\ x.list[n] = cand[1]
    BY <1>1, <1>3, <2>1, StandingIs
  <2> HIDE DEF n
  <2>4. Sound(c, a, S \cup {g}, k, Insert(c, x, n, g))
    BY <2>2, <2>3, InsertSound
  <2>5. bad = {}
    BY <1>8 DEF bad, Range
  <2>6. ToSet(conf) = {}
    BY <1>5, <2>5
  <2> QED BY <1>5, <1>6, <1>8, <2>4, <2>6 DEF conf, n
<1> QED BY <1>7, <1>8

LEMMA AppendHardSound ==
    ASSUME NEW c, NEW a, NEW S, NEW k \in Nat, NEW x, Sound(c, a, S, k, x), ContextOK(c),
           a.but = {}, ~a.single, NEW g \in Nat, g \notin S
    PROVE  Sound(c, a, S \cup {g}, k, AppendHard(c, x, g))
BY PlaceSound, BreakHardSound DEF AppendHard

\* Groups that are appended the hard way, one after the other.
HardlyStep(p, z, g) == AppendHard(p.c, z, g)

HardlyAt(p, n, z) == Sound(p.c, p.a, p.S \cup {p.obs[i] : i \in 1..n}, p.k, z)

Hardly == INSTANCE SeqLemmas WITH FoldOp <- HardlyStep, FoldAt <- HardlyAt

Hards(c, z, obs) == FoldLeft(LAMBDA y, g : AppendHard(c, y, g), z, obs)

LEMMA HardsSound ==
    ASSUME NEW c, NEW a, NEW S, NEW k \in Nat, NEW z, Sound(c, a, S, k, z), ContextOK(c),
           a.but = {}, ~a.single,
           NEW obs \in Seq(Nat), IsInjective(obs), ToSet(obs) \cap S = {}
    PROVE  Sound(c, a, S \cup ToSet(obs), k, Hards(c, z, obs))
<1> DEFINE p == [c |-> c, a |-> a, S |-> S, k |-> k, obs |-> obs]
<1>1. p.c = c /\ p.a = a /\ p.S = S /\ p.k = k /\ p.obs = obs
  OBVIOUS
<1>2. Hards(c, z, obs) = Hardly!Folded(p, z, obs)
  BY DEF Hards, FoldLeft, MapThenFoldSet, Hardly!Folded, Hardly!IterEq, Hardly!Largest, Max, HardlyStep
<1> HIDE DEF p
<1>3. Len(obs) \in Nat /\ DOMAIN obs = 1..Len(obs) /\ \A i \in 1..Len(obs) : obs[i] \in Nat
  BY LenProperties, ElementOfSeq
<1>4. HardlyAt(p, 0, z)
  <2>1. 1..0 = {}
    OBVIOUS
  <2>2. p.S \cup {p.obs[i] : i \in 1..0} = S
    BY ONLY <1>1, <2>1
  <2> QED BY <1>1, <2>2 DEF HardlyAt
<1>5. ASSUME NEW y, NEW n \in 1..Len(obs), HardlyAt(p, n - 1, y)
      PROVE  HardlyAt(p, n, HardlyStep(p, y, obs[n]))
  <2> DEFINE T == S \cup {obs[i] : i \in 1..n - 1}
             w == AppendHard(c, y, obs[n])
  <2>1. Sound(c, a, T, k, y)
    BY <1>1, <1>5 DEF HardlyAt
  <2>2. obs[n] \in Nat /\ obs[n] \notin T
    <3>1. obs[n] \in ToSet(obs)
      BY <1>3 DEF ToSet
    <3>2. \A i \in 1..n - 1 : i \in DOMAIN obs /\ n \in DOMAIN obs /\ i # n
      BY <1>3
    <3>3. \A i \in 1..n - 1 : obs[i] # obs[n]
      BY <3>2 DEF IsInjective
    <3> QED BY <1>3, <3>1, <3>3
  <2>3. T \cup {obs[n]} = S \cup {obs[i] : i \in 1..n}
    <3>1. 1..n = (1..n - 1) \cup {n}
      BY <1>3
    <3> QED BY <3>1
  <2> HIDE DEF T
  <2>4. Sound(c, a, T \cup {obs[n]}, k, w)
    BY <2>1, <2>2, AppendHardSound
  <2>5. HardlyStep(p, y, obs[n]) = w
    BY <1>1 DEF HardlyStep
  <2> HIDE DEF w
  <2> QED BY <1>1, <2>3, <2>4, <2>5 DEF HardlyAt
<1>6. HardlyAt(p, Len(obs), Hardly!Folded(p, z, obs))
  BY <1>4, <1>5, Hardly!FoldsAlong
<1>7. {obs[i] : i \in 1..Len(obs)} = ToSet(obs)
  BY <1>3 DEF ToSet
<1> QED BY <1>1, <1>2, <1>6, <1>7 DEF HardlyAt

\* Conflicts are broken the soft way: first the rule groups leave the list.
\* p.h counts how many of them have had the rule of the claim.
Gone(p, i, j) == UNION {Obs(p.conf[m]) : m \in i..j}

OutStep(p, y, rg) == Without(y, rg)

OutAt(p, n, y) == Sound(p.c, p.a, p.S \ Gone(p, 1, n), p.k + p.h[n], y) /\ Ahead(p, n, y)

Leaving == INSTANCE SeqLemmas WITH FoldOp <- OutStep, FoldAt <- OutAt

\* Then their members come back, and their rules leave the block.
BackStep(p, y, rg) == FreeRules(Hards(p.c, y, rg.obs), rg)

BackAt(p, n, y) ==
    Sound(p.c, p.a, p.S \ Gone(p, n + 1, Len(p.conf)), p.k + (p.h[Len(p.conf)] - p.h[n]), y)

Returning == INSTANCE SeqLemmas WITH FoldOp <- BackStep, FoldAt <- BackAt

Freed(x, conf) == FoldLeft(LAMBDA y, rg : Without(y, rg), x, conf)

\* The conflicting rule groups, and what they have.
Broken(p, x) ==
    /\ Sound(p.c, p.a, p.S, p.k, x) /\ p.k \in Nat
    /\ p.conf \in Seq(RuleGroup) /\ IsInjective(p.conf) /\ ToSet(p.conf) \subseteq ToSet(x.list)
    /\ Using!Sums(p.a.rule, p.conf, p.h)

LEMMA BrokenIs ==
    ASSUME NEW p, NEW x, Broken(p, x)
    PROVE  /\ Len(p.conf) \in Nat /\ DOMAIN p.conf = 1..Len(p.conf)
           /\ \A n \in 1..Len(p.conf) :
                 /\ p.conf[n].obs \in Seq(Nat) /\ IsInjective(p.conf[n].obs)
                 /\ Obs(p.conf[n]) \subseteq p.S
                 /\ \A m \in 1..Len(p.conf) : m # n => Obs(p.conf[n]) \cap Obs(p.conf[m]) = {}
                 /\ p.h[n] = p.h[n - 1] + Has(p.a.rule, p.conf[n])
           /\ \A n \in 0..Len(p.conf) : p.h[n] \in Nat /\ p.h[n] <= p.h[Len(p.conf)]
           /\ p.h[0] = 0
<1>1. Len(p.conf) \in Nat /\ DOMAIN p.conf = 1..Len(p.conf) /\ p.conf \in Seq(RuleGroup)
  BY LenProperties DEF Broken
<1>2. \A n \in 1..Len(p.conf) : p.conf[n] \in ToSet(x.list)
  <2>1. \A n \in 1..Len(p.conf) : p.conf[n] \in ToSet(p.conf)
    BY <1>1 DEF ToSet
  <2> QED BY <2>1 DEF Broken
<1>3. ASSUME NEW n \in 1..Len(p.conf)
      PROVE  /\ p.conf[n].obs \in Seq(Nat) /\ IsInjective(p.conf[n].obs)
             /\ Obs(p.conf[n]) \subseteq p.S
             /\ \A m \in 1..Len(p.conf) : m # n => Obs(p.conf[n]) \cap Obs(p.conf[m]) = {}
  <2>1. Sound(p.c, p.a, p.S, p.k, x) /\ p.conf[n] \in ToSet(x.list)
    BY <1>2 DEF Broken
  <2>2. /\ p.conf[n].obs \in Seq(Nat) /\ IsInjective(p.conf[n].obs)
        /\ Obs(p.conf[n]) \subseteq p.S
        /\ \A other \in ToSet(x.list) : other # p.conf[n] => Obs(other) \cap Obs(p.conf[n]) = {}
    BY <2>1, SoundElement
  <2>3. ASSUME NEW m \in 1..Len(p.conf), m # n PROVE Obs(p.conf[n]) \cap Obs(p.conf[m]) = {}
    <3>1. p.conf[m] # p.conf[n]
      BY <1>1, <2>3 DEF Broken, IsInjective
    <3>2. p.conf[m] \in ToSet(x.list)
      BY <1>2
    <3> QED BY <2>2, <3>1, <3>2
  <2> QED BY <2>2, <2>3
<1>4. Using!Sums(p.a.rule, p.conf, p.h)
  BY DEF Broken
<1>5. Using!Additive(p.a.rule, RuleGroup) /\ \A rg : Using!Share(p.a.rule, rg) = Has(p.a.rule, rg)
  BY UseAdds
<1>6. \A n \in 1..Len(p.conf) : p.h[n] = p.h[n - 1] + Has(p.a.rule, p.conf[n])
  BY <1>4, <1>5 DEF Using!Sums
<1>7. \A n \in 0..Len(p.conf) : p.h[n] \in Nat
  BY <1>4 DEF Using!Sums
<1>8. \A n \in 0..Len(p.conf) : p.h[n] <= p.h[Len(p.conf)]
  BY <1>1, <1>4, <1>5, Using!SumsGrow
<1>9. p.h[0] = 0
  BY <1>4 DEF Using!Sums
<1> QED BY <1>1, <1>3, <1>6, <1>7, <1>8, <1>9

LEMMA FreedSound ==
    ASSUME NEW p, NEW x, Broken(p, x)
    PROVE  BackAt(p, 0, Freed(x, p.conf))
<1>1. Freed(x, p.conf) = Leaving!Folded(p, x, p.conf)
  BY DEF Freed, FoldLeft, MapThenFoldSet, Leaving!Folded, Leaving!IterEq, Leaving!Largest, Max, OutStep
<1>2. Len(p.conf) \in Nat /\ DOMAIN p.conf = 1..Len(p.conf) /\ p.conf \in Seq(RuleGroup) /\ p.k \in Nat
  BY BrokenIs DEF Broken
<1>3. OutAt(p, 0, x)
  <2>1. Gone(p, 1, 0) = {}
    <3>1. 1..0 = {}
      OBVIOUS
    <3> QED BY <3>1 DEF Gone
  <2>2. p.S \ Gone(p, 1, 0) = p.S /\ p.k + p.h[0] = p.k
    BY <1>2, <2>1, BrokenIs
  <2>3. Ahead(p, 0, x)
    <3>1. 0 + 1..Len(p.conf) = DOMAIN p.conf
      BY <1>2
    <3>2. \A m \in DOMAIN p.conf : p.conf[m] \in ToSet(p.conf)
      BY DEF ToSet
    <3> QED BY <3>1, <3>2 DEF Ahead, Broken
  <2> QED BY <2>2, <2>3 DEF OutAt, Broken
<1>4. ASSUME NEW y, NEW n \in 1..Len(p.conf), OutAt(p, n - 1, y)
      PROVE  OutAt(p, n, OutStep(p, y, p.conf[n]))
  <2> DEFINE rg == p.conf[n]
             j == p.k + p.h[n - 1]
             T == p.S \ Gone(p, 1, n - 1)
             z == Without(y, rg)
             kept == {p.conf[m] : m \in n + 1..Len(p.conf)}
  <2>1. Sound(p.c, p.a, T, j, y) /\ {p.conf[m] : m \in (n - 1) + 1..Len(p.conf)} \subseteq ToSet(y.list)
    BY <1>4 DEF OutAt, Ahead
  <2>2. rg \in ToSet(y.list) /\ kept \subseteq ToSet(y.list)
    <3>1. n \in (n - 1) + 1..Len(p.conf) /\ n + 1..Len(p.conf) \subseteq (n - 1) + 1..Len(p.conf)
      BY <1>2
    <3> QED BY <2>1, <3>1
  <2>3. rg \notin kept
    <3>1. \A m \in n + 1..Len(p.conf) : m \in DOMAIN p.conf /\ n \in DOMAIN p.conf /\ m # n
      BY <1>2
    <3> QED BY <3>1 DEF IsInjective, Broken
  <2>4. p.h[n - 1] \in Nat /\ p.h[n] = p.h[n - 1] + Has(p.a.rule, rg) /\ Has(p.a.rule, rg) \in Nat
    <3>1. n - 1 \in 0..Len(p.conf)
      BY <1>2
    <3> QED BY <3>1, BrokenIs, HasType
  <2>5. j \in Nat /\ j + Has(p.a.rule, rg) = p.k + p.h[n]
    BY <1>2, <2>4
  <2>6. T \ Obs(rg) = p.S \ Gone(p, 1, n)
    <3>1. 1..n = (1..n - 1) \cup {n}
      BY <1>2
    <3> QED BY <3>1 DEF Gone
  <2> HIDE DEF rg, j, T, kept
  <2>7. Sound(p.c, p.a, T \ Obs(rg), j + Has(p.a.rule, rg), z) /\ Less(y.list, rg, z.list)
    <3> HIDE DEF z
    <3>1. /\ Sound(p.c, p.a, T \ Obs(rg), j + Has(p.a.rule, rg), Without(y, rg))
          /\ Less(y.list, rg, Without(y, rg).list)
      BY ONLY <2>1, <2>2, <2>5, WithoutIs
    <3> QED BY <3>1 DEF z
  <2>8. OutStep(p, y, p.conf[n]) = z
    BY DEF OutStep, rg
  <2> HIDE DEF z
  <2>9. Ahead(p, n, z)
    BY <2>2, <2>3, <2>7 DEF Ahead, Less, kept
  <2> QED BY <2>5, <2>6, <2>7, <2>8, <2>9 DEF OutAt
<1>5. OutAt(p, Len(p.conf), Leaving!Folded(p, x, p.conf))
  BY <1>2, <1>3, <1>4, Leaving!FoldsAlong
<1>6. p.h[Len(p.conf)] - p.h[0] = p.h[Len(p.conf)]
  <2>1. Len(p.conf) \in 0..Len(p.conf)
    BY <1>2
  <2> QED BY <2>1, BrokenIs
<1> QED BY <1>1, <1>5, <1>6 DEF OutAt, BackAt

LEMMA BreakSoftSound ==
    ASSUME NEW c, NEW a, NEW S, NEW k \in Nat, NEW x, Sound(c, a, S, k, x), ContextOK(c),
           a.but = {}, ~a.single,
           NEW conf \in Seq(RuleGroup), IsInjective(conf), ToSet(conf) \subseteq ToSet(x.list)
    PROVE  Sound(c, a, S, k, BreakSoft(c, x, conf))
<1>1. PICK h : Using!Sums(a.rule, conf, h)
  BY UseAdds, Using!SumRun
<1> DEFINE p == [c |-> c, a |-> a, S |-> S, k |-> k, conf |-> conf, h |-> h]
<1>2. p.c = c /\ p.a = a /\ p.S = S /\ p.k = k /\ p.conf = conf /\ p.h = h
  OBVIOUS
<1>3. BreakSoft(c, x, conf) = Returning!Folded(p, Freed(x, conf), conf)
  BY DEF BreakSoft, FoldLeft, MapThenFoldSet, Returning!Folded, Returning!IterEq, Returning!Largest, Max,
         BackStep, Hards, Freed
<1> HIDE DEF p
<1>4. Broken(p, x)
  BY <1>1, <1>2 DEF Broken
<1>5. BackAt(p, 0, Freed(x, conf))
  BY <1>2, <1>4, FreedSound
<1>6. Len(conf) \in Nat /\ DOMAIN conf = 1..Len(conf)
  BY LenProperties
<1>7. ASSUME NEW y, NEW n \in 1..Len(conf), BackAt(p, n - 1, y)
      PROVE  BackAt(p, n, BackStep(p, y, conf[n]))
  <2> DEFINE rg == conf[n]
             T == S \ Gone(p, n, Len(conf))
             j == k + (h[Len(conf)] - h[n])
             w == Hards(c, y, rg.obs)
             z == FreeRules(w, rg)
  <2>1. /\ rg.obs \in Seq(Nat) /\ IsInjective(rg.obs) /\ Obs(rg) \subseteq S
        /\ \A m \in 1..Len(conf) : m # n => Obs(rg) \cap Obs(conf[m]) = {}
        /\ h[n] = h[n - 1] + Has(a.rule, rg)
    BY <1>2, <1>4, BrokenIs
  <2>2. h[n] \in Nat /\ h[n - 1] \in Nat /\ h[n] <= h[Len(conf)] /\ h[Len(conf)] \in Nat
        /\ Has(a.rule, rg) \in Nat
    <3>1. n \in 0..Len(conf) /\ n - 1 \in 0..Len(conf) /\ Len(conf) \in 0..Len(conf)
      BY <1>6
    <3> QED BY <1>2, <1>4, <3>1, BrokenIs, HasType
  <2>3. j \in Nat /\ k + (h[Len(conf)] - h[n - 1]) = j + Has(a.rule, rg)
    <3>1. \A q \in Nat, u \in Nat, e \in Nat :
             u + e <= q => k + (q - (u + e)) \in Nat /\ k + (q - u) = (k + (q - (u + e))) + e
      OBVIOUS
    <3> HIDE DEF rg
    <3>2. /\ h[n - 1] \in Nat /\ h[Len(conf)] \in Nat /\ Has(a.rule, rg) \in Nat
          /\ h[n] = h[n - 1] + Has(a.rule, rg) /\ h[n - 1] + Has(a.rule, rg) <= h[Len(conf)]
      BY ONLY <2>1, <2>2
    <3>3. /\ k + (h[Len(conf)] - (h[n - 1] + Has(a.rule, rg))) \in Nat
          /\ k + (h[Len(conf)] - h[n - 1])
             = (k + (h[Len(conf)] - (h[n - 1] + Has(a.rule, rg)))) + Has(a.rule, rg)
      BY ONLY <3>1, <3>2
    <3> QED BY ONLY <3>2, <3>3
  <2>4. Sound(c, a, T, j + Has(a.rule, rg), y)
    <3>1. (n - 1) + 1 = n
      BY <1>6
    <3> QED BY <1>2, <1>7, <2>3, <3>1 DEF BackAt
  <2>5. T \cup ToSet(rg.obs) = S \ Gone(p, n + 1, Len(conf)) /\ ToSet(rg.obs) \cap T = {}
    <3>1. n..Len(conf) = (n + 1..Len(conf)) \cup {n}
      BY <1>6
    <3>2. \A m \in n + 1..Len(conf) : m \in 1..Len(conf) /\ m # n
      BY <1>6
    <3>3. Obs(rg) = ToSet(rg.obs)
      BY DEF Obs
    <3>4. Gone(p, n, Len(conf)) = Gone(p, n + 1, Len(conf)) \cup Obs(rg)
      BY <1>2, <3>1 DEF Gone
    <3>5. Gone(p, n + 1, Len(conf)) \cap Obs(rg) = {}
      BY <1>2, <2>1, <3>2 DEF Gone
    <3> QED BY <2>1, <3>3, <3>4, <3>5
  <2> HIDE DEF rg, T, j
  <2>6. Sound(c, a, T \cup ToSet(rg.obs), j + Has(a.rule, rg), w)
    <3> HIDE DEF w
    <3>1. j + Has(a.rule, rg) \in Nat
      BY <2>2, <2>3
    <3>2. Sound(c, a, T \cup ToSet(rg.obs), j + Has(a.rule, rg), Hards(c, y, rg.obs))
      BY <2>1, <2>4, <2>5, <3>1, HardsSound
    <3> QED BY <3>2 DEF w
  <2> HIDE DEF w
  <2>7. Sound(c, a, T \cup ToSet(rg.obs), j, FreeRules(w, rg))
    BY <2>3, <2>6, FreeRulesSound
  <2>8. BackStep(p, y, conf[n]) = z
    BY <1>2 DEF BackStep, w, rg
  <2> QED BY <1>2, <2>5, <2>7, <2>8 DEF BackAt, j
<1>8. BackAt(p, Len(conf), Returning!Folded(p, Freed(x, conf), conf))
  BY <1>5, <1>7, Returning!FoldsAlong
<1>9. S \ Gone(p, Len(conf) + 1, Len(conf)) = S
  <2>1. Len(conf) + 1..Len(conf) = {}
    BY <1>6
  <2> QED BY <2>1 DEF Gone
<1>10. k + (h[Len(conf)] - h[Len(conf)]) = k
  <2>1. Len(conf) \in 0..Len(conf)
    BY <1>6
  <2>2. h[Len(conf)] \in Nat
    BY <1>2, <1>4, <2>1, BrokenIs
  <2> QED BY <2>2
<1> QED BY <1>2, <1>3, <1>8, <1>9, <1>10 DEF BackAt

\* A group that is new to the list.  Groups that stay alone need no claims.
LEMMA AppendGroupSound ==
    ASSUME NEW c, NEW a, NEW S, NEW k \in Nat, NEW x, Sound(c, a, S, k, x), ContextOK(c),
           NEW g \in Nat, g \notin S, NEW off,
           ~off => a.but = {} /\ ~a.single
    PROVE  Sound(c, a, S \cup {g}, k, AppendGroup(c, x, g, off))
<1>1. CASE off
  BY <1>1, AppendAloneSound DEF AppendGroup
<1>2. CASE ~off
  BY <1>2, PlaceSound, BreakSoftSound DEF AppendGroup
<1> QED BY <1>1, <1>2

-----------------------------------------------------------------------------
(* Removing a group                                                        *)

\* Claims about a group the list does not have say nothing.
LEMMA SoundOther ==
    ASSUME NEW c, NEW a, NEW b, NEW S, NEW k, NEW x, Sound(c, a, S, k, x), NEW g, g \notin S,
           a.rule = b.rule, a.single = b.single, a.speaks = b.speaks,
           a.but \subseteq {g}, b.fresh \subseteq {g}
    PROVE  Sound(c, b, S, k, x)
<1>1. ASSUME NEW r \in DOMAIN x.list PROVE Good(c, b, x.list[r])
  <2>1. Good(c, a, x.list[r]) /\ g \notin Obs(x.list[r])
    BY DEF Sound, Listed
  <2> QED BY <2>1, OtherGood
<1> QED BY <1>1 DEF Sound, Listed

LEMMA HoldingIs ==
    ASSUME NEW list \in Seq(RuleGroup), NEW g
    PROVE  /\ Holding(list, g) = 0 => \A r \in DOMAIN list : g \notin Obs(list[r])
           /\ Holding(list, g) # 0 =>
                 Holding(list, g) \in DOMAIN list /\ g \in Obs(list[Holding(list, g)])
<1> DEFINE I == {i \in 1..Len(list) : Contains(list[i].obs, g)}
<1>1. Len(list) \in Nat /\ DOMAIN list = 1..Len(list)
  BY LenProperties
<1>2. Holding(list, g) = IF I # {} THEN Min(I) ELSE 0
  BY DEF Holding, FirstWhere, SelectInSeq
<1>3. I \in SUBSET Nat /\ I \subseteq DOMAIN list
  BY <1>1
<1>4. ASSUME NEW r \in DOMAIN list PROVE Contains(list[r].obs, g) <=> g \in Obs(list[r])
  <2>1. list[r].obs \in Seq(Nat)
    <3>1. list[r] \in RuleGroup
      BY <1>1, ElementOfSeq
    <3> QED BY <3>1 DEF RuleGroup
  <2>2. DOMAIN list[r].obs = 1..Len(list[r].obs)
    BY <2>1, LenProperties
  <2> QED BY <2>2 DEF Contains, Obs, ToSet
<1>5. ASSUME I = {} PROVE \A r \in DOMAIN list : g \notin Obs(list[r])
  BY <1>1, <1>4, <1>5
<1>6. ASSUME I # {} PROVE Min(I) \in DOMAIN list /\ g \in Obs(list[Min(I)])
  <2>1. Min(I) \in I
    BY <1>3, <1>6, MinIs
  <2> QED BY <1>3, <1>4, <2>1
<1>7. 0 \notin DOMAIN list
  BY <1>1
<1> HIDE DEF I
<1> QED BY <1>2, <1>5, <1>6, <1>7

LEMMA DroppedSound ==
    ASSUME NEW c, NEW a, NEW b, NEW S, NEW k \in Nat, NEW x, Sound(c, a, S, k, x),
           a.rule = b.rule, a.single = b.single, a.speaks = b.speaks, a.fresh = {},
           NEW g, a.but \subseteq {g}, b.fresh \subseteq {g},
           NEW n \in DOMAIN x.list, g \in Obs(x.list[n])
    PROVE  Sound(c, b, S \ {g}, k, DropMember(x, n, g))
<1> DEFINE l == x.list
           rg == l[n]
           e == a.rule
<1>1. /\ x = [list |-> l, block |-> x.block] /\ l \in Seq(RuleGroup) /\ Len(l) \in Nat
      /\ DOMAIN l = 1..Len(l) /\ IsABag(x.block) /\ Copies(e, x.block) = k + Uses(e, l)
  BY LenProperties DEF Sound, Listed
<1>2. rg \in RuleGroup /\ Good(c, a, rg) /\ Obs(rg) \subseteq S
  BY <1>1, ElementOfSeq DEF Sound, Listed
<1>3. \A r \in DOMAIN l : r # n => Good(c, b, l[r]) /\ Obs(l[r]) \cap Obs(rg) = {}
  <2>1. ASSUME NEW r \in DOMAIN l, r # n PROVE Good(c, b, l[r]) /\ Obs(l[r]) \cap Obs(rg) = {}
    <3>1. Good(c, a, l[r]) /\ Obs(l[r]) \cap Obs(rg) = {}
      BY <2>1 DEF Sound, Listed
    <3>2. g \notin Obs(l[r])
      BY <3>1
    <3> QED BY <3>1, <3>2, OtherGood
  <2> QED BY <2>1
<1>4. CASE rg.obs = <<g>>
  <2> DEFINE t == RemoveAt(l, n)
             y == [x EXCEPT !.list = RemoveAt(@, n)]
  <2>1. y = [list |-> t, block |-> x.block]
    BY <1>1
  <2>2. Obs(rg) = {g}
    <3>1. ToSet(<<g>>) = {g}
      BY DEF ToSet
    <3> QED BY <1>4, <3>1 DEF Obs
  <2>3. Listed(c, a, S, l)
    BY DEF Sound
  <2>4. Listed(c, b, S \ {g}, t)
    BY <1>3, <2>2, <2>3, ListedRemoveAt
  <2>5. Uses(e, t) + Has(e, rg) = Uses(e, l) /\ Has(e, rg) \in Nat
    BY <1>1, UsesIs, HasType
  <2>6. Uses(e, t) \in Nat
    BY <2>4, UsesIs DEF Listed
  <2> HIDE DEF t, y
  <2>7. y = [list |-> y.list, block |-> y.block] /\ y.list = t /\ y.block = x.block
    BY <2>1
  <2>8. k + Uses(e, l) = (k + Has(e, rg)) + Uses(e, t)
    BY <2>5, <2>6
  <2>9. Sound(c, b, S \ {g}, k + Has(b.rule, rg), y)
    BY <1>1, <2>4, <2>7, <2>8 DEF Sound
  <2>10. Sound(c, b, S \ {g}, k, FreeRules(y, rg))
    BY <2>9, FreeRulesSound
  <2>11. DropMember(x, n, g) = FreeRules(y, rg)
    BY <1>4 DEF DropMember, y
  <2> QED BY <2>10, <2>11
<1>5. CASE rg.obs # <<g>>
  <2> DEFINE r == [rg EXCEPT !.obs = RemoveFirst(@, g)]
             t == [l EXCEPT ![n] = r]
             y == DropMember(x, n, g)
  <2>1. y = [x EXCEPT !.list[n].obs = RemoveFirst(@, g)]
    BY <1>5 DEF DropMember
  <2>2. r \in RuleGroup /\ Good(c, a, r) /\ Obs(r) = Obs(rg) \ {g} /\ r.rules = rg.rules
    BY <1>2, <1>5, DroppedGood
  <2>3. Good(c, b, r)
    BY <2>2, OtherGood
  <2>4. y = [list |-> t, block |-> x.block]
    BY <1>1, <2>1
  <2> HIDE DEF r, y
  <2>5. Listed(c, a, S, l)
    BY DEF Sound
  <2>6. Listed(c, b, (S \ Obs(rg)) \cup Obs(r), t)
    <3>1. \A m \in DOMAIN l : m # n => Good(c, b, l[m]) /\ Obs(l[m]) \cap Obs(r) = {}
      BY <1>3, <2>2
    <3> QED BY <2>2, <2>3, <2>5, <3>1, ListedExcept
  <2>7. (S \ Obs(rg)) \cup Obs(r) = S \ {g}
    BY <1>2, <2>2
  <2>8. Uses(e, t) = Uses(e, l)
    <3>1. Uses(e, t) + Has(e, rg) = Uses(e, l) + Has(e, r) /\ Uses(e, l) \in Nat
      BY <1>1, <2>2, UsesIs
    <3>2. Has(e, rg) = Has(e, r) /\ Has(e, rg) \in Nat
      BY <2>2, HasType
    <3>3. Uses(e, t) \in Nat
      BY <2>6, UsesIs DEF Listed
    <3> QED BY <3>1, <3>2, <3>3
  <2> HIDE DEF t
  <2>9. y = [list |-> y.list, block |-> y.block] /\ y.list = t /\ y.block = x.block
    BY <2>4
  <2> QED BY <1>1, <2>6, <2>7, <2>8, <2>9 DEF Sound, y
<1> QED BY <1>4, <1>5

\* The group is taken out of the list, if it is there.
LEMMA RemoveGroupSound ==
    ASSUME NEW c, NEW a, NEW b, NEW S, NEW k \in Nat, NEW x, Sound(c, a, S, k, x),
           a.rule = b.rule, a.single = b.single, a.speaks = b.speaks, a.fresh = {},
           NEW g, a.but \subseteq {g}, b.fresh \subseteq {g}
    PROVE  Sound(c, b, S \ {g}, k, RemoveGroup(x, g))
<1> DEFINE n == Holding(x.list, g)
<1>1. x.list \in Seq(RuleGroup) /\ S = UNION {Obs(x.list[r]) : r \in DOMAIN x.list}
  BY DEF Sound, Listed
<1>2. RemoveGroup(x, g) = IF n = 0 THEN x ELSE DropMember(x, n, g)
  BY DEF RemoveGroup
<1>3. /\ n = 0 => \A r \in DOMAIN x.list : g \notin Obs(x.list[r])
      /\ n # 0 => n \in DOMAIN x.list /\ g \in Obs(x.list[n])
  BY <1>1, HoldingIs
<1> HIDE DEF n
<1>4. CASE n = 0
  <2>1. g \notin S /\ S \ {g} = S
    BY <1>1, <1>3, <1>4
  <2> QED BY <1>2, <1>4, <2>1, SoundOther
<1>5. CASE n # 0
  BY <1>2, <1>3, <1>5, DroppedSound
<1> QED BY <1>4, <1>5

\* The group finds its place again: nothing is asked of what it concludes
\* before, and its rule group has rules made from what is known now.
LEMMA RebalanceSound ==
    ASSUME NEW c, NEW a, NEW b, NEW S, NEW k \in Nat, NEW x, Sound(c, a, S, k, x), ContextOK(c),
           a.rule = b.rule, a.single = b.single, a.speaks = b.speaks, a.fresh = {}, ~b.single,
           NEW g \in Nat, a.but \subseteq {g}, b.fresh \subseteq {g}, b.but = {}
    PROVE  Sound(c, b, S, k, Rebalance(c, x, g))
<1> DEFINE n == Holding(x.list, g)
           rg == x.list[n]
<1>1. /\ x.list \in Seq(RuleGroup) /\ DOMAIN x.list = 1..Len(x.list)
      /\ S = UNION {Obs(x.list[r]) : r \in DOMAIN x.list}
  BY LenProperties DEF Sound, Listed
<1>2. Rebalance(c, x, g) =
         IF n = 0 THEN x
         ELSE IF rg.obs # <<g>> /\ ~Conflicts(c, rg, g) THEN Exchanged(x, n, Refreshed(c, rg))
         ELSE AppendGroup(c, DropMember(x, n, g), g, FALSE)
  BY DEF Rebalance, Refresh
<1>3. /\ n = 0 => \A r \in DOMAIN x.list : g \notin Obs(x.list[r])
      /\ n # 0 => n \in DOMAIN x.list /\ g \in Obs(x.list[n])
  BY <1>1, HoldingIs
<1> HIDE DEF n
<1>4. CASE n = 0
  <2>1. g \notin S
    BY <1>1, <1>3, <1>4
  <2> QED BY <1>2, <1>4, <2>1, SoundOther
<1>5. CASE n # 0 /\ rg.obs # <<g>> /\ ~Conflicts(c, rg, g)
  <2>1. rg \in RuleGroup /\ Good(c, a, rg) /\ Obs(rg) \subseteq S
    BY <1>1, <1>3, <1>5, ElementOfSeq DEF Sound, Listed
  <2> DEFINE r == Refreshed(c, rg)
  <2>2. r \in RuleGroup /\ Good(c, b, r) /\ Obs(r) = Obs(rg)
    BY <1>3, <1>5, <2>1, BalancedGood
  <2>3. ASSUME NEW m \in DOMAIN x.list, m # n
        PROVE  Good(c, b, x.list[m]) /\ Obs(x.list[m]) \cap Obs(r) = {}
    <3>1. Good(c, a, x.list[m]) /\ Obs(x.list[m]) \cap Obs(rg) = {}
      BY <1>3, <1>5, <2>3 DEF Sound, Listed
    <3>2. g \notin Obs(x.list[m])
      BY <1>3, <1>5, <3>1
    <3>3. Good(c, b, x.list[m])
      BY <3>1, <3>2, OtherGood
    <3> QED BY <2>2, <3>1, <3>3
  <2> HIDE DEF r
  <2>4. Sound(c, b, (S \ Obs(x.list[n])) \cup Obs(r), k, Exchanged(x, n, r))
    BY <1>3, <1>5, <2>2, <2>3, ExchangedSound
  <2>5. (S \ Obs(x.list[n])) \cup Obs(r) = S
    BY <2>1, <2>2
  <2> QED BY <1>2, <1>5, <2>4, <2>5 DEF r
<1>6. CASE n # 0 /\ ~(rg.obs # <<g>> /\ ~Conflicts(c, rg, g))
  <2> DEFINE y == DropMember(x, n, g)
  <2>1. Sound(c, b, S \ {g}, k, y)
    BY <1>3, <1>6, DroppedSound
  <2> HIDE DEF y
  <2>2. Sound(c, b, (S \ {g}) \cup {g}, k, AppendGroup(c, y, g, FALSE))
    <3>1. g \notin S \ {g}
      OBVIOUS
    <3> QED BY <2>1, <3>1, AppendGroupSound
  <2>3. (S \ {g}) \cup {g} = S
    BY <1>1, <1>3, <1>6
  <2> QED BY <1>2, <1>6, <2>2, <2>3 DEF y
<1> QED BY <1>4, <1>5, <1>6

-----------------------------------------------------------------------------
(* The rules of a whole list                                               *)

\* They leave the block.
DrainStep(p, b, rg) == b (-) SetToBag(rg.rules)

DrainAt(p, n, b) == IsABag(b) /\ Copies(p.rule, b) = p.k + (p.h[Len(p.list)] - p.h[n])

Draining == INSTANCE SeqLemmas WITH FoldOp <- DrainStep, FoldAt <- DrainAt

Drained(b, list) == FoldLeft(LAMBDA d, rg : d (-) SetToBag(rg.rules), b, list)

LEMMA DrainedIs ==
    ASSUME NEW e, NEW b, IsABag(b), NEW list \in Seq(RuleGroup), NEW k \in Nat,
           Copies(e, b) = k + Uses(e, list)
    PROVE  IsABag(Drained(b, list)) /\ Copies(e, Drained(b, list)) = k
<1>1. Using!Additive(e, RuleGroup) /\ \A rg : Using!Share(e, rg) = Has(e, rg) /\ Has(e, rg) \in Nat
  BY UseAdds
<1>2. PICK h : Using!Sums(e, list, h)
  BY <1>1, Using!SumRun
<1> DEFINE p == [rule |-> e, k |-> k, h |-> h, list |-> list]
<1>3. p.rule = e /\ p.k = k /\ p.h = h /\ p.list = list
  OBVIOUS
<1>4. Drained(b, list) = Draining!Folded(p, b, list)
  BY DEF Drained, FoldLeft, MapThenFoldSet, Draining!Folded, Draining!IterEq, Draining!Largest, Max, DrainStep
<1> HIDE DEF p
<1>5. Len(list) \in Nat /\ Len(list) \in 0..Len(list)
  BY LenProperties
<1>6. /\ h[0] = 0 /\ Uses(e, list) = h[Len(list)]
      /\ \A n \in 0..Len(list) : h[n] \in Nat /\ h[n] <= h[Len(list)]
      /\ \A n \in 1..Len(list) : h[n] = h[n - 1] + Has(e, list[n])
  <2>1. \A n \in 0..Len(list) : h[n] <= h[Len(list)]
    BY <1>1, <1>2, Using!SumsGrow
  <2> QED BY <1>1, <1>2, <2>1 DEF Using!Sums, Uses
<1>7. DrainAt(p, 0, b)
  <2>1. h[Len(list)] - h[0] = h[Len(list)]
    BY <1>5, <1>6
  <2> QED BY <1>3, <1>6, <2>1 DEF DrainAt
<1>8. ASSUME NEW d, NEW n \in 1..Len(list), DrainAt(p, n - 1, d)
      PROVE  DrainAt(p, n, DrainStep(p, d, list[n]))
  <2> DEFINE rg == list[n]
             j == k + (h[Len(list)] - h[n])
  <2>1. IsABag(d) /\ Copies(e, d) = k + (h[Len(list)] - h[n - 1])
    BY <1>3, <1>8 DEF DrainAt
  <2>2. /\ h[n] \in Nat /\ h[n - 1] \in Nat /\ h[Len(list)] \in Nat /\ h[n] <= h[Len(list)]
        /\ Has(e, rg) \in Nat /\ h[n] = h[n - 1] + Has(e, rg) /\ Has(e, rg) = Bit(e \in rg.rules)
    <3>1. n \in 0..Len(list) /\ n - 1 \in 0..Len(list)
      BY <1>5
    <3> QED BY <1>5, <1>6, <3>1, HasType
  <2>3. j \in Nat /\ Copies(e, d) = j + Has(e, rg)
    <3> DEFINE q == h[Len(list)]
               u == h[n - 1]
               v == Has(e, rg)
               w == h[n]
    <3>1. /\ q \in Nat /\ u \in Nat /\ v \in Nat /\ w \in Nat /\ w <= q /\ w = u + v
          /\ Copies(e, d) = k + (q - u) /\ j = k + (q - w)
      BY <2>1, <2>2
    <3> HIDE DEF q, u, v, w, j
    <3>2. j \in Nat /\ Copies(e, d) = j + v
      BY <3>1
    <3> QED BY <3>2 DEF v
  <2> HIDE DEF rg, j
  <2>4. Bit(e \in rg.rules) <= Copies(e, d)
    BY <2>2, <2>3
  <2>5. /\ IsABag(d (-) SetToBag(rg.rules))
        /\ Copies(e, d (-) SetToBag(rg.rules)) = Copies(e, d) - Bit(e \in rg.rules)
    BY <2>1, <2>4, BlockTake
  <2>6. Copies(e, d) - Bit(e \in rg.rules) = j
    BY <2>2, <2>3
  <2> QED BY <1>3, <2>5, <2>6 DEF DrainAt, DrainStep, rg, j
<1>9. DrainAt(p, Len(list), Draining!Folded(p, b, list))
  BY <1>7, <1>8, Draining!FoldsAlong
<1>10. k + (h[Len(list)] - h[Len(list)]) = k
  BY <1>5, <1>6
<1> QED BY <1>3, <1>4, <1>9, <1>10 DEF DrainAt

\* They are put into a block.
FillStep(p, b, rg) == b (+) SetToBag(rg.rules)

FillAt(p, n, b) == IsABag(b) /\ Copies(p.rule, b) = p.k + p.h[n]

Filling == INSTANCE SeqLemmas WITH FoldOp <- FillStep, FoldAt <- FillAt

Filled(b, list) == FoldLeft(LAMBDA d, rg : d (+) SetToBag(rg.rules), b, list)

LEMMA FilledIs ==
    ASSUME NEW e, NEW b, IsABag(b), NEW list \in Seq(RuleGroup)
    PROVE  /\ IsABag(Filled(b, list))
           /\ Copies(e, b) \in Nat
           /\ Copies(e, Filled(b, list)) = Copies(e, b) + Uses(e, list)
<1>1. Using!Additive(e, RuleGroup) /\ \A rg : Using!Share(e, rg) = Has(e, rg) /\ Has(e, rg) \in Nat
  BY UseAdds
<1>2. PICK h : Using!Sums(e, list, h)
  BY <1>1, Using!SumRun
<1> DEFINE k == Copies(e, b)
           p == [rule |-> e, k |-> k, h |-> h]
<1>3. p.rule = e /\ p.k = k /\ p.h = h
  OBVIOUS
<1>4. Filled(b, list) = Filling!Folded(p, b, list)
  BY DEF Filled, FoldLeft, MapThenFoldSet, Filling!Folded, Filling!IterEq, Filling!Largest, Max, FillStep
<1> HIDE DEF p
<1>5. Len(list) \in Nat /\ k \in Nat
  BY LenProperties, BlockAdd
<1>6. /\ h[0] = 0 /\ Uses(e, list) = h[Len(list)]
      /\ \A n \in 0..Len(list) : h[n] \in Nat
      /\ \A n \in 1..Len(list) : h[n] = h[n - 1] + Has(e, list[n])
  BY <1>1, <1>2 DEF Using!Sums, Uses
<1>7. FillAt(p, 0, b)
  <2>1. k + h[0] = k
    BY <1>5, <1>6
  <2> QED BY <1>3, <2>1 DEF FillAt
<1> HIDE DEF k
<1>8. ASSUME NEW d, NEW n \in 1..Len(list), FillAt(p, n - 1, d)
      PROVE  FillAt(p, n, FillStep(p, d, list[n]))
  <2> DEFINE rg == list[n]
  <2>1. IsABag(d) /\ Copies(e, d) = k + h[n - 1]
    BY <1>3, <1>8 DEF FillAt
  <2>2. /\ h[n - 1] \in Nat /\ Has(e, rg) \in Nat /\ h[n] = h[n - 1] + Has(e, rg)
        /\ Has(e, rg) = Bit(e \in rg.rules)
    <3>1. n - 1 \in 0..Len(list)
      BY <1>5
    <3> QED BY <1>6, <3>1, HasType
  <2> HIDE DEF rg
  <2>3. /\ IsABag(d (+) SetToBag(rg.rules))
        /\ Copies(e, d (+) SetToBag(rg.rules)) = Copies(e, d) + Bit(e \in rg.rules)
    BY <2>1, BlockAdd
  <2>4. Copies(e, d) + Bit(e \in rg.rules) = k + h[n]
    BY <1>5, <2>1, <2>2
  <2> QED BY <1>3, <2>3, <2>4 DEF FillAt, FillStep, rg
<1>9. FillAt(p, Len(list), Filling!Folded(p, b, list))
  BY <1>7, <1>8, Filling!FoldsAlong
<1> QED BY <1>3, <1>4, <1>5, <1>6, <1>9 DEF FillAt, k

-----------------------------------------------------------------------------
(* Starting over                                                           *)

AgainStep(p, y, g) == AppendGroup(p.c, y, g, p.off)

AgainAt(p, n, y) == Sound(p.c, p.a, {p.groups[i] : i \in 1..n}, p.k, y)

Anew == INSTANCE SeqLemmas WITH FoldOp <- AgainStep, FoldAt <- AgainAt

LEMMA RebuildSound ==
    ASSUME NEW c, NEW a, NEW k \in Nat, NEW x, ContextOK(c),
           x.list \in Seq(RuleGroup), IsABag(x.block),
           Copies(a.rule, x.block) = k + Uses(a.rule, x.list),
           NEW groups \in Seq(Nat), IsInjective(groups), NEW off, ~off => a.but = {} /\ ~a.single
    PROVE  Sound(c, a, ToSet(groups), k, Rebuild(c, x, groups, off))
<1> DEFINE p == [c |-> c, a |-> a, k |-> k, groups |-> groups, off |-> off]
           b == Drained(x.block, x.list)
           z == [list |-> <<>>, block |-> b]
<1>1. p.c = c /\ p.a = a /\ p.k = k /\ p.groups = groups /\ p.off = off
  OBVIOUS
<1>2. Rebuild(c, x, groups, off) = Anew!Folded(p, z, groups)
  BY DEF Rebuild, FoldLeft, MapThenFoldSet, Anew!Folded, Anew!IterEq, Anew!Largest, Max, AgainStep, Drained
<1> HIDE DEF p
<1>3. Len(groups) \in Nat /\ DOMAIN groups = 1..Len(groups) /\ \A i \in 1..Len(groups) : groups[i] \in Nat
  BY LenProperties, ElementOfSeq
<1>4. IsABag(b) /\ Copies(a.rule, b) = k
  BY DrainedIs
<1> HIDE DEF b
<1>5. AgainAt(p, 0, z)
  <2>1. {p.groups[i] : i \in 1..0} = {}
    <3>1. 1..0 = {}
      OBVIOUS
    <3> QED BY ONLY <3>1
  <2>2. z = [list |-> z.list, block |-> z.block] /\ z.list = <<>> /\ z.block = b
    OBVIOUS
  <2> HIDE DEF z
  <2>3. Uses(a.rule, <<>>) = 0 /\ k + 0 = k
    <3>1. <<>> \in Seq(RuleGroup)
      OBVIOUS
    <3> QED BY <3>1, UsesIs
  <2>4. Listed(c, a, {}, <<>>)
    BY ListedEmpty
  <2>5. Sound(c, a, {}, k, z)
    BY <1>4, <2>2, <2>3, <2>4 DEF Sound
  <2> QED BY <1>1, <2>1, <2>5 DEF AgainAt
<1> HIDE DEF z
<1>6. ASSUME NEW y, NEW n \in 1..Len(groups), AgainAt(p, n - 1, y)
      PROVE  AgainAt(p, n, AgainStep(p, y, groups[n]))
  <2> DEFINE T == {groups[i] : i \in 1..n - 1}
             w == AppendGroup(c, y, groups[n], off)
  <2>1. Sound(c, a, T, k, y)
    BY <1>1, <1>6 DEF AgainAt
  <2>2. groups[n] \in Nat /\ groups[n] \notin T
    <3>1. \A i \in 1..n - 1 : i \in DOMAIN groups /\ n \in DOMAIN groups /\ i # n
      BY <1>3
    <3>2. \A i \in 1..n - 1 : groups[i] # groups[n]
      BY <3>1 DEF IsInjective
    <3> QED BY <1>3, <3>2
  <2>3. T \cup {groups[n]} = {groups[i] : i \in 1..n}
    <3>1. 1..n = (1..n - 1) \cup {n}
      BY <1>3
    <3> QED BY <3>1
  <2> HIDE DEF T
  <2>4. Sound(c, a, T \cup {groups[n]}, k, w)
    BY <2>1, <2>2, AppendGroupSound
  <2>5. AgainStep(p, y, groups[n]) = w
    BY <1>1 DEF AgainStep
  <2> HIDE DEF w
  <2> QED BY <1>1, <2>3, <2>4, <2>5 DEF AgainAt
<1>7. AgainAt(p, Len(groups), Anew!Folded(p, z, groups))
  BY <1>5, <1>6, Anew!FoldsAlong
<1>8. {groups[i] : i \in 1..Len(groups)} = ToSet(groups)
  BY <1>3 DEF ToSet
<1> QED BY <1>1, <1>2, <1>7, <1>8 DEF AgainAt

-----------------------------------------------------------------------------
(* The lists of all outputs                                                *)

\* How many rule groups have the rule.
TotalStep(rule, sum, list) == sum + Uses(rule, list)

Totalling == INSTANCE SeqLemmas WITH FoldOp <- TotalStep

Total(rule, map) == Totalling!Folded(rule, 0, map)

LEMMA TotalAdds ==
    ASSUME NEW e
    PROVE  /\ Totalling!Additive(e, Seq(RuleGroup))
           /\ \A list \in Seq(RuleGroup) : Totalling!Share(e, list) = Uses(e, list)
           /\ Totalling!Share(e, <<>>) = 0 /\ Uses(e, <<>>) = 0
<1>1. \A list \in Seq(RuleGroup) : Uses(e, list) \in Nat
  BY UsesIs
<1>2. \A list \in Seq(RuleGroup) : Totalling!Share(e, list) = Uses(e, list)
  BY <1>1 DEF Totalling!Share, TotalStep
<1>3. Totalling!Additive(e, Seq(RuleGroup))
  BY <1>1, <1>2 DEF Totalling!Additive, TotalStep
<1>4. <<>> \in Seq(RuleGroup)
  OBVIOUS
<1>5. Uses(e, <<>>) = 0
  BY <1>4, UsesIs
<1> QED BY <1>2, <1>3, <1>4, <1>5

LEMMA TotalIs ==
    ASSUME NEW e, NEW map \in Seq(Seq(RuleGroup))
    PROVE  /\ Total(e, map) \in Nat /\ Total(e, <<>>) = 0
           /\ \A n \in 1..Len(map) : Uses(e, map[n]) \in Nat /\ Uses(e, map[n]) <= Total(e, map)
           /\ \A n \in 1..Len(map), list \in Seq(RuleGroup) :
                 Total(e, [map EXCEPT ![n] = list]) = (Total(e, map) - Uses(e, map[n])) + Uses(e, list)
<1>1. /\ Totalling!Additive(e, Seq(RuleGroup))
      /\ \A list \in Seq(RuleGroup) : Totalling!Share(e, list) = Uses(e, list)
      /\ Totalling!Share(e, <<>>) = 0
  BY TotalAdds
<1>2. \A m \in Seq(Seq(RuleGroup)) : Total(e, m) \in Nat
  BY <1>1, Totalling!SumType DEF Total
<1>3. Total(e, <<>>) = 0
  BY <1>1, Totalling!SumType DEF Total
<1>4. \A n \in 1..Len(map) : map[n] \in Seq(RuleGroup)
  BY ElementOfSeq
<1>5. ASSUME NEW n \in 1..Len(map), NEW list \in Seq(RuleGroup)
      PROVE  /\ Total(e, [map EXCEPT ![n] = list]) + Uses(e, map[n]) = Total(e, map) + Uses(e, list)
             /\ [map EXCEPT ![n] = list] \in Seq(Seq(RuleGroup))
  <2>1. Totalling!Folded(e, 0, [map EXCEPT ![n] = list]) + Totalling!Share(e, map[n])
            = Totalling!Folded(e, 0, map) + Totalling!Share(e, list)
    BY <1>1, Totalling!SumExcept
  <2>2. Totalling!Share(e, map[n]) = Uses(e, map[n]) /\ Totalling!Share(e, list) = Uses(e, list)
    BY <1>1, <1>4
  <2>3. [map EXCEPT ![n] = list] \in Seq(Seq(RuleGroup))
    BY ExceptSeq
  <2> QED BY <2>1, <2>2, <2>3 DEF Total
<1>6. \A list \in Seq(RuleGroup) : Uses(e, list) \in Nat
  BY UsesIs
<1>7. ASSUME NEW n \in 1..Len(map)
      PROVE  Uses(e, map[n]) \in Nat /\ Uses(e, map[n]) <= Total(e, map)
  <2> DEFINE t == [map EXCEPT ![n] = <<>>]
  <2>1. <<>> \in Seq(RuleGroup) /\ Uses(e, <<>>) = 0
    BY TotalAdds
  <2>2. Total(e, t) + Uses(e, map[n]) = Total(e, map) + Uses(e, <<>>) /\ t \in Seq(Seq(RuleGroup))
    BY <1>5, <2>1
  <2> HIDE DEF t
  <2>3. Total(e, t) \in Nat /\ Total(e, map) \in Nat /\ Uses(e, map[n]) \in Nat
    BY <1>2, <1>4, <1>6, <2>2
  <2> QED BY <2>1, <2>2, <2>3
<1>8. ASSUME NEW n \in 1..Len(map), NEW list \in Seq(RuleGroup)
      PROVE  Total(e, [map EXCEPT ![n] = list]) = (Total(e, map) - Uses(e, map[n])) + Uses(e, list)
  <2> DEFINE t == [map EXCEPT ![n] = list]
  <2>1. Total(e, t) + Uses(e, map[n]) = Total(e, map) + Uses(e, list) /\ t \in Seq(Seq(RuleGroup))
    BY <1>5
  <2> HIDE DEF t
  <2>2. Total(e, t) \in Nat /\ Total(e, map) \in Nat /\ Uses(e, map[n]) \in Nat /\ Uses(e, list) \in Nat
    BY <1>2, <1>4, <1>6, <2>1
  <2>3. Total(e, t) = (Total(e, map) - Uses(e, map[n])) + Uses(e, list)
    <3> DEFINE p == Total(e, t)
               q == Total(e, map)
               u == Uses(e, map[n])
               v == Uses(e, list)
    <3>1. p + u = q + v /\ p \in Nat /\ q \in Nat /\ u \in Nat /\ v \in Nat
      BY <2>1, <2>2
    <3> HIDE DEF p, q, u, v
    <3>2. p = (q - u) + v
      BY <3>1
    <3> QED BY <3>2 DEF p, q, u, v
  <2> QED BY <2>3 DEF t
<1> QED BY <1>2, <1>3, <1>7, <1>8

\* Lists that are still empty add nothing.
LEMMA TotalPadded ==
    ASSUME NEW e, NEW s \in Seq(Seq(RuleGroup)), NEW t \in Seq(Seq(RuleGroup)),
           Len(s) <= Len(t), \A n \in 1..Len(s) : s[n] = t[n],
           \A n \in 1..Len(t) : n > Len(s) => t[n] = <<>>
    PROVE  Total(e, s) = Total(e, t)
<1>1. Totalling!Additive(e, Seq(RuleGroup)) /\ Totalling!Share(e, <<>>) = 0
  BY TotalAdds
<1>2. \A n \in 1..Len(t) : n > Len(s) => Totalling!Share(e, t[n]) = 0
  BY <1>1
<1> QED BY <1>1, <1>2, Totalling!SumPadded DEF Total

\* A knowledge, its fields.
Knowing(k) == k = [heap |-> k.heap, cache |-> k.cache, max |-> k.max, map |-> k.map,
                   block |-> k.block, noSimpl |-> k.noSimpl]

\* The block has the rules of the lists.
Carried(rule, k) ==
    /\ k.map \in Seq(Seq(RuleGroup))
    /\ IsABag(k.block)
    /\ Copies(rule, k.block) = Total(rule, k.map)

\* Every list is for the groups in S, and as a claims; fz is what it was made
\* for.
Mapped(fs, k, a, S) ==
    /\ Knowing(k) /\ Carried(a.rule, k)
    /\ \A n \in DOMAIN k.map : Listed(Context(fs, k, n), a, S, k.map[n])

\* Running through the lists: p.start is the knowledge it starts from, p.k the
\* one the contexts are made of.  Some lists are done, and the others are not.
OutputsAt(p, n, y) ==
    /\ Knowing(y) /\ Carried(p.b.rule, y)
    /\ y.heap = p.start.heap /\ y.cache = p.start.cache /\ y.max = p.start.max
    /\ y.noSimpl = p.start.noSimpl
    /\ Len(y.map) = Len(p.start.map)
    /\ \A i \in 1..n : Listed(Context(p.fz, p.k, i), p.b, p.T, y.map[i])
    /\ \A i \in n + 1..Len(p.start.map) : y.map[i] = p.start.map[i]

Positions(map) == [n \in DOMAIN map |-> n]

LEMMA OutputsStart ==
    ASSUME NEW p, Knowing(p.start), Carried(p.b.rule, p.start)
    PROVE  /\ OutputsAt(p, 0, p.start)
           /\ Len(p.start.map) \in Nat
           /\ Positions(p.start.map) \in Seq(Nat)
           /\ Len(Positions(p.start.map)) = Len(p.start.map)
           /\ \A n \in 1..Len(p.start.map) : Positions(p.start.map)[n] = n
<1> DEFINE L == Len(p.start.map)
           seq == Positions(p.start.map)
<1>1. p.start.map \in Seq(Seq(RuleGroup)) /\ L \in Nat /\ DOMAIN p.start.map = 1..L
  BY LenProperties DEF Carried
<1>2. seq \in Seq(Nat) /\ Len(seq) = L /\ \A n \in 1..L : seq[n] = n
  <2>1. seq = [n \in 1..L |-> n]
    BY <1>1 DEF Positions
  <2> HIDE DEF seq
  <2>2. \A n \in 1..L : n \in Nat
    BY <1>1
  <2>3. seq \in Seq(Nat)
    BY <1>1, <2>1, <2>2, IsASeq
  <2> QED BY <1>1, <2>1, <2>3, LenProperties
<1>3. OutputsAt(p, 0, p.start)
  <2>1. 1..0 = {}
    OBVIOUS
  <2> QED BY <2>1 DEF OutputsAt
<1> QED BY <1>1, <1>2, <1>3

\* How often the rule is in the other lists.
Rest(p, y, n) == Total(p.b.rule, y.map) - Uses(p.b.rule, y.map[n])

LEMMA OutputsReady ==
    ASSUME NEW p, NEW n \in 1..Len(p.start.map), Len(p.start.map) \in Nat,
           NEW y, OutputsAt(p, n - 1, y),
           NEW x, x = [list |-> y.map[n], block |-> y.block]
    PROVE  /\ Rest(p, y, n) \in Nat
           /\ x = [list |-> x.list, block |-> x.block]
           /\ x.list = p.start.map[n] /\ x.list \in Seq(RuleGroup)
           /\ IsABag(x.block)
           /\ Copies(p.b.rule, x.block) = Rest(p, y, n) + Uses(p.b.rule, x.list)
<1> DEFINE e == p.b.rule
<1>1. /\ y.map \in Seq(Seq(RuleGroup)) /\ Len(y.map) = Len(p.start.map)
      /\ IsABag(y.block) /\ Copies(e, y.block) = Total(e, y.map)
  BY DEF OutputsAt, Carried
<1>2. y.map[n] = p.start.map[n] /\ y.map[n] \in Seq(RuleGroup)
  <2>1. n \in (n - 1) + 1..Len(p.start.map)
    OBVIOUS
  <2> QED BY <1>1, <2>1, ElementOfSeq DEF OutputsAt
<1>3. Total(e, y.map) \in Nat /\ Uses(e, y.map[n]) \in Nat /\ Uses(e, y.map[n]) <= Total(e, y.map)
  BY <1>1, TotalIs
<1>4. x.list = y.map[n] /\ x.block = y.block
  OBVIOUS
<1>5. Rest(p, y, n) \in Nat /\ Total(e, y.map) = Rest(p, y, n) + Uses(e, y.map[n])
  BY <1>3 DEF Rest
<1> QED BY <1>1, <1>2, <1>4, <1>5

LEMMA OutputsKept ==
    ASSUME NEW p, NEW n \in 1..Len(p.start.map), Len(p.start.map) \in Nat,
           NEW y, OutputsAt(p, n - 1, y),
           NEW w, Sound(Context(p.fz, p.k, n), p.b, p.T, Rest(p, y, n), w)
    PROVE  OutputsAt(p, n, Lists(y, n, w))
<1> DEFINE L == Len(p.start.map)
           e == p.b.rule
           c == Context(p.fz, p.k, n)
           map == [y.map EXCEPT ![n] = w.list]
           z == Lists(y, n, w)
<1>1. /\ y.map \in Seq(Seq(RuleGroup)) /\ Len(y.map) = L /\ DOMAIN y.map = 1..L
      /\ Knowing(y)
  BY LenProperties DEF OutputsAt, Carried
<1>2. \A i \in n + 1..L : y.map[i] = p.start.map[i]
  <2>1. n + 1..L \subseteq (n - 1) + 1..L
    OBVIOUS
  <2> QED BY <2>1 DEF OutputsAt
<1>3. /\ w.list \in Seq(RuleGroup) /\ Listed(c, p.b, p.T, w.list)
      /\ IsABag(w.block) /\ Copies(e, w.block) = Rest(p, y, n) + Uses(e, w.list)
  BY DEF Sound, Listed
<1>4. z = [heap |-> y.heap, cache |-> y.cache, max |-> y.max, map |-> map, block |-> w.block,
           noSimpl |-> y.noSimpl]
  <2>1. z = [y EXCEPT !.map[n] = w.list, !.block = w.block]
    BY DEF Lists
  <2> QED BY <1>1, <2>1 DEF Knowing
<1>5. map \in Seq(Seq(RuleGroup)) /\ Len(map) = L /\ Total(e, map) = Rest(p, y, n) + Uses(e, w.list)
  <2>1. map \in Seq(Seq(RuleGroup)) /\ Len(map) = Len(y.map)
    BY <1>1, <1>3, ExceptSeq
  <2> QED BY <1>1, <1>3, <2>1, TotalIs DEF Rest
<1>6. \A i \in 1..L : map[i] = IF i = n THEN w.list ELSE y.map[i]
  BY <1>1
<1> HIDE DEF map, z, c
<1>7. /\ z.heap = y.heap /\ z.cache = y.cache /\ z.max = y.max /\ z.map = map
      /\ z.block = w.block /\ z.noSimpl = y.noSimpl
  BY <1>4
<1>8. Knowing(z) /\ Carried(e, z)
  BY <1>3, <1>4, <1>5, <1>7 DEF Knowing, Carried
<1>9. \A i \in 1..n : Listed(Context(p.fz, p.k, i), p.b, p.T, z.map[i])
  <2>1. \A i \in 1..n - 1 : Listed(Context(p.fz, p.k, i), p.b, p.T, y.map[i])
    BY DEF OutputsAt
  <2>2. \A i \in 1..n : i \in 1..L /\ (i # n => i \in 1..n - 1)
    OBVIOUS
  <2> QED BY <1>3, <1>6, <1>7, <2>1, <2>2 DEF c
<1>10. \A i \in n + 1..L : z.map[i] = p.start.map[i]
  <2>1. \A i \in n + 1..L : i \in 1..L /\ i # n
    OBVIOUS
  <2> QED BY <1>2, <1>6, <1>7, <2>1
<1> QED BY <1>5, <1>7, <1>8, <1>9, <1>10 DEF OutputsAt, z

\* What comes of it.
LEMMA OutputsMapped ==
    ASSUME NEW p, p.k.heap = p.start.heap, NEW y, OutputsAt(p, Len(p.start.map), y)
    PROVE  Mapped(p.fz, y, p.b, p.T)
<1>1. DOMAIN y.map = 1..Len(p.start.map)
  BY LenProperties DEF OutputsAt, Carried
<1>2. \A n \in DOMAIN y.map : Listed(Context(p.fz, y, n), p.b, p.T, y.map[n])
  <2>1. \A n : Context(p.fz, y, n) = Context(p.fz, p.k, n)
    BY DEF Context, OutputsAt
  <2> QED BY <1>1, <2>1 DEF OutputsAt
<1> QED BY <1>2 DEF OutputsAt, Mapped

-----------------------------------------------------------------------------
(* When the observations change under the rule groups                      *)

\* What a rule group says rests on the first observations of its members.
LEMMA GoodMoves ==
    ASSUME NEW c, NEW d, NEW a, NEW b, NEW rg \in RuleGroup, Good(c, a, rg),
           c.fz = d.fz, c.out = d.out, a.single = b.single, a.speaks = b.speaks,
           b.fresh = {}, a.but \subseteq b.but,
           a.speaks => \A g \in Obs(rg) : /\ First(c, g).in = First(d, g).in
                                          /\ g \notin b.but => First(c, g) = First(d, g)
    PROVE  Good(d, b, rg)
<1>1. /\ rg.obs # <<>> /\ IsInjective(rg.obs)
      /\ a.single => Len(rg.obs) = 1
      /\ a.speaks => Speaks(c, a.but, rg)
  BY DEF Good
<1>2. rg.obs[1] \in Obs(rg)
  BY <1>1, ToSetEmpty DEF Obs, RuleGroup
<1>3. ASSUME a.speaks PROVE Speaks(d, b.but, rg)
  <2>1. Speaks(c, a.but, rg)
    BY <1>1, <1>3
  <2>2. \A g \in Obs(rg) : First(c, g).in = First(d, g).in
    BY <1>3
  <2>3. \A g \in Obs(rg) \ b.but : First(c, g) = First(d, g)
    BY <1>3
  <2>4. \A g \in Obs(rg) : \A i, t : InBit(First(c, g), i, t) = InBit(First(d, g), i, t)
    BY <2>2 DEF InBit
  <2>5. \A g \in Obs(rg), h \in Obs(rg) :
           SameOn(d.fz, First(d, g), First(d, h), Enabled(d.fz) \cap rg.relevant)
    <3> DEFINE inputs == Enabled(d.fz) \cap rg.relevant
    <3>1. \A g \in Obs(rg), h \in Obs(rg) : SameOn(d.fz, First(c, g), First(c, h), inputs)
      BY <2>1 DEF Speaks
    <3> HIDE DEF inputs
    <3>2. ASSUME NEW g \in Obs(rg), NEW h \in Obs(rg), NEW i \in inputs, NEW t \in 1..d.fz.inTerms[i]
          PROVE  InBit(First(d, g), i, t) = InBit(First(d, h), i, t)
      <4>1. InBit(First(c, g), i, t) = InBit(First(c, h), i, t)
        BY <3>1 DEF SameOn
      <4> QED BY <2>4, <4>1
    <3>3. \A g \in Obs(rg), h \in Obs(rg) : SameOn(d.fz, First(d, g), First(d, h), inputs)
      BY <3>2 DEF SameOn
    <3> QED BY <3>3 DEF inputs
  <2>6. \A g \in Obs(rg) \ b.but, h \in Obs(rg) \ b.but :
           OutputEquals(d.fz, First(d, g), First(d, h), d.out)
    BY <2>1, <2>3 DEF Speaks
  <2>7. Antecedent(d, rg) = Antecedent(c, rg)
    <3>1. \A i, t : InBit(First(c, rg.obs[1]), i, t) = InBit(First(d, rg.obs[1]), i, t)
      BY <1>2, <2>4
    <3>2. \A q : q \in Antecedent(d, rg) <=> q \in Antecedent(c, rg)
      BY <3>1 DEF Antecedent
    <3> QED BY <3>2
  <2>8. \A rule \in rg.rules : rule.if = Antecedent(d, rg)
    BY <2>1, <2>7 DEF Speaks
  <2> QED BY <2>5, <2>6, <2>8 DEF Speaks
<1> QED BY <1>1, <1>3 DEF Good

\* The same of all lists, when only the observations have changed.
LEMMA MappedMoves ==
    ASSUME NEW fs, NEW k, NEW a, NEW b, NEW S, Mapped(fs, k, a, S),
           a.rule = b.rule, a.single = b.single, a.speaks = b.speaks,
           b.fresh = {}, a.but \subseteq b.but,
           NEW y, Knowing(y), y.map = k.map, y.block = k.block,
           a.speaks => \A g \in S : /\ Head(k.heap[g]).in = Head(y.heap[g]).in
                                    /\ g \notin b.but => Head(k.heap[g]) = Head(y.heap[g])
    PROVE  Mapped(fs, y, b, S)
<1>1. Carried(b.rule, y)
  BY DEF Mapped, Carried
<1>2. ASSUME NEW n \in DOMAIN k.map PROVE Listed(Context(fs, y, n), b, S, k.map[n])
  <2> DEFINE c == Context(fs, k, n)
             d == Context(fs, y, n)
             list == k.map[n]
  <2>1. /\ c.fz = d.fz /\ c.out = d.out
        /\ \A g : First(c, g) = Head(k.heap[g]) /\ First(d, g) = Head(y.heap[g])
    BY DEF Context, First
  <2> HIDE DEF c, d
  <2>2. Listed(c, a, S, list)
    BY DEF Mapped, c
  <2> HIDE DEF list
  <2>3. ASSUME NEW r \in DOMAIN list PROVE Good(d, b, list[r])
    <3>1. list[r] \in RuleGroup /\ Good(c, a, list[r]) /\ Obs(list[r]) \subseteq S
      <4>1. list \in Seq(RuleGroup) /\ DOMAIN list = 1..Len(list)
        BY <2>2, LenProperties DEF Listed
      <4>2. list[r] \in RuleGroup
        BY <4>1, ElementOfSeq
      <4> QED BY <2>2, <4>2 DEF Listed
    <3>2. a.speaks => \A g \in Obs(list[r]) : /\ First(c, g).in = First(d, g).in
                                              /\ g \notin b.but => First(c, g) = First(d, g)
      BY <2>1, <3>1
    <3> QED BY <2>1, <3>1, <3>2, GoodMoves
  <2> QED BY <2>2, <2>3 DEF Listed, d, list
<1> QED BY <1>1, <1>2 DEF Mapped

-----------------------------------------------------------------------------
(* The lists as a whole                                                    *)

\* y is k, but for the lists and the rules.
SameBut(k, y) ==
    /\ y.heap = k.heap /\ y.cache = k.cache /\ y.max = k.max /\ y.noSimpl = k.noSimpl

\* The lists of k, and empty ones.
Extended(fs, k, y) ==
    /\ Len(fs.outTerms) > Len(k.map) => Len(y.map) = Len(fs.outTerms)
    /\ ~(Len(fs.outTerms) > Len(k.map)) => y.map = k.map
    /\ Len(k.map) <= Len(y.map)
    /\ \A n \in DOMAIN k.map : y.map[n] = k.map[n]
    /\ \A n \in DOMAIN y.map : n \notin DOMAIN k.map => y.map[n] = <<>>

LEMMA MapInitializedIs ==
    ASSUME NEW fs, fs.outTerms \in Seq(Nat), NEW k, NEW e, Knowing(k), Carried(e, k),
           NEW y, y = MapInitialized(fs, k)
    PROVE  Knowing(y) /\ Carried(e, y) /\ SameBut(k, y) /\ y.block = k.block /\ Extended(fs, k, y)
<1> DEFINE l == Len(k.map)
           o == Len(fs.outTerms)
           d == IF o > l THEN o - l ELSE 0
           more == [n \in 1..d |-> <<>>]
           map == k.map \o more
<1>1. k.map \in Seq(Seq(RuleGroup)) /\ l \in Nat /\ o \in Nat /\ DOMAIN k.map = 1..l
  BY LenProperties DEF Carried
<1>2. y = [heap |-> k.heap, cache |-> k.cache, max |-> k.max, map |-> map,
           block |-> k.block, noSimpl |-> k.noSimpl]
  BY DEF MapInitialized, Knowing
<1> HIDE DEF l, o
<1>3. d \in Nat /\ l + d \in Nat /\ l <= l + d /\ (o > l => l + d = o) /\ (~(o > l) => d = 0)
  BY <1>1
<1> HIDE DEF d
<1>4. more \in Seq(Seq(RuleGroup)) /\ Len(more) = d /\ \A n \in 1..d : more[n] = <<>>
  <2>1. <<>> \in Seq(RuleGroup)
    OBVIOUS
  <2>2. more \in Seq(Seq(RuleGroup))
    BY <1>3, <2>1, IsASeq
  <2> QED BY <1>3, <2>2, LenProperties
<1>5. d = 0 => more = <<>>
  BY <1>4, EmptySeq
<1> HIDE DEF more
<1>6. /\ map \in Seq(Seq(RuleGroup)) /\ Len(map) = l + d
      /\ \A n \in 1..l + d : map[n] = IF n <= l THEN k.map[n] ELSE more[n - l]
  <2>1. /\ map \in Seq(Seq(RuleGroup)) /\ Len(map) = Len(k.map) + Len(more)
        /\ \A n \in 1..Len(k.map) + Len(more) :
              map[n] = IF n <= Len(k.map) THEN k.map[n] ELSE more[n - Len(k.map)]
    <3> DEFINE u == k.map
               T == Seq(RuleGroup)
    <3>1. u \in Seq(T) /\ more \in Seq(T) /\ map = u \o more
      BY <1>1, <1>4
    <3> HIDE DEF u, T, map
    <3>2. /\ u \o more \in Seq(T) /\ Len(u \o more) = Len(u) + Len(more)
          /\ \A n \in 1..Len(u) + Len(more) :
                (u \o more)[n] = IF n <= Len(u) THEN u[n] ELSE more[n - Len(u)]
      BY ONLY <3>1, ConcatProperties
    <3> QED BY <3>1, <3>2 DEF u, T
  <2>2. Len(k.map) = l
    BY DEF l
  <2> HIDE DEF map
  <2> QED BY <1>4, <2>1, <2>2
<1>7. d = 0 => map = k.map
  <2>1. k.map \o <<>> = k.map
    BY <1>1, ConcatEmptySeq
  <2> QED BY <1>5, <2>1
<1> HIDE DEF map
<1>8. DOMAIN map = 1..l + d
  BY <1>6, LenProperties
<1>9. /\ \A n \in 1..l : map[n] = k.map[n]
      /\ \A n \in 1..l + d : n \notin 1..l => map[n] = <<>>
  <2>1. \A n \in 1..l : n \in 1..l + d /\ n <= l
    BY <1>1, <1>3
  <2>2. \A n \in 1..l + d : n \notin 1..l => ~(n <= l) /\ n - l \in 1..d
    BY <1>1, <1>3
  <2> QED BY <1>4, <1>6, <2>1, <2>2
<1>10. /\ y.heap = k.heap /\ y.cache = k.cache /\ y.max = k.max /\ y.noSimpl = k.noSimpl
       /\ y.block = k.block /\ y.map = map
  BY <1>2
<1>11. Knowing(y)
  BY <1>2, <1>10 DEF Knowing
<1>12. Total(e, k.map) = Total(e, map)
  <2>1. \A n \in 1..Len(map) : n > Len(k.map) => map[n] = <<>>
    <3>1. \A n \in 1..l + d : n > l => n \notin 1..l
      BY <1>1, <1>3
    <3> QED BY <1>6, <1>9, <3>1 DEF l
  <2>2. \A n \in 1..Len(k.map) : k.map[n] = map[n]
    BY <1>9 DEF l
  <2> QED BY <1>1, <1>3, <1>6, <2>1, <2>2, TotalPadded DEF l
<1>13. Carried(e, y)
  BY <1>6, <1>10, <1>12 DEF Carried
<1>14. Extended(fs, k, y)
  BY <1>1, <1>3, <1>6, <1>7, <1>8, <1>9, <1>10 DEF Extended, l, o
<1> QED BY <1>10, <1>11, <1>13, <1>14 DEF SameBut

\* A new list is for no group.
LEMMA MapInitializedMapped ==
    ASSUME NEW fs, fs.outTerms \in Seq(Nat), NEW k, NEW a, NEW S, Mapped(fs, k, a, S),
           Len(fs.outTerms) = Len(k.map) \/ S = {},
           NEW y, y = MapInitialized(fs, k)
    PROVE  Mapped(fs, y, a, S)
<1>1. Knowing(k) /\ Carried(a.rule, k) /\ \A n \in DOMAIN k.map : Listed(Context(fs, k, n), a, S, k.map[n])
  BY DEF Mapped
<1>2. Knowing(y) /\ Carried(a.rule, y) /\ SameBut(k, y) /\ Extended(fs, k, y)
  BY <1>1, MapInitializedIs
<1>3. \A n : Context(fs, y, n) = Context(fs, k, n)
  BY <1>2 DEF Context, SameBut
<1>4. ASSUME NEW n \in DOMAIN y.map PROVE Listed(Context(fs, y, n), a, S, y.map[n])
  <2>1. CASE n \in DOMAIN k.map
    BY <1>1, <1>2, <1>3, <2>1 DEF Extended
  <2>2. CASE n \notin DOMAIN k.map
    <3>1. y.map[n] = <<>>
      BY <1>2, <2>2 DEF Extended
    <3>2. S = {}
      <4>1. Len(fs.outTerms) \in Nat /\ Len(k.map) \in Nat
        BY <1>1, LenProperties DEF Carried
      <4>2. Len(fs.outTerms) = Len(k.map) => ~(Len(fs.outTerms) > Len(k.map))
        BY <4>1
      <4> QED BY <1>2, <2>2, <4>2 DEF Extended
    <3> QED BY <3>1, <3>2, ListedEmpty
  <2> QED BY <2>1, <2>2
<1> QED BY <1>2, <1>4 DEF Mapped

\* The variables of the engine.
Variables(fs) ==
    /\ fs.inTerms \in Seq(Nat) /\ fs.outTerms \in Seq(Nat)

LEMMA ContextIs ==
    ASSUME NEW fs, Variables(fs), NEW k, NEW n \in 1..Len(fs.outTerms)
    PROVE  ContextOK(Context(fs, k, n))
BY LenProperties DEF ContextOK, Context, Variables

\* Whatever the lists were, they are made anew.
RebuildStep(p, y, n) ==
    Lists(y, n, Rebuild(Context(p.fz, p.k, n), [list |-> y.map[n], block |-> y.block],
                        p.k.cache, p.k.noSimpl))

Rebuilding == INSTANCE SeqLemmas WITH FoldOp <- RebuildStep, FoldAt <- OutputsAt

LEMMA RulesRebuiltMapped ==
    ASSUME NEW fs, Variables(fs), NEW k, NEW a, Knowing(k), Carried(a.rule, k),
           Len(k.map) <= Len(fs.outTerms),
           k.cache \in Seq(Nat), IsInjective(k.cache), ~k.noSimpl => a.but = {} /\ ~a.single,
           NEW y, y = RulesRebuilt(fs, k)
    PROVE  Mapped(fs, y, a, ToSet(k.cache)) /\ SameBut(k, y) /\ Len(y.map) = Len(fs.outTerms)
<1> DEFINE start == MapInitialized(fs, k)
           p == [fz |-> fs, k |-> k, start |-> start, b |-> a, T |-> ToSet(k.cache)]
           L == Len(start.map)
<1>1. p.fz = fs /\ p.k = k /\ p.start = start /\ p.b = a /\ p.T = ToSet(k.cache)
  OBVIOUS
<1>2. y = Rebuilding!Folded(p, start, Positions(start.map))
  BY DEF RulesRebuilt, ForEachOutput, FoldLeft, MapThenFoldSet, Rebuilding!Folded, Rebuilding!IterEq,
         Rebuilding!Largest, Max, RebuildStep, Positions
<1> HIDE DEF start, p
<1>3. Knowing(start) /\ Carried(a.rule, start) /\ SameBut(k, start) /\ L = Len(fs.outTerms)
  <2>1. Len(k.map) \in Nat /\ Len(fs.outTerms) \in Nat
    BY LenProperties DEF Carried, Variables
  <2>2. Knowing(start) /\ Carried(a.rule, start) /\ SameBut(k, start) /\ Extended(fs, k, start)
    BY MapInitializedIs DEF start, Variables
  <2>3. ~(Len(fs.outTerms) > Len(k.map)) => Len(k.map) = Len(fs.outTerms)
    BY <2>1
  <2> QED BY <2>2, <2>3 DEF Extended
<1>4. /\ OutputsAt(p, 0, start) /\ L \in Nat
      /\ Positions(start.map) \in Seq(Nat) /\ Len(Positions(start.map)) = L
      /\ \A n \in 1..L : Positions(start.map)[n] = n
  BY <1>1, <1>3, OutputsStart
<1>5. ASSUME NEW z, NEW n \in 1..L, OutputsAt(p, n - 1, z)
      PROVE  OutputsAt(p, n, RebuildStep(p, z, n))
  <2> DEFINE x == [list |-> z.map[n], block |-> z.block]
             j == Rest(p, z, n)
             w == Rebuild(Context(fs, k, n), x, k.cache, k.noSimpl)
  <2>5. n \in 1..Len(p.start.map) /\ Len(p.start.map) \in Nat
    BY <1>1, <1>4
  <2>6. x = [list |-> z.map[n], block |-> z.block]
    OBVIOUS
  <2> HIDE DEF x
  <2>7. /\ j \in Nat /\ x.list \in Seq(RuleGroup) /\ IsABag(x.block)
        /\ Copies(p.b.rule, x.block) = j + Uses(p.b.rule, x.list)
    BY ONLY <1>5, <2>5, <2>6, OutputsReady
  <2>1. /\ j \in Nat /\ x.list \in Seq(RuleGroup) /\ IsABag(x.block)
        /\ Copies(a.rule, x.block) = j + Uses(a.rule, x.list)
    BY <1>1, <2>7
  <2> HIDE DEF j
  <2>2. ContextOK(Context(fs, k, n))
    BY <1>3, ContextIs
  <2>3. Sound(Context(fs, k, n), a, ToSet(k.cache), j, w)
    BY <2>1, <2>2, RebuildSound
  <2>4. RebuildStep(p, z, n) = Lists(z, n, w)
    BY <1>1 DEF RebuildStep, x
  <2> HIDE DEF w
  <2>8. Sound(Context(p.fz, p.k, n), p.b, p.T, Rest(p, z, n), w)
    BY <1>1, <2>3 DEF j
  <2>9. OutputsAt(p, n, Lists(z, n, w))
    BY ONLY <1>5, <2>5, <2>8, OutputsKept
  <2> QED BY <2>4, <2>9
<1>6. OutputsAt(p, L, y)
  <2> HIDE DEF L
  <2>1. OutputsAt(p, Len(Positions(start.map)), Rebuilding!Folded(p, start, Positions(start.map)))
    BY <1>4, <1>5, Rebuilding!FoldsAlong
  <2> QED BY <1>2, <1>4, <2>1
<1>7. p.k.heap = p.start.heap
  BY <1>1, <1>3 DEF SameBut
<1>8. Mapped(fs, y, a, ToSet(k.cache))
  BY <1>1, <1>6, <1>7, OutputsMapped
<1>9. SameBut(k, y) /\ Len(y.map) = L
  BY <1>1, <1>3, <1>6 DEF OutputsAt, SameBut
<1> QED BY <1>3, <1>8, <1>9

\* All rules leave the block.
UnmapStep(p, b, list) == Drained(b, list)

UnmapAt(p, n, b) == IsABag(b) /\ Copies(p.rule, b) = p.h[Len(p.map)] - p.h[n]

Unmapping == INSTANCE SeqLemmas WITH FoldOp <- UnmapStep, FoldAt <- UnmapAt

LEMMA MapClearedIs ==
    ASSUME NEW k, NEW e, Knowing(k), Carried(e, k), NEW y, y = MapCleared(k)
    PROVE  Knowing(y) /\ Carried(e, y) /\ y.map = <<>> /\ SameBut(k, y)
<1> DEFINE block == FoldLeft(LAMBDA b, list : FoldLeft(LAMBDA c, rg : c (-) SetToBag(rg.rules), b, list),
                             k.block, k.map)
<1>1. k.map \in Seq(Seq(RuleGroup)) /\ IsABag(k.block) /\ Copies(e, k.block) = Total(e, k.map)
      /\ Len(k.map) \in Nat
  BY LenProperties DEF Carried
<1>2. /\ Totalling!Additive(e, Seq(RuleGroup))
      /\ \A list \in Seq(RuleGroup) : Totalling!Share(e, list) = Uses(e, list)
  BY TotalAdds
<1>3. PICK h : Totalling!Sums(e, k.map, h)
  BY <1>1, <1>2, Totalling!SumRun
<1> DEFINE p == [rule |-> e, map |-> k.map, h |-> h]
<1>4. p.rule = e /\ p.map = k.map /\ p.h = h
  OBVIOUS
<1>5. block = Unmapping!Folded(p, k.block, k.map)
  BY DEF FoldLeft, MapThenFoldSet, Unmapping!Folded, Unmapping!IterEq, Unmapping!Largest, Max,
         UnmapStep, Drained
<1>6. y = [heap |-> k.heap, cache |-> k.cache, max |-> k.max, map |-> <<>>,
           block |-> block, noSimpl |-> k.noSimpl]
  BY DEF MapCleared, Knowing
<1> HIDE DEF p, block
<1>7. /\ h[0] = 0 /\ Total(e, k.map) = h[Len(k.map)]
      /\ \A n \in 0..Len(k.map) : h[n] \in Nat /\ h[n] <= h[Len(k.map)]
      /\ \A n \in 1..Len(k.map) : h[n] = h[n - 1] + Uses(e, k.map[n])
  <2>1. \A n \in 0..Len(k.map) : h[n] <= h[Len(k.map)]
    BY <1>1, <1>2, <1>3, Totalling!SumsGrow
  <2>2. \A n \in 1..Len(k.map) : k.map[n] \in Seq(RuleGroup)
    BY <1>1, ElementOfSeq
  <2> QED BY <1>2, <1>3, <2>1, <2>2 DEF Totalling!Sums, Total
<1>8. Len(k.map) \in 0..Len(k.map) /\ 0 \in 0..Len(k.map)
  BY <1>1
<1>9. UnmapAt(p, 0, k.block)
  <2>1. h[Len(k.map)] - h[0] = h[Len(k.map)]
    BY <1>7, <1>8
  <2> QED BY <1>1, <1>4, <1>7, <2>1 DEF UnmapAt
<1>10. ASSUME NEW b, NEW n \in 1..Len(k.map), UnmapAt(p, n - 1, b)
       PROVE  UnmapAt(p, n, UnmapStep(p, b, k.map[n]))
  <2> DEFINE list == k.map[n]
             j == h[Len(k.map)] - h[n]
  <2>1. IsABag(b) /\ Copies(e, b) = h[Len(k.map)] - h[n - 1]
    BY <1>4, <1>10 DEF UnmapAt
  <2>2. list \in Seq(RuleGroup)
    BY <1>1, ElementOfSeq
  <2>3. /\ h[n] \in Nat /\ h[n - 1] \in Nat /\ h[Len(k.map)] \in Nat /\ h[n] <= h[Len(k.map)]
        /\ Uses(e, list) \in Nat /\ h[n] = h[n - 1] + Uses(e, list)
    <3>1. n \in 0..Len(k.map) /\ n - 1 \in 0..Len(k.map)
      BY <1>1
    <3> QED BY <1>7, <1>8, <2>2, <3>1, UsesIs
  <2>4. j \in Nat /\ Copies(e, b) = j + Uses(e, list)
    <3> DEFINE q == h[Len(k.map)]
               u == h[n - 1]
               v == Uses(e, list)
               w == h[n]
    <3>1. /\ q \in Nat /\ u \in Nat /\ v \in Nat /\ w \in Nat /\ w <= q /\ w = u + v
          /\ Copies(e, b) = q - u /\ j = q - w
      BY <2>1, <2>3
    <3> HIDE DEF q, u, v, w, j
    <3>2. j \in Nat /\ Copies(e, b) = j + v
      BY <3>1
    <3> QED BY <3>2 DEF v
  <2> HIDE DEF list, j
  <2>5. IsABag(Drained(b, list)) /\ Copies(e, Drained(b, list)) = j
    BY <2>1, <2>2, <2>4, DrainedIs
  <2> QED BY <1>4, <2>5 DEF UnmapAt, UnmapStep, list, j
<1>11. UnmapAt(p, Len(k.map), block)
  BY <1>1, <1>5, <1>9, <1>10, Unmapping!FoldsAlong
<1>12. IsABag(block) /\ Copies(e, block) = 0
  <2>1. h[Len(k.map)] - h[Len(k.map)] = 0
    BY <1>7, <1>8
  <2> QED BY <1>4, <1>11, <2>1 DEF UnmapAt
<1>13. /\ y.map = <<>> /\ y.block = block
       /\ y.heap = k.heap /\ y.cache = k.cache /\ y.max = k.max /\ y.noSimpl = k.noSimpl
  BY <1>6
<1>14. Total(e, <<>>) = 0 /\ <<>> \in Seq(Seq(RuleGroup))
  BY <1>1, TotalIs
<1> QED BY <1>6, <1>12, <1>13, <1>14 DEF Knowing, Carried, SameBut

\* All rules are put into a block.
MappingStep(p, b, list) == Filled(b, list)

MappingAt(p, n, b) == IsABag(b) /\ Copies(p.rule, b) = p.h[n]

Mapping == INSTANCE SeqLemmas WITH FoldOp <- MappingStep, FoldAt <- MappingAt

AllRules(map) == FoldLeft(LAMBDA b, list : FoldLeft(LAMBDA c, rg : c (+) SetToBag(rg.rules), b, list),
                          EmptyBag, map)

LEMMA AllRulesIs ==
    ASSUME NEW e, NEW map \in Seq(Seq(RuleGroup))
    PROVE  IsABag(AllRules(map)) /\ Copies(e, AllRules(map)) = Total(e, map)
<1>1. Len(map) \in Nat /\ \A n \in 1..Len(map) : map[n] \in Seq(RuleGroup)
  BY LenProperties, ElementOfSeq
<1>2. /\ Totalling!Additive(e, Seq(RuleGroup))
      /\ \A list \in Seq(RuleGroup) : Totalling!Share(e, list) = Uses(e, list)
  BY TotalAdds
<1>3. PICK h : Totalling!Sums(e, map, h)
  BY <1>1, <1>2, Totalling!SumRun
<1> DEFINE p == [rule |-> e, h |-> h]
<1>4. p.rule = e /\ p.h = h
  OBVIOUS
<1>5. AllRules(map) = Mapping!Folded(p, EmptyBag, map)
  BY DEF AllRules, FoldLeft, MapThenFoldSet, Mapping!Folded, Mapping!IterEq, Mapping!Largest, Max,
         MappingStep, Filled
<1> HIDE DEF p
<1>6. /\ h[0] = 0 /\ Total(e, map) = h[Len(map)]
      /\ \A n \in 1..Len(map) : h[n] = h[n - 1] + Uses(e, map[n])
  BY <1>1, <1>2, <1>3 DEF Totalling!Sums, Total
<1>7. MappingAt(p, 0, EmptyBag)
  <2>1. IsABag(EmptyBag) /\ DOMAIN EmptyBag = {}
    BY DEF EmptyBag, IsABag, SetToBag
  <2> QED BY <1>4, <1>6, <2>1 DEF MappingAt, Copies
<1>8. ASSUME NEW b, NEW n \in 1..Len(map), MappingAt(p, n - 1, b)
      PROVE  MappingAt(p, n, MappingStep(p, b, map[n]))
  <2>1. IsABag(b) /\ Copies(e, b) = h[n - 1]
    BY <1>4, <1>8 DEF MappingAt
  <2>2. /\ IsABag(Filled(b, map[n]))
        /\ Copies(e, Filled(b, map[n])) = Copies(e, b) + Uses(e, map[n])
    BY <1>1, <2>1, FilledIs
  <2> QED BY <1>4, <1>6, <2>1, <2>2 DEF MappingAt, MappingStep
<1>9. MappingAt(p, Len(map), AllRules(map))
  BY <1>5, <1>7, <1>8, Mapping!FoldsAlong
<1> QED BY <1>4, <1>6, <1>9 DEF MappingAt

-----------------------------------------------------------------------------
(* The operations on all lists                                             *)

\* Nothing is open: no group is excepted, none has just been learnt of.
Plain(a) == a.fresh = {} /\ a.but = {}

\* A group leaves all lists.
DropStep(p, y, n) ==
    Lists(y, n, RemoveGroup([list |-> y.map[n], block |-> y.block], p.g))

Dropping == INSTANCE SeqLemmas WITH FoldOp <- DropStep, FoldAt <- OutputsAt

Dropped(k, g) == ForEachOutput(k, LAMBDA x, n : RemoveGroup(x, g))

LEMMA GroupDropped ==
    ASSUME NEW fs, NEW k, NEW a, NEW S, Mapped(fs, k, a, S), NEW g, Plain(a),
           NEW y, y = Dropped(k, g)
    PROVE  Mapped(fs, y, a, S \ {g}) /\ SameBut(k, y) /\ Len(y.map) = Len(k.map)
<1> DEFINE p == [fz |-> fs, k |-> k, start |-> k, b |-> a, T |-> (S \ {g}), g |-> g]
           L == Len(k.map)
<1>1. p.fz = fs /\ p.k = k /\ p.start = k /\ p.b = a /\ p.T = (S \ {g}) /\ p.g = g
  OBVIOUS
<1>2. y = Dropping!Folded(p, k, Positions(k.map))
  BY DEF Dropped, ForEachOutput, FoldLeft, MapThenFoldSet, Dropping!Folded, Dropping!IterEq,
         Dropping!Largest, Max, DropStep, Positions
<1> HIDE DEF p
<1>3. Knowing(k) /\ Carried(a.rule, k) /\ DOMAIN k.map = 1..L
      /\ \A n \in DOMAIN k.map : Listed(Context(fs, k, n), a, S, k.map[n])
  BY LenProperties DEF Mapped, Carried
<1>4. /\ OutputsAt(p, 0, k) /\ L \in Nat
      /\ Positions(k.map) \in Seq(Nat) /\ Len(Positions(k.map)) = L
      /\ \A n \in 1..L : Positions(k.map)[n] = n
  BY <1>1, <1>3, OutputsStart
<1>5. ASSUME NEW z, NEW n \in 1..L, OutputsAt(p, n - 1, z)
      PROVE  OutputsAt(p, n, DropStep(p, z, n))
  <2> DEFINE x == [list |-> z.map[n], block |-> z.block]
             j == Rest(p, z, n)
             c == Context(fs, k, n)
             w == RemoveGroup(x, g)
  <2>1. n \in 1..Len(p.start.map) /\ Len(p.start.map) \in Nat
    BY <1>1, <1>4
  <2>2. x = [list |-> z.map[n], block |-> z.block]
    OBVIOUS
  <2> HIDE DEF x
  <2>3. /\ j \in Nat /\ x = [list |-> x.list, block |-> x.block]
        /\ x.list = p.start.map[n] /\ IsABag(x.block)
        /\ Copies(p.b.rule, x.block) = j + Uses(p.b.rule, x.list)
    BY ONLY <1>5, <2>1, <2>2, OutputsReady
  <2> HIDE DEF j
  <2>4. Sound(c, a, S, j, x)
    <3>1. Listed(c, a, S, x.list)
      BY <1>1, <1>3, <2>3
    <3> QED BY <1>1, <2>3, <3>1 DEF Sound
  <2> HIDE DEF c
  <2>6. Sound(c, a, (S \ {g}), j, w)
    BY <2>3, <2>4, RemoveGroupSound DEF Plain
  <2>7. DropStep(p, z, n) = Lists(z, n, w)
    BY <1>1 DEF DropStep, x, c
  <2> HIDE DEF w
  <2>8. Sound(Context(p.fz, p.k, n), p.b, p.T, Rest(p, z, n), w)
    BY <1>1, <2>6 DEF j, c
  <2>9. OutputsAt(p, n, Lists(z, n, w))
    BY ONLY <1>5, <2>1, <2>8, OutputsKept
  <2> QED BY <2>7, <2>9
<1>6. OutputsAt(p, L, y)
  <2> HIDE DEF L
  <2>1. OutputsAt(p, Len(Positions(k.map)), Dropping!Folded(p, k, Positions(k.map)))
    BY <1>4, <1>5, Dropping!FoldsAlong
  <2> QED BY <1>2, <1>4, <2>1
<1>7. Mapped(fs, y, a, S \ {g})
  <2>1. p.k.heap = p.start.heap
    BY <1>1
  <2>2. OutputsAt(p, Len(p.start.map), y)
    BY <1>1, <1>6
  <2>3. Mapped(p.fz, y, p.b, p.T)
    BY <2>1, <2>2, OutputsMapped
  <2> QED BY <1>1, <2>3
<1> QED BY <1>1, <1>6, <1>7 DEF OutputsAt, SameBut

\* A group comes to all lists.
ComeStep(p, y, n) ==
    Lists(y, n, AppendGroup(Context(p.fz, p.k, n), [list |-> y.map[n], block |-> y.block],
                            p.g, p.k.noSimpl))

Coming == INSTANCE SeqLemmas WITH FoldOp <- ComeStep, FoldAt <- OutputsAt

Come(fs, k, g) == ForEachOutput(k, LAMBDA x, n : AppendGroup(Context(fs, k, n), x, g, k.noSimpl))

LEMMA GroupCome ==
    ASSUME NEW fs, Variables(fs), NEW k, NEW a, NEW S, Mapped(fs, k, a, S),
           Len(k.map) <= Len(fs.outTerms), NEW g \in Nat, g \notin S,
           ~k.noSimpl => a.but = {} /\ ~a.single,
           NEW y, y = Come(fs, k, g)
    PROVE  Mapped(fs, y, a, S \cup {g}) /\ SameBut(k, y) /\ Len(y.map) = Len(k.map)
<1> DEFINE p == [fz |-> fs, k |-> k, start |-> k, b |-> a, T |-> (S \cup {g}), g |-> g]
           L == Len(k.map)
<1>1. p.fz = fs /\ p.k = k /\ p.start = k /\ p.b = a /\ p.T = (S \cup {g}) /\ p.g = g
  OBVIOUS
<1>2. y = Coming!Folded(p, k, Positions(k.map))
  BY DEF Come, ForEachOutput, FoldLeft, MapThenFoldSet, Coming!Folded, Coming!IterEq,
         Coming!Largest, Max, ComeStep, Positions
<1> HIDE DEF p
<1>3. Knowing(k) /\ Carried(a.rule, k) /\ DOMAIN k.map = 1..L
      /\ \A n \in DOMAIN k.map : Listed(Context(fs, k, n), a, S, k.map[n])
  BY LenProperties DEF Mapped, Carried
<1>4. /\ OutputsAt(p, 0, k) /\ L \in Nat
      /\ Positions(k.map) \in Seq(Nat) /\ Len(Positions(k.map)) = L
      /\ \A n \in 1..L : Positions(k.map)[n] = n
  BY <1>1, <1>3, OutputsStart
<1>5. ASSUME NEW z, NEW n \in 1..L, OutputsAt(p, n - 1, z)
      PROVE  OutputsAt(p, n, ComeStep(p, z, n))
  <2> DEFINE x == [list |-> z.map[n], block |-> z.block]
             j == Rest(p, z, n)
             c == Context(fs, k, n)
             w == AppendGroup(c, x, g, k.noSimpl)
  <2>1. n \in 1..Len(p.start.map) /\ Len(p.start.map) \in Nat
    BY <1>1, <1>4
  <2>2. x = [list |-> z.map[n], block |-> z.block]
    OBVIOUS
  <2> HIDE DEF x
  <2>3. /\ j \in Nat /\ x = [list |-> x.list, block |-> x.block]
        /\ x.list = p.start.map[n] /\ IsABag(x.block)
        /\ Copies(p.b.rule, x.block) = j + Uses(p.b.rule, x.list)
    BY ONLY <1>5, <2>1, <2>2, OutputsReady
  <2> HIDE DEF j
  <2>4. Sound(c, a, S, j, x)
    <3>1. Listed(c, a, S, x.list)
      BY <1>1, <1>3, <2>3
    <3> QED BY <1>1, <2>3, <3>1 DEF Sound
  <2>5. ContextOK(c)
    <3>1. n \in 1..Len(fs.outTerms)
      <4>1. Len(fs.outTerms) \in Nat
        BY LenProperties DEF Variables
      <4> HIDE DEF L
      <4>2. n <= L /\ L <= Len(fs.outTerms) /\ L \in Nat /\ n \in 1..L
        BY <1>4 DEF L
      <4> QED BY <4>1, <4>2
    <3> QED BY <3>1, ContextIs
  <2> HIDE DEF c
  <2>6. Sound(c, a, (S \cup {g}), j, w)
    BY <2>3, <2>4, <2>5, AppendGroupSound
  <2>7. ComeStep(p, z, n) = Lists(z, n, w)
    BY <1>1 DEF ComeStep, x, c
  <2> HIDE DEF w
  <2>8. Sound(Context(p.fz, p.k, n), p.b, p.T, Rest(p, z, n), w)
    BY <1>1, <2>6 DEF j, c
  <2>9. OutputsAt(p, n, Lists(z, n, w))
    BY ONLY <1>5, <2>1, <2>8, OutputsKept
  <2> QED BY <2>7, <2>9
<1>6. OutputsAt(p, L, y)
  <2> HIDE DEF L
  <2>1. OutputsAt(p, Len(Positions(k.map)), Coming!Folded(p, k, Positions(k.map)))
    BY <1>4, <1>5, Coming!FoldsAlong
  <2> QED BY <1>2, <1>4, <2>1
<1>7. Mapped(fs, y, a, S \cup {g})
  <2>1. p.k.heap = p.start.heap
    BY <1>1
  <2>2. OutputsAt(p, Len(p.start.map), y)
    BY <1>1, <1>6
  <2>3. Mapped(p.fz, y, p.b, p.T)
    BY <2>1, <2>2, OutputsMapped
  <2> QED BY <1>1, <2>3
<1> QED BY <1>1, <1>6, <1>7 DEF OutputsAt, SameBut

\* A group finds its place in all lists again.
BalanceStep(p, y, n) ==
    Lists(y, n, Rebalance(Context(p.fz, p.k, n), [list |-> y.map[n], block |-> y.block], p.g))

Balancing == INSTANCE SeqLemmas WITH FoldOp <- BalanceStep, FoldAt <- OutputsAt

Balanced(fs, k, g) == ForEachOutput(k, LAMBDA x, n : Rebalance(Context(fs, k, n), x, g))

LEMMA GroupBalanced ==
    ASSUME NEW fs, Variables(fs), NEW k, NEW a, NEW b, NEW S, Mapped(fs, k, a, S),
           Len(k.map) <= Len(fs.outTerms), NEW g \in Nat,
           a.rule = b.rule, a.single = b.single, a.speaks = b.speaks, a.fresh = {}, ~b.single,
           a.but \subseteq {g}, b.fresh \subseteq {g}, b.but = {},
           NEW y, y = Balanced(fs, k, g)
    PROVE  Mapped(fs, y, b, S) /\ SameBut(k, y) /\ Len(y.map) = Len(k.map)
<1> DEFINE p == [fz |-> fs, k |-> k, start |-> k, b |-> b, T |-> S, g |-> g]
           L == Len(k.map)
<1>1. p.fz = fs /\ p.k = k /\ p.start = k /\ p.b = b /\ p.T = S /\ p.g = g
  OBVIOUS
<1>2. y = Balancing!Folded(p, k, Positions(k.map))
  BY DEF Balanced, ForEachOutput, FoldLeft, MapThenFoldSet, Balancing!Folded, Balancing!IterEq,
         Balancing!Largest, Max, BalanceStep, Positions
<1> HIDE DEF p
<1>3. Knowing(k) /\ Carried(a.rule, k) /\ DOMAIN k.map = 1..L
      /\ \A n \in DOMAIN k.map : Listed(Context(fs, k, n), a, S, k.map[n])
  BY LenProperties DEF Mapped, Carried
<1>4. /\ OutputsAt(p, 0, k) /\ L \in Nat
      /\ Positions(k.map) \in Seq(Nat) /\ Len(Positions(k.map)) = L
      /\ \A n \in 1..L : Positions(k.map)[n] = n
  BY <1>1, <1>3, OutputsStart
<1>5. ASSUME NEW z, NEW n \in 1..L, OutputsAt(p, n - 1, z)
      PROVE  OutputsAt(p, n, BalanceStep(p, z, n))
  <2> DEFINE x == [list |-> z.map[n], block |-> z.block]
             j == Rest(p, z, n)
             c == Context(fs, k, n)
             w == Rebalance(c, x, g)
  <2>1. n \in 1..Len(p.start.map) /\ Len(p.start.map) \in Nat
    BY <1>1, <1>4
  <2>2. x = [list |-> z.map[n], block |-> z.block]
    OBVIOUS
  <2> HIDE DEF x
  <2>3. /\ j \in Nat /\ x = [list |-> x.list, block |-> x.block]
        /\ x.list = p.start.map[n] /\ IsABag(x.block)
        /\ Copies(p.b.rule, x.block) = j + Uses(p.b.rule, x.list)
    BY ONLY <1>5, <2>1, <2>2, OutputsReady
  <2> HIDE DEF j
  <2>4. Sound(c, a, S, j, x)
    <3>1. Listed(c, a, S, x.list)
      BY <1>1, <1>3, <2>3
    <3> QED BY <1>1, <2>3, <3>1 DEF Sound
  <2>5. ContextOK(c)
    <3>1. n \in 1..Len(fs.outTerms)
      <4>1. Len(fs.outTerms) \in Nat
        BY LenProperties DEF Variables
      <4> HIDE DEF L
      <4>2. n <= L /\ L <= Len(fs.outTerms) /\ L \in Nat /\ n \in 1..L
        BY <1>4 DEF L
      <4> QED BY <4>1, <4>2
    <3> QED BY <3>1, ContextIs
  <2> HIDE DEF c
  <2>6. Sound(c, b, S, j, w)
    BY <2>3, <2>4, <2>5, RebalanceSound
  <2>7. BalanceStep(p, z, n) = Lists(z, n, w)
    BY <1>1 DEF BalanceStep, x, c
  <2> HIDE DEF w
  <2>8. Sound(Context(p.fz, p.k, n), p.b, p.T, Rest(p, z, n), w)
    BY <1>1, <2>6 DEF j, c
  <2>9. OutputsAt(p, n, Lists(z, n, w))
    BY ONLY <1>5, <2>1, <2>8, OutputsKept
  <2> QED BY <2>7, <2>9
<1>6. OutputsAt(p, L, y)
  <2> HIDE DEF L
  <2>1. OutputsAt(p, Len(Positions(k.map)), Balancing!Folded(p, k, Positions(k.map)))
    BY <1>4, <1>5, Balancing!FoldsAlong
  <2> QED BY <1>2, <1>4, <2>1
<1>7. Mapped(fs, y, b, S)
  <2>1. p.k.heap = p.start.heap
    BY <1>1
  <2>2. OutputsAt(p, Len(p.start.map), y)
    BY <1>1, <1>6
  <2>3. Mapped(p.fz, y, p.b, p.T)
    BY <2>1, <2>2, OutputsMapped
  <2> QED BY <1>1, <2>3
<1> QED BY <1>1, <1>6, <1>7 DEF OutputsAt, SameBut

-----------------------------------------------------------------------------
(* The cache                                                               *)

\* The knowledge as it is between two calls, and within one: the lists are for
\* the groups in S, the groups in D exist, and V is what a group may be.
Kept(fs, k, a, S, D, V) ==
    /\ Mapped(fs, k, a, S) /\ Plain(a)
    /\ a.speaks => S \subseteq D
    /\ k.heap \in [D -> V]
    /\ k.cache \in Seq(Nat) /\ IsInjective(k.cache)

\* What freeing an element leaves as it is.
SameShape(k, y) ==
    /\ y.max = k.max /\ y.noSimpl = k.noSimpl /\ Len(y.map) = Len(k.map)

\* What is left is what it was.
Survives(k, y) == \A h \in DOMAIN y.heap : h \in DOMAIN k.heap /\ y.heap[h] = k.heap[h]

LEMMA ElementFreedKept ==
    ASSUME NEW fs, NEW k, NEW a, NEW S, NEW D, NEW V, Kept(fs, k, a, S, D, V), NEW g,
           NEW y, y = ElementFreed(k, g)
    PROVE  /\ Kept(fs, y, a, S \ {g}, D \ {g}, V) /\ SameShape(k, y) /\ y.cache = k.cache
           /\ Survives(k, y)
<1> DEFINE z == Dropped(k, g)
           heap == [h \in DOMAIN z.heap \ {g} |-> z.heap[h]]
<1>1. Mapped(fs, z, a, S \ {g}) /\ SameBut(k, z) /\ Len(z.map) = Len(k.map)
  <2>1. Mapped(fs, k, a, S) /\ Plain(a)
    BY DEF Kept
  <2>2. z = Dropped(k, g)
    OBVIOUS
  <2> HIDE DEF z
  <2> QED BY ONLY <2>1, <2>2, GroupDropped
<1> HIDE DEF z
<1>2. y = FreeGroup(z, g)
  BY DEF ElementFreed, Dropped, z
<1>3. y = [heap |-> heap, cache |-> z.cache, max |-> z.max, map |-> z.map,
           block |-> z.block, noSimpl |-> z.noSimpl]
  BY <1>1, <1>2 DEF FreeGroup, Mapped, Knowing
<1>4. heap \in [D \ {g} -> V] /\ \A h \in D \ {g} : heap[h] = z.heap[h]
  <2>1. z.heap \in [D -> V]
    BY <1>1 DEF SameBut, Kept
  <2> QED BY <2>1
<1> HIDE DEF heap
<1>5. /\ y.heap = heap /\ y.cache = z.cache /\ y.max = z.max /\ y.map = z.map
      /\ y.block = z.block /\ y.noSimpl = z.noSimpl
  BY <1>3
<1>6. Knowing(y)
  BY <1>3, <1>5 DEF Knowing
<1>7. Mapped(fs, y, a, S \ {g})
  <2>1. a.speaks => \A h \in S \ {g} : Head(z.heap[h]) = Head(y.heap[h])
    BY <1>4, <1>5 DEF Kept
  <2>2. a.but \subseteq a.but /\ a.fresh = {}
    BY DEF Kept, Plain
  <2> QED BY <1>1, <1>5, <1>6, <2>1, <2>2, MappedMoves
<1>8. Survives(k, y)
  <2>1. z.heap = k.heap /\ DOMAIN k.heap = D /\ DOMAIN heap = D \ {g}
    BY <1>1, <1>4 DEF SameBut, Kept
  <2> QED BY <1>4, <1>5, <2>1 DEF Survives
<1> QED BY <1>1, <1>4, <1>5, <1>7, <1>8 DEF Kept, SameBut, SameShape

\* An element leaves the cache.
CacheLess(k, g, y) == ToSet(y.cache) = ToSet(k.cache) \ {g}

LEMMA CacheRemovedKept ==
    ASSUME NEW fs, NEW k, NEW a, NEW S, NEW D, NEW V, Kept(fs, k, a, S, D, V), NEW n \in DOMAIN k.cache,
           NEW y, y = CacheRemoved(k, n)
    PROVE  /\ Kept(fs, y, a, S \ {k.cache[n]}, D \ {k.cache[n]}, V) /\ SameShape(k, y)
           /\ y.cache = RemoveAt(k.cache, n)
           /\ CacheLess(k, k.cache[n], y) /\ Survives(k, y)
           /\ Len(y.cache) = Len(k.cache) - 1
<1> DEFINE z == [k EXCEPT !.cache = RemoveAt(@, n)]
           rest == RemoveAt(k.cache, n)
<1>1. k.cache \in Seq(Nat) /\ IsInjective(k.cache) /\ DOMAIN k.cache = 1..Len(k.cache)
  BY LenProperties DEF Kept
<1>2. z = [heap |-> k.heap, cache |-> rest, max |-> k.max, map |-> k.map,
           block |-> k.block, noSimpl |-> k.noSimpl]
  BY DEF Kept, Mapped, Knowing
<1>3. /\ rest \in Seq(Nat) /\ IsInjective(rest) /\ ToSet(rest) = ToSet(k.cache) \ {k.cache[n]}
      /\ Len(rest) = Len(k.cache) - 1
  BY <1>1, RemoveAtSet, RemoveAtProperties
<1>4. y = ElementFreed(z, k.cache[n])
  BY DEF CacheRemoved
<1> HIDE DEF z, rest
<1>5. /\ z.heap = k.heap /\ z.cache = rest /\ z.max = k.max /\ z.map = k.map
      /\ z.block = k.block /\ z.noSimpl = k.noSimpl
  BY <1>2
<1>6. Knowing(z)
  BY <1>2, <1>5 DEF Knowing
<1>7. Mapped(fs, z, a, S)
  BY <1>5, <1>6, MappedMoves DEF Kept, Plain
<1>8. Kept(fs, z, a, S, D, V)
  BY <1>3, <1>5, <1>7 DEF Kept
<1>9. /\ Kept(fs, y, a, S \ {k.cache[n]}, D \ {k.cache[n]}, V) /\ SameShape(z, y)
      /\ y.cache = z.cache /\ Survives(z, y)
  BY ONLY <1>4, <1>8, ElementFreedKept
<1> QED BY <1>3, <1>5, <1>9 DEF SameShape, CacheLess, Survives, rest

\* The element a full cache gives up.
Oldest(k) == IF k.max # 0 /\ Len(k.cache) = k.max THEN {k.cache[1]} ELSE {}

\* An element comes to the cache.
CacheMore(k, g, y) ==
    /\ Oldest(k) \subseteq ToSet(k.cache)
    /\ ToSet(y.cache) = (ToSet(k.cache) \ Oldest(k)) \cup {g}
    /\ y.cache # <<>> /\ Last(y.cache) = g
    /\ Oldest(k) = {} => y.heap = k.heap /\ y.map = k.map /\ y.cache = Append(k.cache, g)

LEMMA CachePutKept ==
    ASSUME NEW fs, NEW k, NEW a, NEW S, NEW D, NEW V, Kept(fs, k, a, S, D, V),
           NEW g \in Nat, g \notin ToSet(k.cache),
           NEW y, y = CachePut(k, g)
    PROVE  /\ Kept(fs, y, a, S \ Oldest(k), D \ Oldest(k), V) /\ SameShape(k, y)
           /\ CacheMore(k, g, y) /\ Survives(k, y)
<1> DEFINE full == k.max # 0 /\ Len(k.cache) = k.max
           z == IF full THEN CacheRemoved(k, 1) ELSE k
<1>1. k.cache \in Seq(Nat) /\ IsInjective(k.cache) /\ Len(k.cache) \in Nat /\ DOMAIN k.cache = 1..Len(k.cache)
  BY LenProperties DEF Kept
<1>2. /\ Kept(fs, z, a, S \ Oldest(k), D \ Oldest(k), V) /\ SameShape(k, z)
      /\ Oldest(k) \subseteq ToSet(k.cache)
      /\ ToSet(z.cache) = ToSet(k.cache) \ Oldest(k)
      /\ Oldest(k) = {} => z = k
      /\ Survives(k, z)
  <2>1. CASE full
    <3>1. 1 \in DOMAIN k.cache /\ Oldest(k) = {k.cache[1]}
      BY <1>1, <2>1 DEF Oldest
    <3>2. Oldest(k) \subseteq ToSet(k.cache)
      BY <3>1 DEF ToSet
    <3>3. z = CacheRemoved(k, 1)
      BY <2>1
    <3> HIDE DEF z, full
    <3>4. 1 \in DOMAIN k.cache /\ Kept(fs, k, a, S, D, V)
      BY <3>1
    <3>5. /\ Kept(fs, z, a, S \ {k.cache[1]}, D \ {k.cache[1]}, V) /\ SameShape(k, z)
          /\ CacheLess(k, k.cache[1], z) /\ Survives(k, z)
      BY ONLY <3>3, <3>4, CacheRemovedKept
    <3> QED BY <3>1, <3>2, <3>5 DEF CacheLess
  <2>2. CASE ~full
    <3>1. Oldest(k) = {} /\ z = k
      BY <2>2 DEF Oldest
    <3>2. S \ {} = S /\ D \ {} = D /\ ToSet(k.cache) \ {} = ToSet(k.cache)
      OBVIOUS
    <3> QED BY <3>1, <3>2 DEF SameShape, Survives
  <2> QED BY <2>1, <2>2
<1>3. y = [z EXCEPT !.cache = Append(@, g)]
  BY DEF CachePut
<1> HIDE DEF z, full
<1> DEFINE cache == Append(z.cache, g)
<1>4. y = [heap |-> z.heap, cache |-> cache, max |-> z.max, map |-> z.map,
           block |-> z.block, noSimpl |-> z.noSimpl]
  BY <1>2, <1>3 DEF Kept, Mapped, Knowing
<1>5. z.cache \in Seq(Nat) /\ IsInjective(z.cache) /\ g \notin ToSet(z.cache)
  BY <1>2 DEF Kept
<1>6. /\ cache \in Seq(Nat) /\ IsInjective(cache) /\ ToSet(cache) = ToSet(z.cache) \cup {g}
  BY <1>5, AppendProperties, AppendedInjective, ToSetAppend
<1>7. cache # <<>> /\ Last(cache) = g
  <2>1. Len(cache) = Len(z.cache) + 1 /\ cache[Len(z.cache) + 1] = g /\ Len(z.cache) \in Nat
    BY <1>5, AppendProperties, LenProperties
  <2>2. Last(cache) = cache[Len(cache)]
    BY DEF Last
  <2>3. Len(<<>>) = 0
    OBVIOUS
  <2> HIDE DEF cache
  <2> QED BY <2>1, <2>2, <2>3
<1> HIDE DEF cache
<1>8. /\ y.heap = z.heap /\ y.cache = cache /\ y.max = z.max /\ y.map = z.map
      /\ y.block = z.block /\ y.noSimpl = z.noSimpl
  BY <1>4
<1>9. Knowing(y)
  BY <1>4, <1>8 DEF Knowing
<1>10. Mapped(fs, y, a, S \ Oldest(k))
  BY <1>2, <1>8, <1>9, MappedMoves DEF Kept, Plain
<1>11. Kept(fs, y, a, S \ Oldest(k), D \ Oldest(k), V)
  BY <1>2, <1>6, <1>8, <1>10 DEF Kept
<1> QED BY <1>2, <1>6, <1>7, <1>8, <1>11 DEF SameShape, CacheMore, Survives, cache

\* Between two calls: the lists are for what the cache holds, and that is
\* what exists.
Whole(fs, k, a, V) == Kept(fs, k, a, ToSet(k.cache), ToSet(k.cache), V)

\* Another cache, and nothing else.
LEMMA CacheAnew ==
    ASSUME NEW fs, NEW k, NEW a, NEW S, NEW D, NEW V, Kept(fs, k, a, S, D, V),
           NEW cache \in Seq(Nat), IsInjective(cache),
           NEW y, y = [k EXCEPT !.cache = cache]
    PROVE  /\ Kept(fs, y, a, S, D, V) /\ y.cache = cache
           /\ y.heap = k.heap /\ y.map = k.map /\ y.block = k.block /\ SameShape(k, y)
<1>1. y = [heap |-> k.heap, cache |-> cache, max |-> k.max, map |-> k.map,
           block |-> k.block, noSimpl |-> k.noSimpl]
  BY DEF Kept, Mapped, Knowing
<1>2. /\ y.heap = k.heap /\ y.cache = cache /\ y.max = k.max /\ y.map = k.map
      /\ y.block = k.block /\ y.noSimpl = k.noSimpl
  BY <1>1
<1>3. Knowing(y)
  BY <1>1, <1>2 DEF Knowing
<1>4. Mapped(fs, y, a, S)
  BY <1>2, <1>3, MappedMoves DEF Kept, Plain
<1> QED BY <1>2, <1>4 DEF Kept, SameShape

LEMMA CacheHitKept ==
    ASSUME NEW fs, NEW k, NEW a, NEW V, Whole(fs, k, a, V), NEW g \in ToSet(k.cache),
           NEW y, y = CacheHit(k, g)
    PROVE  /\ Whole(fs, y, a, V) /\ SameShape(k, y)
           /\ y.heap = k.heap /\ y.map = k.map /\ y.cache # <<>> /\ Last(y.cache) = g
<1> DEFINE rest == RemoveFirst(k.cache, g)
           cache == Append(rest, g)
<1>1. k.cache \in Seq(Nat) /\ IsInjective(k.cache) /\ g \in Nat
  <2>1. k.cache \in Seq(Nat) /\ IsInjective(k.cache)
    BY DEF Whole, Kept
  <2> QED BY <2>1, ToSetEmpty
<1>2. rest \in Seq(Nat) /\ IsInjective(rest) /\ ToSet(rest) = ToSet(k.cache) \ {g}
  BY <1>1, RemoveFirstIs
<1>3. y = [k EXCEPT !.cache = cache]
  BY DEF CacheHit
<1> HIDE DEF rest
<1>4. cache \in Seq(Nat) /\ IsInjective(cache) /\ ToSet(cache) = ToSet(rest) \cup {g}
  BY <1>1, <1>2, AppendProperties, AppendedInjective, ToSetAppend
<1>5. cache # <<>> /\ Last(cache) = g
  <2>1. Len(cache) = Len(rest) + 1 /\ cache[Len(rest) + 1] = g /\ Len(rest) \in Nat
    BY <1>1, <1>2, AppendProperties, LenProperties
  <2>2. Last(cache) = cache[Len(cache)]
    BY DEF Last
  <2>3. Len(<<>>) = 0
    OBVIOUS
  <2> HIDE DEF cache
  <2> QED BY <2>1, <2>2, <2>3
<1>6. ToSet(cache) = ToSet(k.cache)
  BY <1>2, <1>4
<1> HIDE DEF cache
<1>7. Kept(fs, k, a, ToSet(k.cache), ToSet(k.cache), V)
  BY DEF Whole
<1>8. /\ Kept(fs, y, a, ToSet(k.cache), ToSet(k.cache), V) /\ y.cache = cache
      /\ y.heap = k.heap /\ y.map = k.map /\ SameShape(k, y)
  BY ONLY <1>3, <1>4, <1>7, CacheAnew
<1> QED BY <1>5, <1>6, <1>8 DEF Whole

-----------------------------------------------------------------------------
(* The whole cache is given up                                             *)

\* The first n groups of a vector.
FirstOf(seq, n) == {seq[i] : i \in 1..n}

FreeStep(p, y, g) == ElementFreed(y, g)

FreedAt(p, n, y) ==
    /\ Kept(p.fz, y, p.a, p.S \ FirstOf(p.seq, n), p.D \ FirstOf(p.seq, n), p.V)
    /\ SameShape(p.k, y) /\ y.cache = <<>>

Freeing == INSTANCE SeqLemmas WITH FoldOp <- FreeStep, FoldAt <- FreedAt

LEMMA FrontIs ==
    ASSUME NEW T, NEW seq \in Seq(T)
    PROVE  /\ FirstOf(seq, 0) = {} /\ FirstOf(seq, Len(seq)) = ToSet(seq)
           /\ \A n \in 1..Len(seq) : FirstOf(seq, n) = FirstOf(seq, n - 1) \cup {seq[n]}
<1>1. Len(seq) \in Nat /\ DOMAIN seq = 1..Len(seq)
  BY LenProperties
<1>2. FirstOf(seq, 0) = {}
  <2>1. 1..0 = {}
    OBVIOUS
  <2> QED BY <2>1 DEF FirstOf
<1>3. FirstOf(seq, Len(seq)) = ToSet(seq)
  BY <1>1 DEF FirstOf, ToSet
<1>4. ASSUME NEW n \in 1..Len(seq) PROVE FirstOf(seq, n) = FirstOf(seq, n - 1) \cup {seq[n]}
  <2>1. 1..n = (1..n - 1) \cup {n}
    BY <1>1
  <2> QED BY <2>1 DEF FirstOf
<1> QED BY <1>2, <1>3, <1>4

LEMMA CacheClearedKept ==
    ASSUME NEW fs, NEW k, NEW a, NEW S, NEW D, NEW V, Kept(fs, k, a, S, D, V),
           NEW y, y = CacheCleared(k)
    PROVE  /\ Kept(fs, y, a, S \ ToSet(k.cache), D \ ToSet(k.cache), V)
           /\ SameShape(k, y) /\ y.cache = <<>>
<1> DEFINE p == [fz |-> fs, k |-> k, a |-> a, S |-> S, D |-> D, V |-> V, seq |-> k.cache]
           start == [k EXCEPT !.cache = <<>>]
           seq == k.cache
<1>1. /\ p.fz = fs /\ p.k = k /\ p.a = a /\ p.S = S /\ p.D = D /\ p.V = V /\ p.seq = seq
  OBVIOUS
<1>2. y = Freeing!Folded(p, start, seq)
  BY DEF CacheCleared, FoldLeft, MapThenFoldSet, Freeing!Folded, Freeing!IterEq,
         Freeing!Largest, Max, FreeStep
<1> HIDE DEF p
<1>3. seq \in Seq(Nat) /\ Len(seq) \in Nat
  BY LenProperties DEF Kept
<1>4. FreedAt(p, 0, start)
  <2>1. <<>> \in Seq(Nat) /\ IsInjective(<<>>)
    BY DEF IsInjective
  <2>2. start = [k EXCEPT !.cache = <<>>]
    OBVIOUS
  <2> DEFINE none == <<>>
  <2>3. none \in Seq(Nat) /\ IsInjective(none) /\ start = [k EXCEPT !.cache = none]
    BY <2>1
  <2> HIDE DEF none, start
  <2>4. Kept(fs, start, a, S, D, V) /\ start.cache = none /\ SameShape(k, start)
    BY ONLY <2>3, Kept(fs, k, a, S, D, V), CacheAnew
  <2>5. FirstOf(p.seq, 0) = {}
    BY <1>1, <1>3, FrontIs
  <2>6. S \ {} = S /\ D \ {} = D
    OBVIOUS
  <2> QED BY <1>1, <2>4, <2>5, <2>6 DEF FreedAt, none
<1> HIDE DEF start, seq
<1>5. ASSUME NEW z, NEW n \in 1..Len(seq), FreedAt(p, n - 1, z)
      PROVE  FreedAt(p, n, FreeStep(p, z, seq[n]))
  <2> DEFINE w == ElementFreed(z, seq[n])
             T == S \ FirstOf(seq, n - 1)
             E == D \ FirstOf(seq, n - 1)
             g == seq[n]
  <2>1. Kept(fs, z, a, T, E, V) /\ SameShape(k, z) /\ z.cache = <<>> /\ w = ElementFreed(z, g)
    BY <1>1, <1>5 DEF FreedAt
  <2>2. T \ {g} = S \ FirstOf(seq, n) /\ E \ {g} = D \ FirstOf(seq, n)
    <3>1. FirstOf(seq, n) = FirstOf(seq, n - 1) \cup {seq[n]}
      BY <1>3, FrontIs
    <3> QED BY <3>1
  <2> HIDE DEF w, T, E, g
  <2>3. Kept(fs, w, a, T \ {g}, E \ {g}, V) /\ SameShape(z, w) /\ w.cache = z.cache
    BY ONLY <2>1, ElementFreedKept
  <2>4. SameShape(k, w)
    BY <2>1, <2>3 DEF SameShape
  <2>5. FreeStep(p, z, seq[n]) = w
    BY DEF FreeStep, w
  <2> QED BY <1>1, <2>1, <2>2, <2>3, <2>4, <2>5 DEF FreedAt
<1>6. FreedAt(p, Len(seq), y)
  BY <1>2, <1>3, <1>4, <1>5, Freeing!FoldsAlong
<1>7. FirstOf(p.seq, Len(seq)) = ToSet(k.cache)
  BY <1>1, <1>3, FrontIs DEF seq
<1> QED BY <1>1, <1>6, <1>7 DEF FreedAt

-----------------------------------------------------------------------------
(* The cache shrinks                                                       *)

LEMMA CacheRemovedWhole ==
    ASSUME NEW fs, NEW k, NEW a, NEW V, Whole(fs, k, a, V), NEW n \in DOMAIN k.cache,
           NEW y, y = CacheRemoved(k, n)
    PROVE  Whole(fs, y, a, V) /\ SameShape(k, y) /\ CacheLess(k, k.cache[n], y)
           /\ Survives(k, y) /\ Len(y.cache) = Len(k.cache) - 1
<1> DEFINE S == ToSet(k.cache)
           g == k.cache[n]
<1>1. Kept(fs, k, a, S, S, V)
  BY DEF Whole
<1>2. y = CacheRemoved(k, n)
  OBVIOUS
<1> HIDE DEF S
<1>3. /\ Kept(fs, y, a, S \ {k.cache[n]}, S \ {k.cache[n]}, V) /\ SameShape(k, y)
      /\ CacheLess(k, k.cache[n], y) /\ Survives(k, y) /\ Len(y.cache) = Len(k.cache) - 1
  BY ONLY <1>1, <1>2, n \in DOMAIN k.cache, CacheRemovedKept, ZenonT(60)
<1>4. ToSet(y.cache) = S \ {k.cache[n]}
  BY <1>3 DEF CacheLess, S
<1> QED BY <1>3, <1>4 DEF Whole

ShrinkStep(p, y, g) == CacheRemoved(y, 1)

ShrunkAt(p, n, y) ==
    /\ Whole(p.fz, y, p.a, p.V) /\ Len(y.cache) = Len(p.k.cache) - n
    /\ Len(y.map) = Len(p.k.map) /\ y.noSimpl = p.k.noSimpl
    /\ Survives(p.k, y)

Shrinking == INSTANCE SeqLemmas WITH FoldOp <- ShrinkStep, FoldAt <- ShrunkAt

LEMMA CacheResizedWhole ==
    ASSUME NEW fs, NEW k, NEW a, NEW V, Whole(fs, k, a, V), NEW limit \in Nat,
           NEW y, y = CacheResized(k, limit)
    PROVE  Whole(fs, y, a, V) /\ Len(y.map) = Len(k.map) /\ y.noSimpl = k.noSimpl
           /\ Survives(k, y) /\ (k.cache = <<>> => y.cache = <<>>)
<1> DEFINE more == IF Len(k.cache) > limit THEN Len(k.cache) - limit ELSE 0
           seq == SubSeq(k.cache, 1, more)
           start == [k EXCEPT !.max = limit]
           p == [fz |-> fs, k |-> k, a |-> a, V |-> V]
<1>1. p.fz = fs /\ p.k = k /\ p.a = a /\ p.V = V
  OBVIOUS
<1>2. CASE limit = 0
  <2>1. y = k
    BY <1>2 DEF CacheResized
  <2> QED BY <2>1 DEF Survives
<1>3. CASE limit # 0
  <2>1. y = Shrinking!Folded(p, start, seq)
    BY <1>3 DEF CacheResized, FoldLeft, MapThenFoldSet, Shrinking!Folded, Shrinking!IterEq,
                Shrinking!Largest, Max, ShrinkStep
  <2> HIDE DEF p
  <2>2. k.cache \in Seq(Nat) /\ Len(k.cache) \in Nat
    BY LenProperties DEF Whole, Kept
  <2>3. more \in 0..Len(k.cache)
    BY <2>2
  <2> HIDE DEF more
  <2>4. seq \in Seq(Nat) /\ Len(seq) = more
    BY <2>2, <2>3, SubSeqProperties
  <2>5. ShrunkAt(p, 0, start)
    <3>1. start = [heap |-> k.heap, cache |-> k.cache, max |-> limit, map |-> k.map,
                   block |-> k.block, noSimpl |-> k.noSimpl]
      <4>1. PICK h, l, m, q, b, d : k = [heap |-> h, cache |-> l, max |-> m, map |-> q,
                                         block |-> b, noSimpl |-> d]
        BY DEF Whole, Kept, Mapped, Knowing
      <4>2. start = [heap |-> h, cache |-> l, max |-> limit, map |-> q, block |-> b, noSimpl |-> d]
        BY ONLY <4>1 DEF start
      <4> QED BY ONLY <4>1, <4>2
    <3> HIDE DEF start
    <3>2. /\ start.heap = k.heap /\ start.cache = k.cache /\ start.max = limit /\ start.map = k.map
          /\ start.block = k.block /\ start.noSimpl = k.noSimpl
      BY <3>1
    <3>3. Knowing(start)
      BY <3>1, <3>2 DEF Knowing
    <3>4. Mapped(fs, start, a, ToSet(k.cache))
      BY <3>2, <3>3, MappedMoves DEF Whole, Kept, Plain
    <3>5. Whole(fs, start, a, V)
      BY <3>2, <3>4 DEF Whole, Kept
    <3> QED BY <1>1, <2>2, <3>2, <3>5 DEF ShrunkAt, Survives
  <2> HIDE DEF start, seq
  <2>6. ASSUME NEW z, NEW n \in 1..Len(seq), ShrunkAt(p, n - 1, z)
        PROVE  ShrunkAt(p, n, ShrinkStep(p, z, seq[n]))
    <3> DEFINE w == CacheRemoved(z, 1)
    <3>1. Whole(fs, z, a, V) /\ Len(z.cache) = Len(k.cache) - (n - 1)
      BY <1>1, <2>6 DEF ShrunkAt
    <3>2. 1 \in DOMAIN z.cache
      <4>1. z.cache \in Seq(Nat) /\ DOMAIN z.cache = 1..Len(z.cache)
        BY <3>1, LenProperties DEF Whole, Kept
      <4>2. Len(z.cache) >= 1
        BY <2>2, <2>3, <2>4, <3>1
      <4> QED BY <4>1, <4>2
    <3>3. w = CacheRemoved(z, 1)
      OBVIOUS
    <3> HIDE DEF w
    <3>4. Whole(fs, w, a, V) /\ SameShape(z, w) /\ Survives(z, w) /\ Len(w.cache) = Len(z.cache) - 1
      BY ONLY <3>1, <3>2, <3>3, CacheRemovedWhole
    <3>5. Len(w.cache) = Len(k.cache) - n
      BY <2>2, <2>3, <2>4, <3>1, <3>4
    <3>6. ShrinkStep(p, z, seq[n]) = w
      BY <3>3 DEF ShrinkStep
    <3>7. Survives(k, w)
      BY <1>1, <2>6, <3>4 DEF ShrunkAt, Survives
    <3> QED BY <1>1, <2>6, <3>4, <3>5, <3>6, <3>7 DEF ShrunkAt, SameShape
  <2>7. ShrunkAt(p, Len(seq), y)
    BY <2>1, <2>4, <2>5, <2>6, Shrinking!FoldsAlong
  <2>8. k.cache = <<>> => y.cache = <<>>
    <3>1. y.cache \in Seq(Nat) /\ Len(y.cache) = Len(k.cache) - more
      BY <1>1, <2>4, <2>7 DEF ShrunkAt, Whole, Kept
    <3>2. Len(<<>>) = 0
      OBVIOUS
    <3>3. k.cache = <<>> => Len(y.cache) = 0
      BY <2>2, <2>3, <3>1, <3>2
    <3> QED BY <3>1, <3>3, EmptySeq
  <2> QED BY <1>1, <2>7, <2>8 DEF ShrunkAt
<1> QED BY <1>2, <1>3

\* Nothing is known any more.
LEMMA ControllerClearedKept ==
    ASSUME NEW fs, NEW k, NEW a, NEW V, Whole(fs, k, a, V),
           NEW y, y = ControllerCleared(k)
    PROVE  Whole(fs, y, a, V) /\ y.cache = <<>> /\ y.map = <<>> /\ y.noSimpl = k.noSimpl
<1> DEFINE z == CacheCleared(k)
           S == ToSet(k.cache)
<1>1. Kept(fs, k, a, S, S, V) /\ z = CacheCleared(k)
  BY DEF Whole
<1>2. y = MapCleared(z)
  BY DEF ControllerCleared
<1> HIDE DEF z
<1>3. Kept(fs, z, a, S \ S, S \ S, V) /\ SameShape(k, z) /\ z.cache = <<>>
  <2> DEFINE T == S
  <2>1. Kept(fs, k, a, T, T, V)
    BY <1>1
  <2> HIDE DEF T
  <2>2. Kept(fs, z, a, T \ ToSet(k.cache), T \ ToSet(k.cache), V) /\ SameShape(k, z) /\ z.cache = <<>>
    BY ONLY <1>1, <2>1, CacheClearedKept
  <2> QED BY <2>2 DEF T
<1>4. S \ S = {} /\ ToSet(<<>>) = {}
  BY DEF ToSet
<1>5. Knowing(y) /\ Carried(a.rule, y) /\ y.map = <<>> /\ SameBut(z, y)
  <2>1. Knowing(z) /\ Carried(a.rule, z)
    BY <1>3 DEF Kept, Mapped
  <2> QED BY ONLY <1>2, <2>1, MapClearedIs
<1>6. Mapped(fs, y, a, {})
  <2>1. DOMAIN y.map = {}
    BY <1>5
  <2> QED BY <1>5, <2>1 DEF Mapped
<1>7. y.heap = z.heap /\ y.cache = <<>>
  BY <1>3, <1>5 DEF SameBut
<1>8. Kept(fs, y, a, {}, {}, V)
  BY <1>3, <1>4, <1>6, <1>7 DEF Kept
<1> QED BY <1>3, <1>4, <1>5, <1>7, <1>8 DEF Whole, SameBut, SameShape

-----------------------------------------------------------------------------
(* Pointers and vectors                                                    *)

\* Finitely many places hold finitely many elements.
LEMMA PlacesFinite ==
    ASSUME NEW f, NEW n \in Nat, f = [i \in 1..n |-> f[i]]
    PROVE  IsFiniteSet({f[i] : i \in 1..n})
<1> DEFINE T == {f[i] : i \in 1..n}
<1>1. f \in Surjection(1..n, T)
  BY DEF Surjection
<1>2. IsFiniteSet(1..n)
  BY FS_Interval
<1> QED BY <1>1, <1>2, FS_Surjection

\* What a vector has is finite.
LEMMA ToSetFinite ==
    ASSUME NEW T, NEW s \in Seq(T)
    PROVE  IsFiniteSet(ToSet(s))
<1>1. Len(s) \in Nat /\ DOMAIN s = 1..Len(s) /\ s = [i \in 1..Len(s) |-> s[i]]
  BY LenProperties
<1>2. ToSet(s) = {s[i] : i \in 1..Len(s)}
  BY <1>1 DEF ToSet
<1> QED BY <1>1, <1>2, PlacesFinite

\* A pointer that is new.
LEMMA FreshGroupIs ==
    ASSUME NEW k, IsFiniteSet(DOMAIN k.heap)
    PROVE  FreshGroup(k) \in Nat /\ FreshGroup(k) \notin DOMAIN k.heap
<1> DEFINE S == DOMAIN k.heap
           n == Cardinality(S) + 1
<1>1. n \in Nat /\ Cardinality(S) \in Nat
  BY FS_CardinalityType
<1>2. Cardinality(1..n) = n
  BY <1>1, FS_Interval
<1>3. ~(1..n \subseteq S)
  <2>1. 1..n \in SUBSET S => Cardinality(1..n) <= Cardinality(S)
    BY FS_Subset
  <2> QED BY <1>1, <1>2, <2>1
<1>4. \E g \in 1..n : g \notin S
  BY <1>3
<1>5. FreshGroup(k) \in 1..n /\ FreshGroup(k) \notin S
  BY <1>4 DEF FreshGroup
<1> QED BY <1>1, <1>5

-----------------------------------------------------------------------------
(* Learning                                                                *)

\* A claim that goes with the way rules are made.
Suits(a, k) ==
    /\ k.noSimpl /\ a.speaks => a.single
    /\ ~k.noSimpl => ~a.single

\* Another heap, and nothing else.
Reheaped(k, heap) == [heap |-> heap, cache |-> k.cache, max |-> k.max, map |-> k.map,
                      block |-> k.block, noSimpl |-> k.noSimpl]

LEMMA ReheapedIs ==
    ASSUME NEW k, NEW heap, NEW y, y = Reheaped(k, heap)
    PROVE  /\ Knowing(y) /\ y.heap = heap /\ y.cache = k.cache /\ y.map = k.map
           /\ y.block = k.block /\ SameShape(k, y)
<1>1. /\ y.heap = heap /\ y.cache = k.cache /\ y.max = k.max /\ y.map = k.map
      /\ y.block = k.block /\ y.noSimpl = k.noSimpl
  BY DEF Reheaped
<1> QED BY <1>1 DEF Knowing, Reheaped, SameShape

\* One more group, which nobody refers to yet.
Beside(D, k, g, v, y) == y.heap[g] = v /\ \A h \in D : y.heap[h] = k.heap[h]

LEMMA PlacedKept ==
    ASSUME NEW fs, NEW k, NEW a, NEW S, NEW D, NEW V, Kept(fs, k, a, S, D, V),
           NEW g, g \notin D, NEW v \in V, NEW y, y = Placed(k, g, v)
    PROVE  /\ Kept(fs, y, a, S, D \cup {g}, V) /\ SameShape(k, y) /\ y.cache = k.cache
           /\ y.map = k.map /\ Beside(D, k, g, v, y)
<1> DEFINE heap == [h \in DOMAIN k.heap \cup {g} |-> IF h = g THEN v ELSE k.heap[h]]
<1>1. y = Reheaped(k, heap)
  BY DEF Placed, Reheaped, Kept, Mapped, Knowing
<1>2. heap \in [D \cup {g} -> V] /\ heap[g] = v /\ \A h \in D : heap[h] = k.heap[h]
  BY DEF Kept
<1> HIDE DEF heap
<1>3. /\ Knowing(y) /\ y.heap = heap /\ y.cache = k.cache /\ y.map = k.map
      /\ y.block = k.block /\ SameShape(k, y)
  BY ONLY <1>1, ReheapedIs
<1>4. Mapped(fs, y, a, S)
  <2>1. a.speaks => \A h \in S : Head(k.heap[h]) = Head(y.heap[h])
    BY <1>2, <1>3 DEF Kept
  <2> QED BY <1>3, <2>1, MappedMoves DEF Kept, Plain
<1>5. y.heap \in [D \cup {g} -> V]
  BY ONLY <1>2, <1>3
<1>6. Kept(fs, y, a, S, D \cup {g}, V)
  BY <1>3, <1>4, <1>5 DEF Kept
<1>7. Beside(D, k, g, v, y)
  BY ONLY <1>2, <1>3 DEF Beside
<1> QED BY ONLY <1>3, <1>6, <1>7

\* One group more, and perhaps others less.
Put(y, g, v, w) ==
    /\ ToSet(w.cache) \subseteq ToSet(y.cache) \cup {g}
    /\ \A h \in ToSet(w.cache) : w.heap[h] = IF h = g THEN v ELSE y.heap[h]

LEMMA NewGroupWhole ==
    ASSUME NEW fs, Variables(fs), NEW k, NEW a, NEW V, Whole(fs, k, a, V), Suits(a, k),
           Len(k.map) <= Len(fs.outTerms), NEW m, GroupHit(fs, <<>>, m, TRUE)[1] \in V,
           NEW y, y = NewGroup(fs, k, m)
    PROVE  /\ Whole(fs, y, a, V) /\ SameShape(k, y)
           /\ FreshGroup(k) \notin ToSet(k.cache)
           /\ Put(k, FreshGroup(k), GroupHit(fs, <<>>, m, TRUE)[1], y)
<1> DEFINE g == FreshGroup(k)
           v == GroupHit(fs, <<>>, m, TRUE)[1]
           S == ToSet(k.cache)
           z == Placed(k, g, v)
           w == Come(fs, z, g)
<1>1. Kept(fs, k, a, S, S, V) /\ k.heap \in [S -> V] /\ IsFiniteSet(S)
  BY ToSetFinite DEF Whole, Kept
<1>2. g \in Nat /\ g \notin S
  BY <1>1, FreshGroupIs
<1>3. y = CachePut(w, g)
  BY DEF NewGroup, Come
<1>4. z = Placed(k, g, v) /\ w = Come(fs, z, g) /\ v \in V
  OBVIOUS
<1> HIDE DEF g, v, z, w
<1>5. /\ Kept(fs, z, a, S, S \cup {g}, V) /\ SameShape(k, z) /\ z.cache = k.cache
      /\ z.map = k.map /\ Beside(S, k, g, v, z)
  <2>1. Kept(fs, k, a, S, S, V) /\ g \notin S /\ v \in V /\ z = Placed(k, g, v)
    BY <1>1, <1>2, <1>4
  <2> HIDE DEF S
  <2> QED BY ONLY <2>1, PlacedKept
<1>6. Mapped(fs, w, a, S \cup {g}) /\ SameBut(z, w) /\ Len(w.map) = Len(z.map)
  <2>1. Mapped(fs, z, a, S) /\ Len(z.map) <= Len(fs.outTerms)
    BY <1>5 DEF Kept
  <2>2. ~z.noSimpl => a.but = {} /\ ~a.single
    BY <1>1, <1>5 DEF Kept, Plain, Suits, SameShape
  <2>3. g \in Nat /\ g \notin S /\ w = Come(fs, z, g)
    BY <1>2, <1>4
  <2> HIDE DEF S
  <2> QED BY ONLY <2>1, <2>2, <2>3, Variables(fs), GroupCome
<1>7. Kept(fs, w, a, S \cup {g}, S \cup {g}, V) /\ w.cache = k.cache /\ w.heap = z.heap
  BY <1>5, <1>6 DEF Kept, SameBut
<1> DEFINE E == S \cup {g}
<1>8. Kept(fs, w, a, E, E, V) /\ g \notin ToSet(w.cache)
  BY <1>2, <1>7
<1> HIDE DEF E
<1>9. /\ Kept(fs, y, a, E \ Oldest(w), E \ Oldest(w), V) /\ SameShape(w, y)
      /\ CacheMore(w, g, y) /\ Survives(w, y)
  BY ONLY <1>2, <1>3, <1>8, CachePutKept
<1>10. ToSet(y.cache) = E \ Oldest(w)
  BY <1>2, <1>7, <1>9 DEF E, CacheMore
<1>11. ASSUME NEW h \in ToSet(y.cache) PROVE y.heap[h] = IF h = g THEN v ELSE k.heap[h]
  <2>1. h \in DOMAIN y.heap
    BY <1>9, <1>10 DEF Kept
  <2>2. y.heap[h] = z.heap[h]
    BY <1>7, <1>9, <2>1 DEF Survives
  <2>3. h = g \/ h \in S
    BY <1>10 DEF E
  <2> QED BY <1>5, <2>2, <2>3 DEF Beside
<1>12. Put(k, g, v, y)
  BY <1>10, <1>11 DEF Put, E
<1>13. FreshGroup(k) \notin ToSet(k.cache) /\ Put(k, FreshGroup(k), GroupHit(fs, <<>>, m, TRUE)[1], y)
  BY <1>2, <1>12 DEF g, v
<1>14. Whole(fs, y, a, V) /\ SameShape(k, y)
  BY <1>5, <1>6, <1>9, <1>10 DEF Whole, SameShape, SameBut
<1> QED BY <1>13, <1>14

\* A group with a rule group of its own needs no one to speak for it.
LEMMA SingleMapped ==
    ASSUME NEW fs, NEW k, NEW a, NEW b, NEW S, Mapped(fs, k, b, S),
           a.speaks = b.speaks, a.rule = b.rule, a.single = b.single, Plain(a),
           a.speaks => a.single
    PROVE  Mapped(fs, k, a, S)
<1>1. ASSUME NEW c, NEW rg \in RuleGroup, Good(c, b, rg) PROVE Good(c, a, rg)
  <2>1. ASSUME a.speaks PROVE Speaks(c, a.but, rg)
    <3>1. Len(rg.obs) = 1 /\ rg.obs \in Seq(Nat) /\ Speaks(c, b.but, rg)
      BY <1>1, <2>1 DEF Good, RuleGroup
    <3>2. \A g \in Obs(rg), h \in Obs(rg) : g = h
      BY <3>1, LenProperties DEF Obs, ToSet
    <3>3. \A g \in Obs(rg), h \in Obs(rg) :
             /\ SameOn(c.fz, First(c, g), First(c, h), Enabled(c.fz) \cap rg.relevant)
             /\ OutputEquals(c.fz, First(c, g), First(c, h), c.out)
      BY <3>2, SameOnIs, OutputEqualsIs
    <3> QED BY <3>1, <3>3 DEF Speaks
  <2> QED BY <1>1, <2>1 DEF Good, Plain
<1>2. ASSUME NEW n \in DOMAIN k.map PROVE Listed(Context(fs, k, n), a, S, k.map[n])
  <2>1. Listed(Context(fs, k, n), b, S, k.map[n])
    BY DEF Mapped
  <2>2. \A r \in DOMAIN k.map[n] : k.map[n][r] \in RuleGroup
    BY <2>1, LenProperties, ElementOfSeq DEF Listed
  <2> QED BY <1>1, <2>1, <2>2 DEF Listed
<1> QED BY <1>2 DEF Mapped

\* The claim but for one group.
Except(a, g) == [speaks |-> a.speaks, fresh |-> {}, but |-> {g}, single |-> a.single, rule |-> a.rule]

LEMMA ExceptIs ==
    ASSUME NEW a, NEW g, NEW b, b = Except(a, g)
    PROVE  /\ b.speaks = a.speaks /\ b.fresh = {} /\ b.but = {g} /\ b.single = a.single
           /\ b.rule = a.rule
BY DEF Except

\* The observations of one group change.
Changed(k, g, v) == [k EXCEPT !.heap[g] = v]

LEMMA ChangedMapped ==
    ASSUME NEW fs, NEW k, NEW a, NEW S, NEW D, NEW V, Kept(fs, k, a, S, D, V),
           NEW g \in D, NEW v \in V, a.speaks => Head(v).in = Head(k.heap[g]).in,
           NEW b, b = Except(a, g), NEW y, y = Changed(k, g, v)
    PROVE  /\ Mapped(fs, y, b, S) /\ SameShape(k, y) /\ y.cache = k.cache
           /\ y.heap \in [D -> V] /\ y.map = k.map /\ y.block = k.block
           /\ Knowing(y) /\ y.heap = [k.heap EXCEPT ![g] = v]
<1> DEFINE heap == [k.heap EXCEPT ![g] = v]
<1>1. y = Reheaped(k, heap)
  BY DEF Changed, Reheaped, Kept, Mapped, Knowing
<1>2. /\ heap \in [D -> V] /\ heap[g] = v
      /\ \A h \in D : h # g => heap[h] = k.heap[h]
  BY DEF Kept
<1> HIDE DEF heap
<1>3. /\ Knowing(y) /\ y.heap = heap /\ y.cache = k.cache /\ y.map = k.map
      /\ y.block = k.block /\ SameShape(k, y)
  BY ONLY <1>1, ReheapedIs
<1>4. /\ b.speaks = a.speaks /\ b.fresh = {} /\ b.but = {g} /\ b.single = a.single
      /\ b.rule = a.rule
  BY ExceptIs
<1>5. a.but \subseteq b.but
  BY DEF Kept, Plain
<1>6. a.speaks => \A h \in S : /\ Head(k.heap[h]).in = Head(y.heap[h]).in
                               /\ h \notin b.but => Head(k.heap[h]) = Head(y.heap[h])
  BY <1>2, <1>3, <1>4 DEF Kept
<1>7. Mapped(fs, k, a, S)
  BY DEF Kept
<1>8. Mapped(fs, y, b, S)
  BY ONLY <1>3, <1>4, <1>5, <1>6, <1>7, MappedMoves
<1>9. y.heap = [k.heap EXCEPT ![g] = v]
  BY <1>3 DEF heap
<1> QED BY <1>2, <1>3, <1>8, <1>9

\* The group is what the measure has made of it.
Rehit(k, g, v, y) == y.heap = [k.heap EXCEPT ![g] = v]

\* A step of learning that was taken, or not: what is left half updated is
\* nothing anybody can speak for.
LEMMA TakenWhole ==
    ASSUME NEW fs, Variables(fs), NEW k, NEW a, NEW V, Whole(fs, k, a, V), Suits(a, k),
           Len(k.map) <= Len(fs.outTerms), NEW g \in ToSet(k.cache), NEW outcome,
           outcome[1] \in V, a.speaks => Head(outcome[1]).in = Head(k.heap[g]).in,
           outcome[3] => ~a.speaks,
           NEW y, y = Taken(fs, k, g, outcome)[1]
    PROVE  /\ Whole(fs, y, a, V) /\ SameShape(k, y)
           /\ Taken(fs, k, g, outcome)[2] \in BOOLEAN
           /\ Taken(fs, k, g, outcome)[2] <=> outcome[3]
           /\ Rehit(k, g, outcome[1], y)
<1> DEFINE S == ToSet(k.cache)
           v == outcome[1]
           z == Changed(k, g, v)
           b == Except(a, g)
           w == Balanced(fs, z, g)
<1>1. Kept(fs, k, a, S, S, V) /\ g \in S /\ S \subseteq Nat
  BY ToSetEmpty DEF Whole, Kept
<1>2. /\ outcome[3] => y = z
      /\ ~outcome[3] => y = CacheHit(IF z.noSimpl THEN z ELSE w, g)
      /\ Taken(fs, k, g, outcome)[2] \in BOOLEAN
      /\ Taken(fs, k, g, outcome)[2] <=> outcome[3]
  BY DEF Taken, Rebalanced, Balanced, Changed
<1>3. z = Changed(k, g, v) /\ b = Except(a, g) /\ w = Balanced(fs, z, g) /\ v \in V
  OBVIOUS
<1>4. a.speaks => Head(v).in = Head(k.heap[g]).in
  OBVIOUS
<1> HIDE DEF v, z, b, w, S
<1>5. /\ Mapped(fs, z, b, S) /\ SameShape(k, z) /\ z.cache = k.cache
      /\ z.heap \in [S -> V] /\ z.map = k.map /\ z.block = k.block /\ Knowing(z)
      /\ z.heap = [k.heap EXCEPT ![g] = v]
  BY ONLY <1>1, <1>3, <1>4, ChangedMapped
<1>6. /\ b.speaks = a.speaks /\ b.fresh = {} /\ b.but = {g} /\ b.single = a.single
      /\ b.rule = a.rule
  BY ONLY <1>3, ExceptIs
<1>7. Plain(a)
  BY <1>1 DEF Kept
<1>8. ASSUME a.speaks => a.single PROVE Whole(fs, z, a, V)
  <2>1. Mapped(fs, z, a, S)
    BY ONLY <1>5, <1>6, <1>7, <1>8, SingleMapped
  <2> QED BY <1>1, <1>5, <2>1 DEF Whole, Kept, S
<1>9. CASE outcome[3]
  <2>1. y = z /\ Whole(fs, z, a, V)
    BY <1>2, <1>8, <1>9
  <2> QED BY <1>2, <1>5, <2>1 DEF v, Rehit
<1>10. CASE ~outcome[3]
  <2> DEFINE u == IF z.noSimpl THEN z ELSE w
  <2>1. Whole(fs, u, a, V) /\ SameShape(k, u) /\ u.cache = k.cache /\ u.heap = z.heap
    <3>1. CASE z.noSimpl
      <4>1. a.speaks => a.single
        BY <1>5, <3>1 DEF Suits, SameShape
      <4> QED BY <1>5, <1>8, <3>1, <4>1
    <3>2. CASE ~z.noSimpl
      <4>1. ~a.single /\ Len(z.map) <= Len(fs.outTerms)
        BY <1>5, <3>2 DEF Suits, SameShape
      <4>2. g \in Nat /\ b.but \subseteq {g} /\ a.fresh \subseteq {g} /\ a.but = {}
        BY <1>1, <1>6, <1>7 DEF Plain
      <4>3. Mapped(fs, w, a, S) /\ SameBut(z, w) /\ Len(w.map) = Len(z.map)
        BY ONLY <1>3, <1>5, <1>6, <4>1, <4>2, Variables(fs), GroupBalanced
      <4>4. Whole(fs, w, a, V)
        BY <1>1, <1>5, <4>3 DEF Whole, Kept, SameBut, S
      <4> QED BY <1>5, <3>2, <4>3, <4>4 DEF SameShape, SameBut
    <3> QED BY <3>1, <3>2
  <2>2. y = CacheHit(u, g)
    BY <1>2, <1>10
  <2> HIDE DEF u
  <2>3. g \in ToSet(u.cache)
    BY <2>1
  <2>4. Whole(fs, y, a, V) /\ SameShape(u, y) /\ y.heap = u.heap
    BY ONLY <2>1, <2>2, <2>3, CacheHitKept
  <2>5. SameShape(k, y)
    BY <2>1, <2>4 DEF SameShape
  <2> QED BY <1>2, <1>5, <2>1, <2>4, <2>5 DEF v, Rehit
<1> QED BY <1>9, <1>10

-----------------------------------------------------------------------------
(* Observations                                                            *)

Weights == 0..MaxWeight

\* Arrays that have room for the terms there are, and no more.
Within(arrays, terms) ==
    Len(arrays) <= Len(terms) /\ \A v \in 1..Len(arrays) : Len(arrays[v]) <= terms[v]

\* An observation that knows no variable and no term the engine has not.
Fitting(fs) ==
    {o \in Observation : Within(o.in, fs.inTerms) /\ Within(o.out, fs.outTerms)}

\* What a group may be.
Group(fs) == Seq(Fitting(fs)) \ {<<>>}

\* A function of positions is a vector.
LEMMA FunctionSeq ==
    ASSUME NEW T, NEW n \in Nat, NEW f \in [1..n -> T]
    PROVE  f \in Seq(T) /\ Len(f) = n
BY SeqDef, LenProperties

LEMMA ArraysBySize ==
    ASSUME NEW T, NEW terms \in Seq(Nat), NEW f, f = [k \in 1..Len(terms) |-> f[k]],
           \A k \in 1..Len(terms) : f[k] \in [1..terms[k] -> T]
    PROVE  f \in Seq(Seq(T)) /\ Within(f, terms)
<1>1. Len(terms) \in Nat /\ \A k \in 1..Len(terms) : terms[k] \in Nat
  BY LenProperties, ElementOfSeq
<1>2. \A k \in 1..Len(terms) : f[k] \in Seq(T) /\ Len(f[k]) = terms[k]
  BY <1>1, FunctionSeq
<1>3. f \in Seq(Seq(T)) /\ Len(f) = Len(terms)
  <2>1. f \in [1..Len(terms) -> Seq(T)]
    BY <1>2
  <2> QED BY <1>1, <2>1, FunctionSeq
<1> QED BY <1>1, <1>2, <1>3 DEF Within

LEMMA ArraysLike ==
    ASSUME NEW T, NEW R, NEW room \in Seq(Seq(R)), NEW f, f = [k \in DOMAIN room |-> f[k]],
           \A k \in DOMAIN room : f[k] \in [DOMAIN room[k] -> T]
    PROVE  /\ f \in Seq(Seq(T)) /\ Len(f) = Len(room)
           /\ \A k \in 1..Len(room) : Len(f[k]) = Len(room[k])
<1>1. Len(room) \in Nat /\ DOMAIN room = 1..Len(room) /\ \A k \in 1..Len(room) : room[k] \in Seq(R)
  BY LenProperties, ElementOfSeq
<1>2. \A k \in 1..Len(room) : Len(room[k]) \in Nat /\ DOMAIN room[k] = 1..Len(room[k])
  BY <1>1, LenProperties
<1>3. \A k \in 1..Len(room) : f[k] \in Seq(T) /\ Len(f[k]) = Len(room[k])
  BY <1>1, <1>2, FunctionSeq
<1>4. f \in Seq(Seq(T)) /\ Len(f) = Len(room)
  <2>1. f \in [1..Len(room) -> Seq(T)]
    BY <1>1, <1>3
  <2> QED BY <1>1, <2>1, FunctionSeq
<1> QED BY <1>3, <1>4

\* The fields of an observation.
LEMMA ObservationIs ==
    ASSUME NEW fs, NEW o \in Fitting(fs)
    PROVE  /\ o = [in |-> o.in, out |-> o.out]
           /\ o.in \in Seq(Seq({0, 1})) /\ Within(o.in, fs.inTerms)
           /\ o.out \in Seq(Seq(Weights)) /\ Within(o.out, fs.outTerms)
BY DEF Fitting, Observation, Weights

LEMMA ObservationMade ==
    ASSUME NEW fs, NEW in \in Seq(Seq({0, 1})), Within(in, fs.inTerms),
           NEW out \in Seq(Seq(Weights)), Within(out, fs.outTerms),
           NEW o, o = [in |-> in, out |-> out]
    PROVE  o \in Fitting(fs)
BY DEF Fitting, Observation, Weights

\* Reading an array.
LEMMA AtIs ==
    ASSUME NEW T, NEW arrays \in Seq(Seq(T)), 0 \in T, NEW v, NEW t
    PROVE  At(arrays, v, t) \in T
<1>1. v \in DOMAIN arrays => arrays[v] \in Seq(T)
  BY LenProperties, ElementOfSeq
<1>2. v \in DOMAIN arrays /\ t \in DOMAIN arrays[v] => arrays[v][t] \in T
  BY <1>1, LenProperties, ElementOfSeq
<1> QED BY <1>2 DEF At

LEMMA OutWeightIs ==
    ASSUME NEW fs, NEW o \in Fitting(fs), NEW k, NEW t
    PROVE  OutWeight(o, k, t) \in Weights
<1>1. 0 \in Weights
  BY WeightAssumption DEF Weights
<1> QED BY <1>1, ObservationIs, AtIs DEF OutWeight

LEMMA OutputsGrownIs ==
    ASSUME NEW fs, fs.outTerms \in Seq(Nat), NEW o \in Fitting(fs)
    PROVE  /\ OutputsGrown(fs, o) \in Seq(Seq(Weights))
           /\ Within(OutputsGrown(fs, o), fs.outTerms)
<1> DEFINE terms == fs.outTerms
           f == OutputsGrown(fs, o)
<1>1. o.out \in Seq(Seq(Weights)) /\ Within(o.out, terms)
  BY ObservationIs
<1>2. Len(terms) \in Nat /\ DOMAIN terms = 1..Len(terms) /\ \A k \in 1..Len(terms) : terms[k] \in Nat
  BY LenProperties, ElementOfSeq
<1>3. Len(o.out) \in Nat /\ DOMAIN o.out = 1..Len(o.out)
      /\ \A k \in 1..Len(o.out) : Len(o.out[k]) \in Nat
  BY <1>1, LenProperties, ElementOfSeq
<1>4. (IF Len(o.out) > Len(terms) THEN Len(o.out) ELSE Len(terms)) = Len(terms)
  BY <1>1, <1>2, <1>3 DEF Within
<1>5. ASSUME NEW k \in 1..Len(terms)
      PROVE  (IF k \in DOMAIN o.out /\ (k \notin DOMAIN terms \/ Len(o.out[k]) > terms[k])
              THEN Len(o.out[k]) ELSE terms[k]) = terms[k]
  <2>1. k \in DOMAIN terms /\ terms[k] \in Nat
    BY ONLY <1>2, <1>5
  <2>2. \A i \in 1..Len(o.out) : Len(o.out[i]) <= terms[i]
    BY ONLY <1>1 DEF Within
  <2>3. k \in DOMAIN o.out => ~(Len(o.out[k]) > terms[k])
    BY ONLY <1>3, <2>1, <2>2
  <2> QED BY ONLY <2>1, <2>3
<1>6. f = [k \in 1..Len(terms) |-> [t \in 1..terms[k] |-> OutWeight(o, k, t)]]
  BY <1>4, <1>5 DEF OutputsGrown
<1>7. \A k \in 1..Len(terms) : f[k] \in [1..terms[k] -> Weights]
  BY <1>6, OutWeightIs
<1>8. f = [k \in 1..Len(terms) |-> f[k]]
  BY <1>6
<1> HIDE DEF f
<1>9. f \in Seq(Seq(Weights)) /\ Within(f, terms)
  BY <1>7, <1>8, ArraysBySize
<1> QED BY <1>9 DEF f

LEMMA ObservationNewIs ==
    ASSUME NEW fs, fs.inTerms \in Seq(Nat), fs.outTerms \in Seq(Nat), NEW m
    PROVE  ObservationNew(fs, m) \in Fitting(fs)
<1> DEFINE in == [i \in DOMAIN fs.inTerms |-> [t \in 1..fs.inTerms[i] |->
                     Bit(fs.inEnabled[i] /\ t \in m.in[i])]]
           out == [k \in DOMAIN fs.outTerms |-> [t \in 1..fs.outTerms[k] |-> 0]]
<1>1. in \in Seq(Seq({0, 1})) /\ Within(in, fs.inTerms)
  <2>1. DOMAIN fs.inTerms = 1..Len(fs.inTerms)
    BY LenProperties
  <2>2. \A i \in 1..Len(fs.inTerms) : in[i] \in [1..fs.inTerms[i] -> {0, 1}]
    BY <2>1 DEF Bit
  <2>3. in = [i \in 1..Len(fs.inTerms) |-> in[i]]
    BY <2>1
  <2> HIDE DEF in
  <2> QED BY <2>2, <2>3, ArraysBySize
<1>2. out \in Seq(Seq(Weights)) /\ Within(out, fs.outTerms)
  <2>1. DOMAIN fs.outTerms = 1..Len(fs.outTerms) /\ 0 \in Weights
    BY LenProperties, WeightAssumption DEF Weights
  <2>2. \A k \in 1..Len(fs.outTerms) : out[k] \in [1..fs.outTerms[k] -> Weights]
    BY <2>1
  <2>3. out = [k \in 1..Len(fs.outTerms) |-> out[k]]
    BY <2>1
  <2> HIDE DEF out
  <2> QED BY <2>2, <2>3, ArraysBySize
<1>3. ObservationNew(fs, m) = [in |-> in, out |-> out]
  BY DEF ObservationNew
<1> HIDE DEF in, out
<1> QED BY <1>1, <1>2, <1>3, ObservationMade

LEMMA HitWeightIs ==
    ASSUME NEW w \in Weights, NEW active
    PROVE  HitWeight(w, active) \in Weights
BY WeightAssumption DEF HitWeight, Weights

\* A measure changes what an observation concludes, and not its inputs.
LEMMA ObservationHitIs ==
    ASSUME NEW fs, fs.outTerms \in Seq(Nat), NEW o \in Fitting(fs), NEW m, NEW grows
    PROVE  /\ ObservationHit(fs, o, m, grows) \in Fitting(fs)
           /\ ObservationHit(fs, o, m, grows).in = o.in
<1> DEFINE fails == HitFails(fs, o, m, grows)
           room == IF ~fails /\ GrowsNow(fs, o, m, grows) THEN OutputsGrown(fs, o) ELSE o.out
           reached(k, t) == ~fails \/ \A p \in Roomless(fs, o, m) : Precedes(<<k, t>>, p)
           out == [k \in DOMAIN room |-> [t \in DOMAIN room[k] |->
                      IF k \in DOMAIN fs.outTerms /\ t <= fs.outTerms[k] /\ reached(k, t)
                      THEN HitWeight(room[k][t], t \in m.out[k])
                      ELSE room[k][t]]]
           hit == ObservationHit(fs, o, m, grows)
<1>1. room \in Seq(Seq(Weights)) /\ Within(room, fs.outTerms)
  BY ObservationIs, OutputsGrownIs
<1>2. hit = [o EXCEPT !.out = out]
  BY DEF ObservationHit
<1>3. hit = [in |-> o.in, out |-> out]
  <2> HIDE DEF out, hit
  <2>1. o = [in |-> o.in, out |-> o.out]
    BY ObservationIs
  <2> QED BY ONLY <1>2, <2>1
<1> HIDE DEF room, reached
<1>4. ASSUME NEW k \in DOMAIN room PROVE out[k] \in [DOMAIN room[k] -> Weights]
  <2>1. room[k] \in Seq(Weights)
    BY <1>1, LenProperties, ElementOfSeq
  <2>2. \A t \in DOMAIN room[k] : room[k][t] \in Weights
    BY <2>1, LenProperties, ElementOfSeq
  <2>3. \A t \in DOMAIN room[k] : HitWeight(room[k][t], t \in m.out[k]) \in Weights
    BY <2>2, HitWeightIs
  <2> QED BY <2>2, <2>3
<1>5. out = [k \in DOMAIN room |-> out[k]]
  OBVIOUS
<1> HIDE DEF out, hit
<1>6. /\ out \in Seq(Seq(Weights)) /\ Len(out) = Len(room)
      /\ \A k \in 1..Len(room) : Len(out[k]) = Len(room[k])
  BY <1>1, <1>4, <1>5, ArraysLike
<1>7. Within(out, fs.outTerms)
  BY <1>1, <1>6 DEF Within
<1>8. hit \in Fitting(fs) /\ hit.in = o.in
  BY <1>3, <1>6, <1>7, ObservationIs, ObservationMade
<1> QED BY <1>8 DEF hit

\* Two observations become one: the inputs are the first one's.
LEMMA MergeOutputIs ==
    ASSUME NEW fs, fs.outTerms \in Seq(Nat), NEW o \in Fitting(fs), NEW e \in Fitting(fs)
    PROVE  MergeOutput(fs, o, e) \in Fitting(fs) /\ MergeOutput(fs, o, e).in = o.in
<1> DEFINE room == OutputsGrown(fs, o)
           out == [k \in DOMAIN room |-> [t \in DOMAIN room[k] |->
                      (OutWeight(o, k, t) + OutWeight(e, k, t)) % (MaxWeight + 1)]]
           merged == MergeOutput(fs, o, e)
<1>1. room \in Seq(Seq(Weights)) /\ Within(room, fs.outTerms)
  BY OutputsGrownIs
<1>2. merged = [o EXCEPT !.out = out]
  BY DEF MergeOutput
<1>3. merged = [in |-> o.in, out |-> out]
  <2> HIDE DEF out, merged
  <2>1. o = [in |-> o.in, out |-> o.out]
    BY ObservationIs
  <2> QED BY ONLY <1>2, <2>1
<1>4. \A k, t : (OutWeight(o, k, t) + OutWeight(e, k, t)) % (MaxWeight + 1) \in Weights
  <2>1. \A k, t : OutWeight(o, k, t) \in Nat /\ OutWeight(e, k, t) \in Nat
    BY OutWeightIs, WeightAssumption DEF Weights
  <2>2. \A x \in Nat : x % (MaxWeight + 1) \in 0..MaxWeight
    BY WeightAssumption
  <2> QED BY <2>1, <2>2 DEF Weights
<1> HIDE DEF room
<1>5. \A k \in DOMAIN room : out[k] \in [DOMAIN room[k] -> Weights]
  BY <1>4
<1>6. out = [k \in DOMAIN room |-> out[k]]
  OBVIOUS
<1> HIDE DEF out, merged
<1>7. /\ out \in Seq(Seq(Weights)) /\ Len(out) = Len(room)
      /\ \A k \in 1..Len(room) : Len(out[k]) = Len(room[k])
  BY <1>1, <1>5, <1>6, ArraysLike
<1>8. Within(out, fs.outTerms)
  BY <1>1, <1>7 DEF Within
<1>9. merged \in Fitting(fs) /\ merged.in = o.in
  BY <1>3, <1>7, <1>8, ObservationIs, ObservationMade
<1> QED BY <1>9 DEF merged

\* What a group is after a measure: its first observation keeps its inputs.
LEMMA GroupHitIs ==
    ASSUME NEW fs, fs.inTerms \in Seq(Nat), fs.outTerms \in Seq(Nat),
           NEW group \in Seq(Fitting(fs)), NEW m, NEW grows,
           NEW hit, hit = GroupHit(fs, group, m, grows)
    PROVE  /\ hit[1] \in Seq(Fitting(fs))
           /\ group # <<>> => hit[1] # <<>> /\ Head(hit[1]).in = Head(group).in
           /\ hit[2] \in BOOLEAN /\ hit[3] \in BOOLEAN
<1> DEFINE bases == {n \in DOMAIN group : IsBase(fs, group[n])}
           new == ObservationHit(fs, ObservationNew(fs, m), m, grows)
           learns == /\ SomethingSet(fs, m)
                     /\ \E k \in DOMAIN fs.outTerms :
                           \E t \in 1..fs.outTerms[k] : t \in m.out[k]
           F == Fitting(fs)
           n == CHOOSE n \in bases : \A b \in bases : n <= b
           other == group # <<>> /\ ~EnabledValuesEqual(fs, Head(group), m)
           mine == HitFails(fs, group[n], m, grows)
<1>1. hit = IF other THEN <<group, FALSE, FALSE>>
            ELSE IF bases # {}
            THEN <<[group EXCEPT ![n] = ObservationHit(fs, @, m, grows)], TRUE, mine>>
            ELSE IF learns THEN <<Append(group, new), TRUE, FALSE>> ELSE <<group, FALSE, FALSE>>
  BY DEF GroupHit
<1>2. new \in F
  BY ObservationNewIs, ObservationHitIs
<1>3. group \in Seq(F) /\ Len(group) \in Nat /\ DOMAIN group = 1..Len(group)
      /\ \A i \in 1..Len(group) : group[i] \in F
  BY LenProperties, ElementOfSeq
<1>4. bases # {} => n \in bases /\ n \in 1..Len(group)
  <2>1. SUFFICES ASSUME bases # {} PROVE n \in bases
    BY <1>3
  <2>2. bases \in SUBSET Nat
    BY <1>3
  <2>3. \E i \in bases : \A b \in bases : i <= b
    BY <2>1, <2>2, LeastElement
  <2> QED BY <2>3
<1>5. \E r : bases # {} => /\ r = [group EXCEPT ![n] = ObservationHit(fs, @, m, grows)]
                           /\ r \in Seq(F) /\ r # <<>> /\ Head(r).in = Head(group).in
  <2> SUFFICES ASSUME bases # {}
               PROVE  \E r : /\ r = [group EXCEPT ![n] = ObservationHit(fs, @, m, grows)]
                             /\ r \in Seq(F) /\ r # <<>> /\ Head(r).in = Head(group).in
    OBVIOUS
  <2> DEFINE o == ObservationHit(fs, group[n], m, grows)
             r == [group EXCEPT ![n] = o]
  <2>1. n \in 1..Len(group) /\ group[n] \in F
    BY <1>3, <1>4
  <2> HIDE DEF n
  <2>2. o \in F /\ o.in = group[n].in
    BY <2>1, ObservationHitIs
  <2> HIDE DEF o
  <2>3. r \in Seq(F) /\ Len(r) = Len(group) /\ \A i \in 1..Len(group) : r[i] = IF i = n THEN o ELSE group[i]
    BY <1>3, <2>1, <2>2, ExceptSeq
  <2>4. 1 \in 1..Len(group) /\ group # <<>>
    BY <1>3, <2>1
  <2>5. Head(group) = group[1]
    BY <1>3, <2>4
  <2> HIDE DEF r
  <2>6. r # <<>> /\ Head(r) = r[1]
    BY <1>3, <2>3, <2>4, LenProperties
  <2>7. Head(r).in = Head(group).in
    BY <2>2, <2>3, <2>4, <2>5, <2>6
  <2> QED BY <2>3, <2>6, <2>7 DEF r, o
<1>6. /\ Append(group, new) \in Seq(F) /\ Append(group, new) # <<>>
      /\ group # <<>> => Head(Append(group, new)).in = Head(group).in
  <2> HIDE DEF new
  <2>1. /\ Append(group, new) \in Seq(F) /\ Len(Append(group, new)) = Len(group) + 1
        /\ \A i \in 1..Len(group) : Append(group, new)[i] = group[i]
    BY <1>2, <1>3, AppendProperties
  <2> DEFINE r == Append(group, new)
  <2>4. r \in Seq(F) /\ Len(r) = Len(group) + 1
    BY <2>1
  <2> HIDE DEF r
  <2>2. r # <<>> /\ Head(r) = r[1]
    BY <1>3, <2>4, LenProperties
  <2>3. group # <<>> => 1 \in 1..Len(group) /\ Head(group) = group[1]
    BY <1>3
  <2> QED BY <2>1, <2>2, <2>3 DEF r
<1> HIDE DEF bases, learns, n, new, other, mine, F
<1>7. mine \in BOOLEAN
  BY DEF mine, HitFails
<1>8. PICK r : bases # {} => /\ r = [group EXCEPT ![n] = ObservationHit(fs, @, m, grows)]
                             /\ r \in Seq(F) /\ r # <<>> /\ Head(r).in = Head(group).in
  BY <1>5
<1>9. CASE other
  BY ONLY <1>1, <1>3, <1>9 DEF F, other
<1>10. CASE ~other /\ bases # {}
  <2>1. hit = <<[group EXCEPT ![n] = ObservationHit(fs, @, m, grows)], TRUE, mine>>
    BY <1>1, <1>10
  <2>2. hit = <<r, TRUE, mine>>
    BY <2>1, <1>8, <1>10
  <2> QED BY <2>2, <1>7, <1>8, <1>10 DEF F
<1>11. CASE ~other /\ bases = {} /\ learns
  <2>1. hit = <<Append(group, new), TRUE, FALSE>>
    BY <1>1, <1>11
  <2> QED BY <2>1, <1>6, <1>11 DEF F
<1>12. CASE ~other /\ bases = {} /\ ~learns
  <2>1. hit = <<group, FALSE, FALSE>>
    BY <1>1, <1>12
  <2> QED BY <2>1, <1>3, <1>12 DEF F
<1> QED BY <1>9, <1>10, <1>11, <1>12

\* A new group has an observation.
LEMMA NewGroupIs ==
    ASSUME NEW fs, fs.inTerms \in Seq(Nat), fs.outTerms \in Seq(Nat), NEW m, NEW grows,
           GroupHit(fs, <<>>, m, grows)[2]
    PROVE  GroupHit(fs, <<>>, m, TRUE)[1] \in Group(fs)
<1> DEFINE learns == /\ SomethingSet(fs, m)
                     /\ \E k \in DOMAIN fs.outTerms :
                           \E t \in 1..fs.outTerms[k] : t \in m.out[k]
           none == <<>>
           e == ObservationHit(fs, ObservationNew(fs, m), m, TRUE)
           d == ObservationHit(fs, ObservationNew(fs, m), m, grows)
           F == Fitting(fs)
           s == Append(none, e)
<1>1. {n \in DOMAIN none : IsBase(fs, none[n])} = {}
  OBVIOUS
<1>2. GroupHit(fs, none, m, TRUE) = IF learns THEN <<s, TRUE, FALSE>> ELSE <<none, FALSE, FALSE>>
  BY <1>1 DEF GroupHit
<1>3. GroupHit(fs, none, m, grows) = IF learns THEN <<Append(none, d), TRUE, FALSE>>
                                               ELSE <<none, FALSE, FALSE>>
  BY <1>1 DEF GroupHit
<1>4. GroupHit(fs, none, m, grows)[2]
  OBVIOUS
<1>5. e \in F /\ none \in Seq(F)
  <2>1. e \in F
    BY ObservationNewIs, ObservationHitIs
  <2> HIDE DEF F
  <2>2. none \in Seq(F)
    OBVIOUS
  <2> QED BY <2>1, <2>2
<1> HIDE DEF learns, d
<1>6. learns
  <2> DEFINE x == Append(none, d)
  <2>1. GroupHit(fs, none, m, grows) = IF learns THEN <<x, TRUE, FALSE>> ELSE <<none, FALSE, FALSE>>
    BY <1>3
  <2> HIDE DEF x, none
  <2>2. CASE ~learns
    <3>1. GroupHit(fs, none, m, grows) = <<none, FALSE, FALSE>>
      BY ONLY <2>1, <2>2
    <3> QED BY ONLY <3>1, <1>4
  <2> QED BY <2>2
<1>7. s \in Group(fs)
  <2> HIDE DEF e, F
  <2>1. s \in Seq(F) /\ s # <<>>
    BY <1>5, AppendProperties
  <2> HIDE DEF s
  <2> QED BY <2>1 DEF Group, F
<1> DEFINE h == GroupHit(fs, none, m, TRUE)
           r == <<s, TRUE, FALSE>>
<1>8. h = r
  BY <1>2, <1>6
<1>9. r[1] = s
  <2> HIDE DEF s
  <2> QED OBVIOUS
<1> HIDE DEF h, r, s
<1>10. h[1] \in Group(fs)
  BY <1>7, <1>8, <1>9
<1> QED BY <1>10 DEF h

\* Observations that agree on the enabled inputs.
Same(fs, o, p) == EnabledInputEquals(fs, o, p)

LEMMA SameIs ==
    ASSUME NEW fs
    PROVE  /\ \A o, p : o.in = p.in => Same(fs, o, p)
           /\ \A o, p : Same(fs, o, p) => Same(fs, p, o)
           /\ \A o, p, q : Same(fs, o, p) /\ Same(fs, p, q) => Same(fs, o, q)
BY DEF Same, EnabledInputEquals, SameOn, InBit

Agree(fs, group) == \A i \in DOMAIN group, j \in DOMAIN group : Same(fs, group[i], group[j])

LEMMA GroupIs ==
    ASSUME NEW fs, NEW group \in Group(fs)
    PROVE  /\ group \in Seq(Fitting(fs)) /\ group # <<>> /\ Len(group) \in Nat
           /\ DOMAIN group = 1..Len(group) /\ 1 \in 1..Len(group) /\ Head(group) = group[1]
           /\ \A i \in 1..Len(group) : group[i] \in Fitting(fs)
<1>1. group \in Seq(Fitting(fs)) /\ group # <<>>
  BY DEF Group
<1>2. Len(group) \in Nat /\ DOMAIN group = 1..Len(group)
      /\ \A i \in 1..Len(group) : group[i] \in Fitting(fs)
  BY <1>1, LenProperties, ElementOfSeq
<1>3. Len(group) # 0
  BY <1>1, EmptySeq
<1> QED BY <1>1, <1>2, <1>3

-----------------------------------------------------------------------------
(* Merging groups                                                          *)

TwinStep(c, kept, o) ==
    LET n == FirstWhere(kept, LAMBDA x : InputEquals(c.fz, x, o))
    IN  IF n = 0 THEN Append(kept, o) ELSE [kept EXCEPT ![n] = MergeOutput(c.fz, @, o)]

\* All that is kept has the inputs of something there was.
TwinAt(c, n, kept) ==
    /\ kept \in Seq(Fitting(c.fz))
    /\ n > 0 => kept # <<>>
    /\ \A j \in DOMAIN kept : \E i \in 1..n : kept[j].in = c.seq[i].in

Twins == INSTANCE SeqLemmas WITH FoldOp <- TwinStep, FoldAt <- TwinAt

LEMMA WithoutTwinsIs ==
    ASSUME NEW fs, fs.outTerms \in Seq(Nat), NEW group \in Seq(Fitting(fs)),
           NEW left, left = WithoutTwins(fs, group)
    PROVE  /\ left \in Seq(Fitting(fs))
           /\ group # <<>> => left # <<>>
           /\ \A j \in DOMAIN left : \E i \in DOMAIN group : left[j].in = group[i].in
<1> DEFINE p == [fz |-> fs, seq |-> group]
           F == Fitting(fs)
           n == Len(group)
<1>1. p.fz = fs /\ p.seq = group
  OBVIOUS
<1>2. left = Twins!Folded(p, <<>>, group)
  BY DEF WithoutTwins, FoldLeft, MapThenFoldSet, Twins!Folded, Twins!IterEq,
         Twins!Largest, Max, TwinStep
<1> HIDE DEF p
<1>3. n \in Nat /\ DOMAIN group = 1..n /\ \A i \in 1..n : group[i] \in F
  BY LenProperties, ElementOfSeq
<1>4. TwinAt(p, 0, <<>>)
  <2>1. <<>> \in Seq(F) /\ DOMAIN <<>> = {}
    <3> HIDE DEF F
    <3> QED OBVIOUS
  <2> QED BY <1>1, <2>1 DEF TwinAt
<1>5. ASSUME NEW kept, NEW m \in 1..n, TwinAt(p, m - 1, kept)
      PROVE  TwinAt(p, m, TwinStep(p, kept, group[m]))
  <2> DEFINE o == group[m]
             I == {i \in 1..Len(kept) : InputEquals(fs, kept[i], o)}
             k == IF I # {} THEN Min(I) ELSE 0
             new == TwinStep(p, kept, o)
  <2>1. kept \in Seq(F) /\ Len(kept) \in Nat /\ DOMAIN kept = 1..Len(kept) /\ o \in F
        /\ \A i \in 1..Len(kept) : kept[i] \in F
    BY <1>1, <1>3, <1>5, LenProperties, ElementOfSeq DEF TwinAt
  <2>2. new = IF k = 0 THEN Append(kept, o) ELSE [kept EXCEPT ![k] = MergeOutput(fs, @, o)]
    BY <1>1 DEF TwinStep, FirstWhere, SelectInSeq
  <2>3. k \in 0..Len(kept)
    <3>1. I \in SUBSET (1..Len(kept)) /\ k = IF I # {} THEN Min(I) ELSE 0
      OBVIOUS
    <3> HIDE DEF I, k
    <3> QED BY <2>1, <3>1, FirstIs
  <2>4. \A j \in DOMAIN kept : \E i \in 1..m : kept[j].in = group[i].in
    BY <1>1, <1>3, <1>5 DEF TwinAt
  <2>5. m \in 1..m /\ m > 0
    BY <1>3
  <2> HIDE DEF o, I, k, new, F
  <2>6. CASE k = 0
    <3>1. new = Append(kept, o)
      BY <2>2, <2>6
    <3>2. /\ new \in Seq(F) /\ new # <<>> /\ Len(new) = Len(kept) + 1
          /\ \A i \in 1..Len(kept) : new[i] = kept[i]
          /\ new[Len(kept) + 1] = o
      BY <2>1, <3>1, AppendProperties
    <3>3. DOMAIN new = 1..Len(kept) + 1
      BY <3>2, LenProperties
    <3>4. ASSUME NEW j \in DOMAIN new PROVE \E i \in 1..m : new[j].in = group[i].in
      <4>1. CASE j \in 1..Len(kept)
        BY <2>1, <2>4, <3>2, <4>1
      <4>2. CASE j = Len(kept) + 1
        BY <2>5, <3>2, <4>2 DEF o
      <4> QED BY <2>1, <3>3, <4>1, <4>2
    <3> QED BY <1>1, <3>2, <3>4 DEF TwinAt, F, new, o
  <2>7. CASE k # 0
    <3> DEFINE e == MergeOutput(fs, kept[k], o)
    <3>1. k \in 1..Len(kept) /\ kept[k] \in F
      BY <2>1, <2>3, <2>7
    <3>2. e \in F /\ e.in = kept[k].in
      BY <2>1, <3>1, MergeOutputIs DEF F
    <3>3. new = [kept EXCEPT ![k] = e]
      BY <2>2, <2>7
    <3> HIDE DEF e
    <3>4. /\ new \in Seq(F) /\ Len(new) = Len(kept)
          /\ \A i \in 1..Len(kept) : new[i] = IF i = k THEN e ELSE kept[i]
      BY <2>1, <3>1, <3>2, <3>3, ExceptSeq
    <3>5. DOMAIN new = 1..Len(kept) /\ new # <<>>
      BY <2>1, <3>1, <3>4, LenProperties
    <3>6. ASSUME NEW j \in DOMAIN new PROVE \E i \in 1..m : new[j].in = group[i].in
      <4>1. new[j].in = kept[j].in /\ j \in DOMAIN kept
        BY <2>1, <3>2, <3>4, <3>5
      <4> QED BY <2>4, <4>1
    <3> QED BY <1>1, <3>4, <3>5, <3>6 DEF TwinAt, F, new, o
  <2> QED BY <2>6, <2>7
<1>6. TwinAt(p, n, left)
  <2> HIDE DEF F
  <2> QED BY <1>2, <1>4, <1>5, group \in Seq(F), Twins!FoldsAlong DEF F
<1>7. group # <<>> => n > 0
  BY <1>3, EmptySeq
<1> QED BY <1>1, <1>3, <1>6, <1>7 DEF TwinAt

\* Two groups that agree become one that agrees with both.
LEMMA GroupMergeIs ==
    ASSUME NEW fs, fs.outTerms \in Seq(Nat), NEW g \in Group(fs), NEW h \in Group(fs),
           NEW merged, merged = GroupMerge(fs, g, h)
    PROVE  /\ merged \in Group(fs)
           /\ Agree(fs, g) /\ Agree(fs, h) /\ Same(fs, Head(g), Head(h)) =>
                 Agree(fs, merged) /\ Same(fs, Head(g), Head(merged))
<1> DEFINE both == g \o h
<1>1. /\ both \in Seq(Fitting(fs)) /\ Len(both) = Len(g) + Len(h) /\ both # <<>>
      /\ \A i \in 1..Len(g) : both[i] = g[i]
      /\ \A i \in DOMAIN both : \/ \E j \in DOMAIN g : both[i] = g[j]
                                \/ \E j \in DOMAIN h : both[i] = h[j]
  <2>1. /\ both \in Seq(Fitting(fs)) /\ Len(both) = Len(g) + Len(h)
        /\ \A j \in 1..Len(g) + Len(h) : both[j] = IF j <= Len(g) THEN g[j] ELSE h[j - Len(g)]
    BY GroupIs, ConcatIs
  <2>2. Len(g) \in Nat /\ Len(h) \in Nat /\ DOMAIN g = 1..Len(g) /\ DOMAIN h = 1..Len(h) /\ 1 \in 1..Len(g)
    BY GroupIs
  <2> HIDE DEF both
  <2>3. DOMAIN both = 1..Len(g) + Len(h)
    BY <2>1, LenProperties
  <2>4. both # <<>>
    BY <2>1, <2>2, EmptySeq
  <2>5. \A i \in DOMAIN both : i \in 1..Len(g) \/ i - Len(g) \in 1..Len(h)
    BY <2>2, <2>3
  <2>6. \A i \in 1..Len(g) : both[i] = g[i]
    BY <2>1, <2>2
  <2>7. \A i \in DOMAIN both : i - Len(g) \in 1..Len(h) => both[i] = h[i - Len(g)]
    BY <2>1, <2>2, <2>3
  <2> QED BY <2>1, <2>2, <2>4, <2>5, <2>6, <2>7
<1>2. merged = WithoutTwins(fs, both)
  BY DEF GroupMerge
<1> HIDE DEF both
<1>3. /\ merged \in Seq(Fitting(fs)) /\ merged # <<>>
      /\ \A j \in DOMAIN merged : \E i \in DOMAIN both : merged[j].in = both[i].in
  <2>1. both \in Seq(Fitting(fs)) /\ both # <<>>
    BY <1>1
  <2> QED BY ONLY <1>2, <2>1, fs.outTerms \in Seq(Nat), WithoutTwinsIs
<1>4. merged \in Group(fs)
  BY <1>3 DEF Group
<1>5. ASSUME Agree(fs, g), Agree(fs, h), Same(fs, Head(g), Head(h))
      PROVE  Agree(fs, merged) /\ Same(fs, Head(g), Head(merged))
  <2>1. \A i \in DOMAIN both : Same(fs, Head(g), both[i])
    <3> SUFFICES ASSUME NEW i \in DOMAIN both PROVE Same(fs, Head(g), both[i])
      OBVIOUS
    <3>1. CASE \E j \in DOMAIN g : both[i] = g[j]
      BY <1>5, <3>1, GroupIs DEF Agree
    <3>2. CASE \E j \in DOMAIN h : both[i] = h[j]
      <4>1. PICK j \in DOMAIN h : both[i] = h[j]
        BY <3>2
      <4>2. Same(fs, Head(h), h[j])
        BY <1>5, GroupIs DEF Agree
      <4> QED BY <1>5, <4>1, <4>2, SameIs
    <3> QED BY <1>1, <3>1, <3>2
  <2>2. \A j \in DOMAIN merged : Same(fs, Head(g), merged[j])
    <3> SUFFICES ASSUME NEW j \in DOMAIN merged PROVE Same(fs, Head(g), merged[j])
      OBVIOUS
    <3>1. PICK i \in DOMAIN both : merged[j].in = both[i].in
      BY <1>3
    <3>2. Same(fs, Head(g), both[i]) /\ Same(fs, both[i], merged[j])
      BY <2>1, <3>1, SameIs
    <3> QED BY <3>2, SameIs
  <2>3. Agree(fs, merged)
    BY <2>2, SameIs DEF Agree
  <2> QED BY <1>4, <2>2, <2>3, GroupIs
<1> QED BY <1>4, <1>5

-----------------------------------------------------------------------------
(* Splitting a group                                                       *)

SplitStep(c, parts, o) == AppendObservation(c.fz, parts, o)

\* Parts that agree, each of them, and no two with each other.
Parted(fs, parts) ==
    /\ parts \in Seq(Group(fs))
    /\ \A p \in DOMAIN parts : Agree(fs, parts[p])
    /\ \A p \in DOMAIN parts, q \in DOMAIN parts : p # q => ~Same(fs, Head(parts[p]), Head(parts[q]))

SplitAt(c, n, parts) ==
    /\ Parted(c.fz, parts)
    /\ \A p \in DOMAIN parts : \A l \in DOMAIN parts[p] : \E i \in 1..n : parts[p][l] = c.seq[i]

Splitting == INSTANCE SeqLemmas WITH FoldOp <- SplitStep, FoldAt <- SplitAt

\* An observation finds the part it agrees with, or is a new one.
LEMMA AppendObservationIs ==
    ASSUME NEW fs, NEW parts, Parted(fs, parts), NEW o \in Fitting(fs),
           NEW new, new = AppendObservation(fs, parts, o)
    PROVE  /\ Parted(fs, new)
           /\ \A p \in DOMAIN new : \A l \in DOMAIN new[p] :
                 \/ new[p][l] = o
                 \/ p \in DOMAIN parts /\ l \in DOMAIN parts[p] /\ new[p][l] = parts[p][l]
<1> DEFINE G == Group(fs)
           I == {p \in 1..Len(parts) : parts[p] = <<>> \/ EnabledInputEquals(fs, Head(parts[p]), o)}
           n == IF I # {} THEN Min(I) ELSE 0
<1>1. /\ parts \in Seq(G) /\ Len(parts) \in Nat /\ DOMAIN parts = 1..Len(parts)
      /\ \A p \in 1..Len(parts) : parts[p] \in G
  BY LenProperties, ElementOfSeq DEF Parted
<1>2. new = IF n = 0 THEN Append(parts, <<o>>) ELSE [parts EXCEPT ![n] = Append(@, o)]
  BY DEF AppendObservation, FirstWhere, SelectInSeq
<1>3. /\ n \in 0..Len(parts)
      /\ n # 0 => n \in I
      /\ n = 0 => I = {}
  <2>1. I \in SUBSET (1..Len(parts)) /\ n = IF I # {} THEN Min(I) ELSE 0
    OBVIOUS
  <2> HIDE DEF I, n
  <2> QED BY <1>1, <2>1, FirstIs
<1>4. \A p \in 1..Len(parts) : p \in I <=> Same(fs, Head(parts[p]), o)
  BY <1>1, GroupIs DEF Same
<1>5. \A p \in DOMAIN parts : Agree(fs, parts[p])
  BY DEF Parted
<1>6. \A p \in DOMAIN parts, q \in DOMAIN parts : p # q => ~Same(fs, Head(parts[p]), Head(parts[q]))
  BY DEF Parted
<1> HIDE DEF G, I, n
<1>7. CASE n = 0
  <2> DEFINE one == <<o>>
  <2>1. one \in G /\ Len(one) = 1 /\ DOMAIN one = 1..1 /\ one[1] = o
    BY DEF G, Group
  <2>2. Agree(fs, one) /\ Head(one) = o
    BY <2>1, SameIs DEF Agree
  <2>3. new = Append(parts, one)
    BY <1>2, <1>7
  <2> HIDE DEF one
  <2>4. /\ new \in Seq(G) /\ Len(new) = Len(parts) + 1
        /\ \A p \in 1..Len(parts) : new[p] = parts[p]
        /\ new[Len(parts) + 1] = one
    BY <1>1, <2>1, <2>3, AppendProperties
  <2>5. DOMAIN new = 1..Len(parts) + 1
    BY <2>4, LenProperties
  <2>6. \A p \in DOMAIN new : \/ p \in DOMAIN parts /\ new[p] = parts[p]
                              \/ p \notin DOMAIN parts /\ new[p] = one
    BY <1>1, <2>4, <2>5
  <2>7. \A p \in DOMAIN new, q \in DOMAIN new : p \notin DOMAIN parts /\ q \notin DOMAIN parts => p = q
    BY <1>1, <2>5
  <2>8. \A p \in DOMAIN parts : ~Same(fs, Head(parts[p]), o) /\ ~Same(fs, o, Head(parts[p]))
    BY <1>1, <1>3, <1>4, <1>7, SameIs
  <2>9. \A p \in DOMAIN new : Agree(fs, new[p])
    BY <1>5, <2>2, <2>6
  <2>10. ASSUME NEW p \in DOMAIN new, NEW q \in DOMAIN new, p # q
         PROVE  ~Same(fs, Head(new[p]), Head(new[q]))
    <3>1. CASE p \in DOMAIN parts /\ q \in DOMAIN parts
      BY <1>6, <2>6, <2>10, <3>1
    <3>2. CASE p \in DOMAIN parts /\ q \notin DOMAIN parts
      BY <2>2, <2>6, <2>8, <3>2
    <3>3. CASE p \notin DOMAIN parts /\ q \in DOMAIN parts
      BY <2>2, <2>6, <2>8, <3>3
    <3> QED BY <2>7, <2>10, <3>1, <3>2, <3>3
  <2>11. Parted(fs, new)
    BY <2>4, <2>9, <2>10 DEF Parted, G
  <2>12. ASSUME NEW p \in DOMAIN new, NEW l \in DOMAIN new[p]
         PROVE  \/ new[p][l] = o
                \/ p \in DOMAIN parts /\ l \in DOMAIN parts[p] /\ new[p][l] = parts[p][l]
    <3>1. CASE p \in DOMAIN parts
      BY <2>6, <3>1
    <3>2. CASE p \notin DOMAIN parts
      <4>1. new[p] = one /\ l = 1
        BY <2>1, <2>6, <3>2
      <4> QED BY <2>1, <4>1
    <3> QED BY <3>1, <3>2
  <2> QED BY <2>11, <2>12
<1>8. CASE n # 0
  <2> DEFINE old == parts[n]
             more == Append(old, o)
  <2>1. n \in 1..Len(parts) /\ n \in DOMAIN parts /\ old \in G /\ Same(fs, Head(old), o)
    BY <1>1, <1>3, <1>4, <1>8
  <2>2. /\ old \in Seq(Fitting(fs)) /\ Len(old) \in Nat /\ DOMAIN old = 1..Len(old)
        /\ 1 \in 1..Len(old) /\ Head(old) = old[1]
    BY <2>1, GroupIs DEF G
  <2>3. Agree(fs, old)
    BY <1>5, <2>1
  <2>4. new = [parts EXCEPT ![n] = more]
    BY <1>2, <1>8
  <2> HIDE DEF old
  <2>5. /\ more \in Seq(Fitting(fs)) /\ more # <<>> /\ Len(more) = Len(old) + 1
        /\ \A l \in 1..Len(old) : more[l] = old[l]
        /\ more[Len(old) + 1] = o
    BY <2>2, AppendProperties
  <2> HIDE DEF more
  <2>6. more \in G
    BY <2>5 DEF G, Group
  <2>7. DOMAIN more = 1..Len(old) + 1 /\ Head(more) = Head(old)
    BY <2>2, <2>5, <2>6, GroupIs DEF G
  <2>8. \A l \in DOMAIN more : \/ l \in DOMAIN old /\ more[l] = old[l]
                               \/ more[l] = o
    BY <2>2, <2>5, <2>7
  <2>9. \A l \in DOMAIN more : Same(fs, Head(old), more[l])
    BY <2>1, <2>2, <2>3, <2>8 DEF Agree
  <2>10. Agree(fs, more)
    BY <2>9, SameIs DEF Agree
  <2>11. /\ new \in Seq(G) /\ Len(new) = Len(parts)
         /\ \A p \in 1..Len(parts) : new[p] = IF p = n THEN more ELSE parts[p]
    BY <1>1, <2>1, <2>4, <2>6, ExceptSeq
  <2>12. DOMAIN new = DOMAIN parts
    BY <1>1, <2>11, LenProperties
  <2>13. \A p \in DOMAIN new : /\ new[p] = IF p = n THEN more ELSE parts[p]
                               /\ Head(new[p]) = Head(parts[p])
    BY <1>1, <2>7, <2>11, <2>12 DEF old
  <2>14. \A p \in DOMAIN new : Agree(fs, new[p])
    BY <1>5, <2>10, <2>12, <2>13
  <2>15. \A p \in DOMAIN new, q \in DOMAIN new : p # q => ~Same(fs, Head(new[p]), Head(new[q]))
    BY <1>6, <2>12, <2>13
  <2>16. Parted(fs, new)
    BY <2>11, <2>14, <2>15 DEF Parted, G
  <2>17. ASSUME NEW p \in DOMAIN new, NEW l \in DOMAIN new[p]
         PROVE  \/ new[p][l] = o
                \/ p \in DOMAIN parts /\ l \in DOMAIN parts[p] /\ new[p][l] = parts[p][l]
    BY <2>8, <2>12, <2>13 DEF old
  <2> QED BY <2>16, <2>17
<1> QED BY <1>7, <1>8

LEMMA GroupSplitIs ==
    ASSUME NEW fs, NEW group \in Seq(Fitting(fs)), NEW parts, parts = GroupSplit(fs, group)
    PROVE  /\ Parted(fs, parts)
           /\ \A p \in DOMAIN parts : \A l \in DOMAIN parts[p] : parts[p][l] \in ToSet(group)
<1> DEFINE p == [fz |-> fs, seq |-> group]
           F == Fitting(fs)
           n == Len(group)
<1>1. p.fz = fs /\ p.seq = group
  OBVIOUS
<1>2. parts = Splitting!Folded(p, <<>>, group)
  BY DEF GroupSplit, FoldLeft, MapThenFoldSet, Splitting!Folded, Splitting!IterEq,
         Splitting!Largest, Max, SplitStep
<1> HIDE DEF p
<1>3. n \in Nat /\ DOMAIN group = 1..n /\ \A i \in 1..n : group[i] \in F
  BY LenProperties, ElementOfSeq
<1>4. SplitAt(p, 0, <<>>)
  <2>1. \A G : <<>> \in Seq(G) /\ DOMAIN <<>> = {}
    OBVIOUS
  <2> QED BY <2>1 DEF SplitAt, Parted
<1>5. ASSUME NEW y, NEW m \in 1..n, SplitAt(p, m - 1, y)
      PROVE  SplitAt(p, m, SplitStep(p, y, group[m]))
  <2> DEFINE o == group[m]
             new == SplitStep(p, y, o)
  <2>1. Parted(fs, y) /\ o \in F /\ new = AppendObservation(fs, y, o)
    BY <1>1, <1>3, <1>5 DEF SplitAt, SplitStep
  <2>2. \A q \in DOMAIN y : \A l \in DOMAIN y[q] : \E i \in 1..m - 1 : y[q][l] = group[i]
    BY <1>1, <1>5 DEF SplitAt
  <2>3. m \in 1..m /\ \A i \in 1..m - 1 : i \in 1..m
    BY <1>3
  <2> HIDE DEF new, F
  <2>4. /\ Parted(fs, new)
        /\ \A q \in DOMAIN new : \A l \in DOMAIN new[q] :
              \/ new[q][l] = o
              \/ q \in DOMAIN y /\ l \in DOMAIN y[q] /\ new[q][l] = y[q][l]
    <3> HIDE DEF o
    <3> QED BY <2>1, AppendObservationIs DEF F
  <2>5. \A q \in DOMAIN new : \A l \in DOMAIN new[q] : \E i \in 1..m : new[q][l] = group[i]
    BY <2>2, <2>3, <2>4
  <2> QED BY <1>1, <2>4, <2>5 DEF SplitAt, new
<1>6. SplitAt(p, n, parts)
  <2> HIDE DEF F
  <2> QED BY <1>2, <1>4, <1>5, group \in Seq(F), Splitting!FoldsAlong DEF F
<1> QED BY <1>1, <1>3, <1>6 DEF SplitAt, ToSet

-----------------------------------------------------------------------------
(* Variables and terms that go                                             *)

\* The variables of the engine.
Vars(fs) ==
    /\ fs.inTerms \in Seq(Nat) /\ fs.outTerms \in Seq(Nat)
    /\ fs.inEnabled \in Seq(BOOLEAN) /\ Len(fs.inEnabled) = Len(fs.inTerms)

\* The arrays without those of a variable.
Without1(arrays, v) == IF v \in DOMAIN arrays THEN RemoveAt(arrays, v) ELSE arrays

\* Where the arrays, or the terms of one, have been.
Was(i, v) == IF i < v THEN i ELSE i + 1

LEMMA ArraysWithout ==
    ASSUME NEW T, NEW terms \in Seq(Nat), NEW v \in 1..Len(terms),
           NEW arrays \in Seq(Seq(T)), Within(arrays, terms),
           NEW left, left = Without1(arrays, v)
    PROVE  /\ left \in Seq(Seq(T)) /\ Within(left, RemoveAt(terms, v))
           /\ \A i \in Nat \ {0} : \A t : At(left, i, t) = At(arrays, Was(i, v), t)
<1> DEFINE n == Len(arrays)
           l == Len(terms)
           rest == RemoveAt(terms, v)
<1>1. n \in Nat /\ DOMAIN arrays = 1..n /\ n <= l /\ l \in Nat /\ v \in 1..l
  BY LenProperties DEF Within
<1>2. \A i \in 1..n : Len(arrays[i]) <= terms[i]
  BY DEF Within
<1>3. /\ Len(rest) = l - 1
      /\ \A j \in 1..v - 1 : rest[j] = terms[j]
      /\ \A j \in v..l - 1 : rest[j] = terms[j + 1]
  BY RemoveAtProperties
<1> HIDE DEF rest
<1>4. CASE v \in 1..n
  <2>1. left = RemoveAt(arrays, v)
    BY <1>1, <1>4 DEF Without1
  <2>2. /\ left \in Seq(Seq(T)) /\ Len(left) = n - 1
        /\ \A j \in 1..v - 1 : left[j] = arrays[j]
        /\ \A j \in v..n - 1 : left[j] = arrays[j + 1]
    BY <1>4, <2>1, RemoveAtProperties
  <2>3. DOMAIN left = 1..n - 1
    BY <2>2, LenProperties
  <2> HIDE DEF n, l
  <2>4. ASSUME NEW j \in 1..n - 1 PROVE Len(left[j]) <= rest[j]
    <3>1. CASE j < v
      <4>1. j \in 1..v - 1 /\ j \in 1..n
        BY <1>1, <3>1
      <4>2. left[j] = arrays[j] /\ rest[j] = terms[j]
        BY <1>3, <2>2, <4>1
      <4> QED BY <1>2, <4>1, <4>2
    <3>2. CASE j >= v
      <4>1. left[j] = arrays[j + 1] /\ rest[j] = terms[j + 1] /\ j + 1 \in 1..n
        BY <1>1, <1>3, <1>4, <2>2, <3>2
      <4> QED BY <1>2, <4>1
    <3> QED BY <1>1, <1>4, <3>1, <3>2
  <2>5. Within(left, rest)
    <3>1. n - 1 <= l - 1
      BY <1>1
    <3>2. Len(left) <= Len(rest)
      BY <1>3, <2>2, <3>1
    <3>3. \A j \in 1..Len(left) : Len(left[j]) <= rest[j]
      BY <2>2, <2>4
    <3> QED BY ONLY <3>2, <3>3 DEF Within
  <2>6. ASSUME NEW i \in Nat \ {0}, NEW t PROVE At(left, i, t) = At(arrays, Was(i, v), t)
    <3>1. CASE i < v
      <4>1. i \in DOMAIN left /\ i \in DOMAIN arrays /\ left[i] = arrays[i] /\ Was(i, v) = i
        BY <1>1, <1>4, <2>2, <2>3, <3>1 DEF Was
      <4> QED BY <4>1 DEF At
    <3>2. CASE i >= v
      <4>1. Was(i, v) = i + 1
        BY <1>1, <3>2 DEF Was
      <4>2. CASE i <= n - 1
        <5>1. i \in DOMAIN left /\ i + 1 \in DOMAIN arrays /\ left[i] = arrays[i + 1]
          BY <1>1, <1>4, <2>2, <2>3, <3>2, <4>2
        <5> QED BY <4>1, <5>1 DEF At
      <4>3. CASE i > n - 1
        <5>1. i \notin DOMAIN left /\ i + 1 \notin DOMAIN arrays
          BY <1>1, <2>3, <4>3
        <5> QED BY <4>1, <5>1 DEF At
      <4> QED BY <1>1, <4>2, <4>3
    <3> QED BY <1>1, <3>1, <3>2
  <2> QED BY <2>2, <2>5, <2>6 DEF rest
<1>5. CASE v \notin 1..n
  <2>1. left = arrays /\ n < v
    BY <1>1, <1>5 DEF Without1
  <2> HIDE DEF n, l
  <2>2. Within(left, rest)
    <3>1. n <= l - 1 /\ \A j \in 1..n : rest[j] = terms[j]
      BY <1>1, <1>3, <2>1
    <3> QED BY <1>2, <1>3, <2>1, <3>1 DEF Within, n
  <2>3. ASSUME NEW i \in Nat \ {0}, NEW t PROVE At(left, i, t) = At(arrays, Was(i, v), t)
    <3>1. CASE i < v
      BY <2>1, <3>1 DEF Was
    <3>2. CASE i >= v
      <4>1. Was(i, v) = i + 1 /\ i \notin DOMAIN arrays /\ i + 1 \notin DOMAIN arrays
        BY <1>1, <2>1, <3>2 DEF Was
      <4> QED BY <2>1, <4>1 DEF At
    <3> QED BY <1>1, <3>1, <3>2
  <2> QED BY <2>1, <2>2, <2>3 DEF rest
<1> QED BY <1>4, <1>5

\* One of the arrays has lost a place.
Shifted(arrays, v, t, left) ==
    /\ \A i, s : i # v => At(left, i, s) = At(arrays, i, s)
    /\ \A s \in Nat \ {0} : At(left, v, s) = At(arrays, v, Was(s, t))

OneLess(terms, v) == [terms EXCEPT ![v] = @ - 1]

LEMMA ArraysTermGone ==
    ASSUME NEW T, NEW terms \in Seq(Nat), NEW arrays \in Seq(Seq(T)), Within(arrays, terms),
           NEW v \in DOMAIN arrays, NEW t \in DOMAIN arrays[v],
           NEW left, left = [arrays EXCEPT ![v] = RemoveAt(@, t)]
    PROVE  /\ left \in Seq(Seq(T)) /\ Within(left, terms)
           /\ Within(left, OneLess(terms, v)) /\ Shifted(arrays, v, t, left)
<1> DEFINE n == Len(arrays)
           old == arrays[v]
           new == RemoveAt(old, t)
           m == Len(old)
<1>1. /\ n \in Nat /\ DOMAIN arrays = 1..n /\ v \in 1..n
      /\ \A i \in 1..n : arrays[i] \in Seq(T) /\ Len(arrays[i]) \in Nat
  BY LenProperties, ElementOfSeq
<1>2. old \in Seq(T) /\ m \in Nat /\ DOMAIN old = 1..m /\ t \in 1..m
  BY <1>1, LenProperties
<1>3. /\ Len(terms) \in Nat /\ n <= Len(terms) /\ v \in 1..Len(terms)
      /\ \A i \in 1..n : Len(arrays[i]) <= terms[i] /\ terms[i] \in Nat
  BY <1>1, LenProperties, ElementOfSeq DEF Within
<1>4. left = [arrays EXCEPT ![v] = new]
  OBVIOUS
<1> HIDE DEF n, old
<1>5. /\ new \in Seq(T) /\ Len(new) = m - 1
      /\ \A j \in 1..t - 1 : new[j] = old[j]
      /\ \A j \in t..m - 1 : new[j] = old[j + 1]
  BY ONLY <1>2, RemoveAtProperties
<1> HIDE DEF new, m
<1>6. /\ left \in Seq(Seq(T)) /\ Len(left) = n
      /\ \A i \in 1..n : left[i] = IF i = v THEN new ELSE arrays[i]
  BY <1>1, <1>4, <1>5, ExceptSeq DEF n
<1>7. DOMAIN left = 1..n /\ DOMAIN new = 1..m - 1
  BY <1>5, <1>6, LenProperties
<1>8. Within(left, terms)
  <2>1. \A i \in 1..n : Len(left[i]) <= Len(arrays[i])
    BY <1>1, <1>2, <1>5, <1>6 DEF old, m
  <2>2. \A i \in 1..n : Len(left[i]) \in Nat
    BY <1>1, <1>2, <1>5, <1>6
  <2>3. ASSUME NEW i \in 1..n PROVE Len(left[i]) <= terms[i]
    <3>1. Len(left[i]) \in Nat /\ Len(arrays[i]) \in Nat /\ terms[i] \in Nat
      BY ONLY <1>1, <1>3, <2>2, <2>3
    <3>2. Len(left[i]) <= Len(arrays[i]) /\ Len(arrays[i]) <= terms[i]
      BY ONLY <1>3, <2>1, <2>3
    <3> DEFINE a == Len(left[i])
               b == Len(arrays[i])
               d == terms[i]
    <3>3. a \in Nat /\ b \in Nat /\ d \in Nat /\ a <= b /\ b <= d
      BY ONLY <3>1, <3>2
    <3> HIDE DEF a, b, d
    <3>4. a <= d
      BY ONLY <3>3
    <3> QED BY ONLY <3>4 DEF a, d
  <2> QED BY ONLY <1>3, <1>6, <2>3 DEF Within
<1>9. Within(left, OneLess(terms, v))
  <2> DEFINE after == OneLess(terms, v)
  <2>1. Len(after) = Len(terms)
    BY LenProperties DEF OneLess
  <2>2. \A i \in 1..n : after[i] = IF i = v THEN terms[i] - 1 ELSE terms[i]
    BY <1>3, LenProperties DEF OneLess
  <2> HIDE DEF after
  <2>3. \A i \in 1..n : Len(left[i]) <= after[i]
    <3>1. m <= terms[v]
      BY <1>1, <1>3 DEF m, old
    <3>2. ASSUME NEW i \in 1..n PROVE Len(left[i]) <= after[i]
      <4>1. CASE i = v
        <5>1. Len(left[i]) = m - 1 /\ after[i] = terms[v] - 1 /\ terms[v] \in Nat
          BY <1>3, <1>5, <1>6, <2>2, <4>1
        <5> QED BY <1>2, <3>1, <5>1
      <4>2. CASE i # v
        BY <1>3, <1>6, <2>2, <4>2
      <4> QED BY <4>1, <4>2
    <3> QED BY <3>2
  <2> QED BY <1>3, <1>6, <2>1, <2>3 DEF Within, after
<1>10. \A i, s : i # v => At(left, i, s) = At(arrays, i, s)
  BY <1>1, <1>6, <1>7 DEF At
<1>11. ASSUME NEW s \in Nat \ {0} PROVE At(left, v, s) = At(arrays, v, Was(s, t))
  <2>1. left[v] = new /\ v \in DOMAIN left
    BY <1>1, <1>6, <1>7
  <2>2. At(left, v, s) = IF s \in 1..m - 1 THEN new[s] ELSE 0
    BY <1>7, <2>1 DEF At
  <2>3. \A u : At(arrays, v, u) = IF u \in 1..m THEN old[u] ELSE 0
    BY <1>1, <1>2 DEF At, old
  <2>4. CASE s < t
    <3>1. Was(s, t) = s /\ s \in 1..m - 1 /\ s \in 1..m /\ s \in 1..t - 1
      BY <1>2, <2>4 DEF Was
    <3>2. new[s] = old[s]
      BY <1>5, <3>1
    <3> QED BY <2>2, <2>3, <3>1, <3>2
  <2>5. CASE s >= t /\ s <= m - 1
    <3>1. Was(s, t) = s + 1 /\ s \in 1..m - 1 /\ s + 1 \in 1..m /\ new[s] = old[s + 1]
      BY <1>2, <1>5, <2>5 DEF Was
    <3> QED BY <2>2, <2>3, <3>1
  <2>6. CASE s > m - 1
    <3>1. Was(s, t) \notin 1..m /\ s \notin 1..m - 1
      BY <1>2, <2>6 DEF Was
    <3> QED BY <2>2, <2>3, <3>1
  <2> QED BY <1>2, <2>4, <2>5, <2>6
<1> QED BY <1>6, <1>8, <1>9, <1>10, <1>11 DEF Shifted

\* after is fs when the variable is gone.
VariableLess(fs, after, v, input) ==
    /\ input => /\ v \in DOMAIN fs.inTerms
                /\ after.inTerms = RemoveAt(fs.inTerms, v)
                /\ after.inEnabled = RemoveAt(fs.inEnabled, v)
                /\ after.outTerms = fs.outTerms
    /\ ~input => /\ v \in DOMAIN fs.outTerms
                 /\ after.outTerms = RemoveAt(fs.outTerms, v)
                 /\ after.inTerms = fs.inTerms
                 /\ after.inEnabled = fs.inEnabled

\* Where the enabled inputs have been.
InputsWere(fs, after, v) ==
    \A i \in Enabled(after) : /\ i \in Nat \ {0}
                              /\ Was(i, v) \in Enabled(fs)
                              /\ after.inTerms[i] = fs.inTerms[Was(i, v)]

LEMMA InputLess ==
    ASSUME NEW fs, Vars(fs), NEW after, NEW v, VariableLess(fs, after, v, TRUE)
    PROVE  Vars(after) /\ v \in 1..Len(fs.inTerms) /\ InputsWere(fs, after, v)
<1> DEFINE l == Len(fs.inTerms)
           terms == after.inTerms
           on == after.inEnabled
<1>1. /\ terms = RemoveAt(fs.inTerms, v) /\ on = RemoveAt(fs.inEnabled, v)
      /\ v \in 1..l /\ l \in Nat /\ Len(fs.inEnabled) = l
      /\ after.outTerms = fs.outTerms
      /\ DOMAIN fs.inTerms = 1..l /\ DOMAIN fs.inEnabled = 1..l
  BY LenProperties DEF VariableLess, Vars
<1>2. fs.inTerms \in Seq(Nat) /\ fs.inEnabled \in Seq(BOOLEAN)
  BY DEF Vars
<1> HIDE DEF terms, on
<1>3. /\ terms \in Seq(Nat) /\ Len(terms) = l - 1
      /\ \A j \in 1..v - 1 : terms[j] = fs.inTerms[j]
      /\ \A j \in v..l - 1 : terms[j] = fs.inTerms[j + 1]
  BY <1>1, <1>2, RemoveAtProperties
<1>4. /\ on \in Seq(BOOLEAN) /\ Len(on) = l - 1
      /\ \A j \in 1..v - 1 : on[j] = fs.inEnabled[j]
      /\ \A j \in v..l - 1 : on[j] = fs.inEnabled[j + 1]
  <2> DEFINE B == BOOLEAN
             old == fs.inEnabled
  <2>1. old \in Seq(B) /\ on = RemoveAt(old, v) /\ v \in 1..Len(old) /\ Len(old) = l
    BY <1>1, <1>2
  <2> HIDE DEF B, old, l
  <2>2. /\ on \in Seq(B) /\ Len(on) = Len(old) - 1
        /\ \A j \in 1..v - 1 : on[j] = old[j]
        /\ \A j \in v..Len(old) - 1 : on[j] = old[j + 1]
    BY ONLY <2>1, RemoveAtProperties
  <2> QED BY <2>1, <2>2 DEF B, old
<1>5. DOMAIN terms = 1..l - 1
  BY <1>3, LenProperties
<1>6. Vars(after)
  BY <1>1, <1>3, <1>4 DEF Vars, terms, on
<1> HIDE DEF l
<1>7. ASSUME NEW i \in 1..l - 1, on[i]
      PROVE  /\ i \in Nat \ {0} /\ Was(i, v) \in 1..l /\ fs.inEnabled[Was(i, v)]
             /\ terms[i] = fs.inTerms[Was(i, v)]
  <2>1. CASE i < v
    <3>1. i \in 1..v - 1 /\ Was(i, v) = i /\ i \in 1..l
      BY <1>1, <2>1 DEF Was
    <3> QED BY <1>3, <1>4, <1>7, <3>1
  <2>2. CASE i >= v
    <3>1. i \in v..l - 1 /\ Was(i, v) = i + 1 /\ i + 1 \in 1..l
      BY <1>1, <2>2 DEF Was
    <3> QED BY <1>3, <1>4, <1>7, <3>1
  <2> QED BY <1>1, <2>1, <2>2
<1> QED BY <1>1, <1>5, <1>6, <1>7 DEF Enabled, InputsWere, terms, on

LEMMA OutputLess ==
    ASSUME NEW fs, Vars(fs), NEW after, NEW v, VariableLess(fs, after, v, FALSE)
    PROVE  Vars(after) /\ v \in 1..Len(fs.outTerms) /\ Enabled(after) = Enabled(fs)
<1>1. /\ v \in 1..Len(fs.outTerms) /\ after.outTerms = RemoveAt(fs.outTerms, v)
      /\ after.inTerms = fs.inTerms /\ after.inEnabled = fs.inEnabled
  BY LenProperties DEF VariableLess, Vars
<1>2. after.outTerms \in Seq(Nat)
  BY <1>1, RemoveAtProperties DEF Vars
<1> QED BY <1>1, <1>2 DEF Vars, Enabled

LEMMA ObservationRemoveVariableIs ==
    ASSUME NEW fs, Vars(fs), NEW after, NEW v, NEW input \in BOOLEAN,
           VariableLess(fs, after, v, input), NEW o \in Fitting(fs),
           NEW new, new = ObservationRemoveVariable(o, v, input)
    PROVE  new \in Fitting(after) /\ new.in = IF input THEN Without1(o.in, v) ELSE o.in
<1> DEFINE in == Without1(o.in, v)
           out == Without1(o.out, v)
<1>1. /\ o.in \in Seq(Seq({0, 1})) /\ Within(o.in, fs.inTerms)
      /\ o.out \in Seq(Seq(Weights)) /\ Within(o.out, fs.outTerms)
  BY ObservationIs
<1>2. o = [in |-> o.in, out |-> o.out]
  BY ObservationIs
<1>3. CASE input
  <2>1. new = [in |-> in, out |-> o.out]
    <3>1. CASE v \in DOMAIN o.in
      <4>1. new = [o EXCEPT !.in = RemoveAt(@, v)]
        BY <1>3, <3>1 DEF ObservationRemoveVariable
      <4> QED BY <1>2, <3>1, <4>1 DEF Without1
    <3>2. CASE v \notin DOMAIN o.in
      <4>1. new = o
        BY <1>3, <3>2 DEF ObservationRemoveVariable
      <4> QED BY <1>2, <3>2, <4>1 DEF Without1
    <3> QED BY <3>1, <3>2
  <2>2. v \in 1..Len(fs.inTerms) /\ fs.inTerms \in Seq(Nat)
    BY <1>3, InputLess DEF Vars
  <2>3. after.inTerms = RemoveAt(fs.inTerms, v) /\ after.outTerms = fs.outTerms
    BY <1>3 DEF VariableLess
  <2> HIDE DEF in
  <2>4. in \in Seq(Seq({0, 1})) /\ Within(in, after.inTerms)
    BY <1>1, <2>2, <2>3, ArraysWithout DEF in
  <2>5. new \in Fitting(after)
    BY <1>1, <2>1, <2>3, <2>4, ObservationMade
  <2>6. new.in = Without1(o.in, v)
    BY <2>1 DEF in
  <2> QED BY <1>3, <2>5, <2>6
<1>4. CASE ~input
  <2>1. new = [in |-> o.in, out |-> out]
    <3>1. CASE v \in DOMAIN o.out
      <4>1. new = [o EXCEPT !.out = RemoveAt(@, v)]
        BY <1>4, <3>1 DEF ObservationRemoveVariable
      <4> QED BY <1>2, <3>1, <4>1 DEF Without1
    <3>2. CASE v \notin DOMAIN o.out
      <4>1. new = o
        BY <1>4, <3>2 DEF ObservationRemoveVariable
      <4> QED BY <1>2, <3>2, <4>1 DEF Without1
    <3> QED BY <3>1, <3>2
  <2>2. v \in 1..Len(fs.outTerms) /\ fs.outTerms \in Seq(Nat)
    BY <1>4, OutputLess DEF Vars
  <2>3. after.outTerms = RemoveAt(fs.outTerms, v) /\ after.inTerms = fs.inTerms
    BY <1>4 DEF VariableLess
  <2> HIDE DEF out
  <2>4. out \in Seq(Seq(Weights)) /\ Within(out, after.outTerms)
    BY <1>1, <2>2, <2>3, ArraysWithout DEF out
  <2>5. new \in Fitting(after)
    BY <1>1, <2>1, <2>3, <2>4, ObservationMade
  <2>6. new.in = o.in
    BY <2>1
  <2> QED BY <1>4, <2>5, <2>6
<1> QED BY ONLY <1>3, <1>4

\* Observations that agreed still do.
LEMMA SameWithout ==
    ASSUME NEW fs, Vars(fs), NEW after, NEW v, NEW input \in BOOLEAN,
           VariableLess(fs, after, v, input), NEW o \in Fitting(fs), NEW p \in Fitting(fs),
           Same(fs, o, p)
    PROVE  Same(after, ObservationRemoveVariable(o, v, input), ObservationRemoveVariable(p, v, input))
<1> DEFINE x == ObservationRemoveVariable(o, v, input)
           y == ObservationRemoveVariable(p, v, input)
<1>1. \A i \in Enabled(fs) : \A t \in 1..fs.inTerms[i] : At(o.in, i, t) = At(p.in, i, t)
  BY DEF Same, EnabledInputEquals, SameOn, InBit
<1>4. /\ x.in = IF input THEN Without1(o.in, v) ELSE o.in
      /\ y.in = IF input THEN Without1(p.in, v) ELSE p.in
  BY ObservationRemoveVariableIs
<1>2. CASE input
  <2>1. x.in = Without1(o.in, v) /\ y.in = Without1(p.in, v)
    BY <1>2, <1>4
  <2>2. v \in 1..Len(fs.inTerms) /\ fs.inTerms \in Seq(Nat) /\ InputsWere(fs, after, v)
    <3>1. VariableLess(fs, after, v, TRUE)
      <4>1. input = TRUE
        BY <1>2
      <4> QED BY <4>1
    <3>2. fs.inTerms \in Seq(Nat)
      BY DEF Vars
    <3> QED BY ONLY <3>1, <3>2, Vars(fs), InputLess
  <2>3. /\ \A i \in Nat \ {0} : \A t : At(x.in, i, t) = At(o.in, Was(i, v), t)
        /\ \A i \in Nat \ {0} : \A t : At(y.in, i, t) = At(p.in, Was(i, v), t)
    BY <2>1, <2>2, ObservationIs, ArraysWithout
  <2> HIDE DEF x, y
  <2> QED BY <1>1, <2>2, <2>3 DEF InputsWere, Same, EnabledInputEquals, SameOn, InBit, x, y
<1>3. CASE ~input
  <2>1. x.in = o.in /\ y.in = p.in
    BY <1>3, <1>4
  <2>2. Enabled(after) = Enabled(fs) /\ after.inTerms = fs.inTerms
    BY <1>3, OutputLess DEF VariableLess
  <2> HIDE DEF x, y
  <2> QED BY <1>1, <2>1, <2>2 DEF Same, EnabledInputEquals, SameOn, InBit, x, y
<1> QED BY <1>2, <1>3

LEMMA GroupRemoveVariableIs ==
    ASSUME NEW fs, Vars(fs), NEW after, NEW v, NEW input \in BOOLEAN,
           VariableLess(fs, after, v, input), NEW group \in Group(fs),
           NEW new, new = GroupRemoveVariable(group, v, input)
    PROVE  new \in Seq(Fitting(after)) /\ (Agree(fs, group) => Agree(after, new))
<1> DEFINE Reduced(o) == ObservationRemoveVariable(o, v, input)
           left == [n \in DOMAIN group |-> Reduced(group[n])]
           S == {o \in Range(left) : ~IsEmpty(o)}
           F == Fitting(after)
<1>1. Len(group) \in Nat /\ DOMAIN group = 1..Len(group)
      /\ \A n \in 1..Len(group) : group[n] \in Fitting(fs)
  BY GroupIs
<1>2. left \in Seq(F) /\ DOMAIN left = DOMAIN group
  <2>1. \A n \in 1..Len(group) : left[n] \in F
    BY <1>1, ObservationRemoveVariableIs
  <2>2. left \in [1..Len(group) -> F] /\ DOMAIN left = 1..Len(group)
    BY <1>1, <2>1
  <2> HIDE DEF left, F
  <2> QED BY <1>1, <2>2, FunctionSeq
<1>3. new = Only(left, S)
  BY DEF GroupRemoveVariable
<1>4. \A n \in DOMAIN left : left[n] = Reduced(group[n])
  OBVIOUS
<1> HIDE DEF left, S, F
<1>5. new \in Seq(F) /\ ToSet(new) = ToSet(left) \cap S
  BY <1>2, <1>3, OnlyIs
<1>6. ASSUME Agree(fs, group) PROVE Agree(after, new)
  <2>1. ASSUME NEW i \in DOMAIN new PROVE \E n \in DOMAIN group : new[i] = Reduced(group[n])
    <3>1. new[i] \in ToSet(left)
      BY <1>5 DEF ToSet
    <3>2. PICK n \in DOMAIN left : new[i] = left[n]
      BY <3>1 DEF ToSet
    <3> QED BY <1>2, <1>4, <3>2
  <2>2. ASSUME NEW i \in DOMAIN new, NEW j \in DOMAIN new PROVE Same(after, new[i], new[j])
    <3>1. PICK n \in DOMAIN group : new[i] = Reduced(group[n])
      BY <2>1
    <3>2. PICK m \in DOMAIN group : new[j] = Reduced(group[m])
      BY <2>1
    <3>3. Same(fs, group[n], group[m]) /\ group[n] \in Fitting(fs) /\ group[m] \in Fitting(fs)
      BY <1>1, <1>6 DEF Agree
    <3> QED BY <3>1, <3>2, <3>3, SameWithout
  <2> QED BY <2>2 DEF Agree
<1> QED BY <1>5, <1>6 DEF F

-----------------------------------------------------------------------------
(* Terms that go                                                           *)

\* after is fs when the term is gone.
TermLess(fs, after, v, input) ==
    /\ input => /\ v \in DOMAIN fs.inTerms
                /\ after.inTerms = OneLess(fs.inTerms, v)
                /\ after.outTerms = fs.outTerms
    /\ ~input => /\ v \in DOMAIN fs.outTerms
                 /\ after.outTerms = OneLess(fs.outTerms, v)
                 /\ after.inTerms = fs.inTerms
    /\ after.inEnabled = fs.inEnabled

LEMMA ObservationRemoveTermIs ==
    ASSUME NEW fs, Vars(fs), NEW v, NEW t, NEW input \in BOOLEAN, NEW o \in Fitting(fs),
           RemoveTermOutcome(o, v, t, input) = "ok",
           NEW new, new = ObservationRemoveTerm(o, v, t, input)
    PROVE  /\ new \in Fitting(fs)
           /\ \A after : TermLess(fs, after, v, input) => new \in Fitting(after)
           /\ ~input => new.in = o.in
           /\ input => Shifted(o.in, v, t, new.in)
<1> DEFINE arrays == IF input THEN o.in ELSE o.out
           left == [arrays EXCEPT ![v] = RemoveAt(@, t)]
<1>1. /\ o.in \in Seq(Seq({0, 1})) /\ Within(o.in, fs.inTerms)
      /\ o.out \in Seq(Seq(Weights)) /\ Within(o.out, fs.outTerms)
  BY ObservationIs
<1>2. o = [in |-> o.in, out |-> o.out]
  BY ObservationIs
<1>3. v \in DOMAIN arrays /\ t \in DOMAIN arrays[v]
  BY DEF RemoveTermOutcome
<1>4. CASE input
  <2>1. arrays = o.in
    BY <1>4
  <2>2. new = [in |-> left, out |-> o.out]
    <3>1. new = [o EXCEPT !.in[v] = RemoveAt(@, t)]
      BY <1>4 DEF ObservationRemoveTerm
    <3>2. new = [o EXCEPT !.in = left]
      BY <2>1, <3>1
    <3> HIDE DEF left
    <3> QED BY ONLY <1>2, <3>2
  <2>3. fs.inTerms \in Seq(Nat)
    BY DEF Vars
  <2> HIDE DEF arrays, left
  <2>4. /\ left \in Seq(Seq({0, 1})) /\ Within(left, fs.inTerms)
        /\ Within(left, OneLess(fs.inTerms, v))
        /\ Shifted(arrays, v, t, left)
    <3>1. arrays \in Seq(Seq({0, 1})) /\ Within(arrays, fs.inTerms)
      BY <1>1, <2>1
    <3>2. left = [arrays EXCEPT ![v] = RemoveAt(@, t)]
      BY DEF left
    <3> QED BY ONLY <1>3, <2>3, <3>1, <3>2, ArraysTermGone
  <2>5. new \in Fitting(fs)
    BY <1>1, <2>2, <2>4, ObservationMade
  <2>6. ASSUME NEW after, TermLess(fs, after, v, input) PROVE new \in Fitting(after)
    <3>1. after.inTerms = OneLess(fs.inTerms, v) /\ after.outTerms = fs.outTerms
      BY <1>4, <2>6 DEF TermLess
    <3>2. Within(left, after.inTerms) /\ Within(o.out, after.outTerms)
      BY <1>1, <2>4, <3>1
    <3> QED BY <1>1, <2>2, <2>4, <3>2, ObservationMade
  <2>7. new.in = left
    BY <2>2
  <2> QED BY <1>4, <2>1, <2>4, <2>5, <2>6, <2>7
<1>5. CASE ~input
  <2>1. arrays = o.out
    BY <1>5
  <2>2. new = [in |-> o.in, out |-> left]
    <3>1. new = [o EXCEPT !.out[v] = RemoveAt(@, t)]
      BY <1>5 DEF ObservationRemoveTerm
    <3>2. new = [o EXCEPT !.out = left]
      BY <2>1, <3>1
    <3> HIDE DEF left
    <3> QED BY ONLY <1>2, <3>2
  <2>3. fs.outTerms \in Seq(Nat)
    BY DEF Vars
  <2> HIDE DEF arrays, left
  <2>4. /\ left \in Seq(Seq(Weights)) /\ Within(left, fs.outTerms)
        /\ Within(left, OneLess(fs.outTerms, v))
    BY <1>1, <1>3, <2>1, <2>3, ArraysTermGone DEF left
  <2>5. new \in Fitting(fs)
    BY <1>1, <2>2, <2>4, ObservationMade
  <2>6. ASSUME NEW after, TermLess(fs, after, v, input) PROVE new \in Fitting(after)
    <3>1. after.outTerms = OneLess(fs.outTerms, v) /\ after.inTerms = fs.inTerms
      BY <1>5, <2>6 DEF TermLess
    <3>2. Within(left, after.outTerms) /\ Within(o.in, after.inTerms)
      BY <1>1, <2>4, <3>1
    <3> QED BY <1>1, <2>2, <2>4, <3>2, ObservationMade
  <2>7. new.in = o.in
    BY <2>2
  <2> QED BY <1>5, <2>5, <2>6, <2>7
<1> QED BY <1>4, <1>5

===============================================================================
