-------------------------- MODULE FuzzyLearningProofs --------------------------
(***************************************************************************)
(* The knowledge of the fuzzy engine stays consistent whatever its clients *)
(* do: the theorems about FuzzyLearning.  Terms and variables that come and*)
(* measures that are learnt complete the calls; the invariant LearnInv     *)
(* gathers what all of them keep.                                          *)
(***************************************************************************)
EXTENDS FuzzyControllerProofs

-----------------------------------------------------------------------------
(* Terms and variables that come                                           *)

\* The engine has gained terms, or inputs; what observations have no room for
\* reads 0.
Grown(fs, after) ==
    /\ Len(after.outTerms) = Len(fs.outTerms)
    /\ \A n \in 1..Len(fs.outTerms) : fs.outTerms[n] <= after.outTerms[n]
    /\ Len(fs.inTerms) <= Len(after.inTerms)
    /\ \A i \in 1..Len(fs.inTerms) : /\ fs.inTerms[i] <= after.inTerms[i]
                                     /\ after.inEnabled[i] = fs.inEnabled[i]

LEMMA WithinGrown ==
    ASSUME NEW T, NEW arrays \in Seq(Seq(T)), NEW terms \in Seq(Nat), NEW more \in Seq(Nat),
           Len(terms) <= Len(more), \A v \in 1..Len(terms) : terms[v] <= more[v],
           Within(arrays, terms)
    PROVE  /\ Within(arrays, more)
           /\ \A v \in 1..Len(more) : \A t \in 1..more[v] :
                 (v \in 1..Len(terms) /\ t \in 1..terms[v]) \/ At(arrays, v, t) = 0
<1>1. /\ Len(arrays) \in Nat /\ DOMAIN arrays = 1..Len(arrays)
      /\ \A v \in 1..Len(arrays) : Len(arrays[v]) \in Nat /\ DOMAIN arrays[v] = 1..Len(arrays[v])
  BY LenProperties, ElementOfSeq
<1>2. /\ Len(terms) \in Nat /\ Len(more) \in Nat
      /\ \A v \in 1..Len(terms) : terms[v] \in Nat
      /\ \A v \in 1..Len(more) : more[v] \in Nat
  BY LenProperties, ElementOfSeq
<1>3. Len(arrays) <= Len(terms) /\ \A v \in 1..Len(arrays) : Len(arrays[v]) <= terms[v]
  BY DEF Within
<1>4. Within(arrays, more)
  <2>1. \A v \in 1..Len(arrays) : v \in 1..Len(terms) /\ v \in 1..Len(more)
    <3> DEFINE a == Len(arrays)
               b == Len(terms)
               d == Len(more)
    <3>1. a \in Nat /\ b \in Nat /\ d \in Nat /\ a <= b /\ b <= d
      BY ONLY <1>1, <1>2, <1>3, Len(terms) <= Len(more)
    <3> HIDE DEF a, b, d
    <3>2. \A v \in 1..a : v \in 1..b /\ v \in 1..d
      BY ONLY <3>1
    <3> QED BY ONLY <3>2 DEF a, b, d
  <2>2. \A v \in 1..Len(arrays) : Len(arrays[v]) <= more[v]
    <3> SUFFICES ASSUME NEW v \in 1..Len(arrays) PROVE Len(arrays[v]) <= more[v]
      OBVIOUS
    <3> DEFINE a == Len(arrays[v])
               b == terms[v]
               c == more[v]
    <3>1. a <= b /\ b <= c /\ a \in Nat /\ b \in Nat /\ c \in Nat
      BY <1>1, <1>2, <1>3, <2>1
    <3> HIDE DEF a, b, c
    <3>2. a <= c
      BY <3>1
    <3> QED BY <3>2 DEF a, c
  <2> QED BY <1>1, <1>2, <1>3, <2>2 DEF Within
<1>5. ASSUME NEW v \in 1..Len(more), NEW t \in 1..more[v],
             ~(v \in 1..Len(terms) /\ t \in 1..terms[v])
      PROVE  At(arrays, v, t) = 0
  <2>1. ~(v \in DOMAIN arrays /\ t \in DOMAIN arrays[v])
    <3>1. ASSUME v \in 1..Len(arrays), t \in 1..Len(arrays[v]) PROVE FALSE
      <4>0. v \in 1..Len(terms)
        BY ONLY <1>1, <1>2, <1>3, <3>1
      <4>1. v \in 1..Len(terms) /\ Len(arrays[v]) <= terms[v] /\ terms[v] \in Nat
            /\ Len(arrays[v]) \in Nat
        BY ONLY <1>1, <1>2, <1>3, <3>1, <4>0
      <4> DEFINE a == Len(arrays[v])
                 b == terms[v]
      <4>2. a \in Nat /\ b \in Nat /\ a <= b /\ t \in 1..a
        BY <3>1, <4>1
      <4> HIDE DEF a, b
      <4>3. t \in 1..b
        BY ONLY <4>2
      <4>4. v \in 1..Len(terms) /\ t \in 1..terms[v]
        BY <4>1, <4>3 DEF b
      <4> QED BY ONLY <1>5, <4>4
    <3> QED BY <1>1, <3>1
  <2> QED BY <2>1 DEF At
<1> QED BY <1>4, <1>5

LEMMA FittingGrown ==
    ASSUME NEW fs, NEW after, Vars(fs), Vars(after), Grown(fs, after), NEW o \in Fitting(fs)
    PROVE  /\ o \in Fitting(after)
           /\ \A i \in 1..Len(after.inTerms) : \A t \in 1..after.inTerms[i] :
                 (i \in 1..Len(fs.inTerms) /\ t \in 1..fs.inTerms[i]) \/ InBit(o, i, t) = 0
           /\ \A n \in 1..Len(after.outTerms) : \A t \in 1..after.outTerms[n] :
                 (n \in 1..Len(fs.outTerms) /\ t \in 1..fs.outTerms[n]) \/ OutWeight(o, n, t) = 0
<1>1. /\ o = [in |-> o.in, out |-> o.out]
      /\ o.in \in Seq(Seq({0, 1})) /\ Within(o.in, fs.inTerms)
      /\ o.out \in Seq(Seq(Weights)) /\ Within(o.out, fs.outTerms)
  BY ObservationIs
<1>2. /\ fs.inTerms \in Seq(Nat) /\ after.inTerms \in Seq(Nat)
      /\ fs.outTerms \in Seq(Nat) /\ after.outTerms \in Seq(Nat)
  BY DEF Vars
<1>3. /\ Within(o.in, after.inTerms)
      /\ \A i \in 1..Len(after.inTerms) : \A t \in 1..after.inTerms[i] :
            (i \in 1..Len(fs.inTerms) /\ t \in 1..fs.inTerms[i]) \/ At(o.in, i, t) = 0
  BY <1>1, <1>2, WithinGrown DEF Grown
<1>4. Len(fs.outTerms) <= Len(after.outTerms)
  BY <1>2 DEF Grown
<1>5. /\ Within(o.out, after.outTerms)
      /\ \A n \in 1..Len(after.outTerms) : \A t \in 1..after.outTerms[n] :
            (n \in 1..Len(fs.outTerms) /\ t \in 1..fs.outTerms[n]) \/ At(o.out, n, t) = 0
  BY <1>1, <1>2, <1>4, WithinGrown DEF Grown
<1>6. o \in Fitting(after)
  BY <1>1, <1>3, <1>5, ObservationMade
<1> QED BY <1>3, <1>5, <1>6 DEF InBit, OutWeight

\* The enabled inputs are what they were, and perhaps one more.
LEMMA EnabledGrown ==
    ASSUME NEW fs, NEW after, Vars(fs), Vars(after), Grown(fs, after)
    PROVE  /\ Enabled(fs) = Enabled(after) \cap (1..Len(fs.inTerms))
           /\ Enabled(after) \subseteq 1..Len(after.inTerms)
           /\ \A i \in Enabled(fs) : i \in 1..Len(fs.inTerms) /\ 1..fs.inTerms[i] \subseteq 1..after.inTerms[i]
<1>1. /\ fs.inTerms \in Seq(Nat) /\ after.inTerms \in Seq(Nat)
  BY DEF Vars
<1>2. /\ Len(fs.inTerms) \in Nat /\ DOMAIN fs.inTerms = 1..Len(fs.inTerms)
      /\ Len(after.inTerms) \in Nat /\ DOMAIN after.inTerms = 1..Len(after.inTerms)
      /\ \A i \in 1..Len(fs.inTerms) : fs.inTerms[i] \in Nat
      /\ \A i \in 1..Len(after.inTerms) : after.inTerms[i] \in Nat
  BY <1>1, LenProperties, ElementOfSeq
<1>3. Enabled(fs) = Enabled(after) \cap (1..Len(fs.inTerms))
  BY <1>2 DEF Enabled, Grown
<1>4. \A i \in 1..Len(fs.inTerms) : 1..fs.inTerms[i] \subseteq 1..after.inTerms[i]
  <2> SUFFICES ASSUME NEW i \in 1..Len(fs.inTerms), NEW t \in 1..fs.inTerms[i] PROVE t \in 1..after.inTerms[i]
    OBVIOUS
  <2>1. i \in 1..Len(after.inTerms) /\ fs.inTerms[i] <= after.inTerms[i]
    BY <1>2 DEF Grown
  <2> QED BY <1>2, <2>1
<1> QED BY <1>2, <1>3, <1>4 DEF Enabled

\* Observations agree as they did.
LEMMA SameOnGrown ==
    ASSUME NEW fs, NEW after, Vars(fs), Vars(after), Grown(fs, after),
           NEW o \in Fitting(fs), NEW p \in Fitting(fs), NEW R
    PROVE  SameOn(fs, o, p, Enabled(fs) \cap R) <=> SameOn(after, o, p, Enabled(after) \cap R)
<1>1. /\ Enabled(fs) = Enabled(after) \cap (1..Len(fs.inTerms))
      /\ Enabled(after) \subseteq 1..Len(after.inTerms)
      /\ \A i \in Enabled(fs) : i \in 1..Len(fs.inTerms) /\ 1..fs.inTerms[i] \subseteq 1..after.inTerms[i]
  BY EnabledGrown
<1>2. \A i \in 1..Len(after.inTerms) : \A t \in 1..after.inTerms[i] :
         \/ i \in 1..Len(fs.inTerms) /\ t \in 1..fs.inTerms[i]
         \/ InBit(o, i, t) = 0 /\ InBit(p, i, t) = 0
  BY FittingGrown
<1>3. ASSUME SameOn(after, o, p, Enabled(after) \cap R)
      PROVE  SameOn(fs, o, p, Enabled(fs) \cap R)
  BY <1>1, <1>3 DEF SameOn
<1>4. ASSUME SameOn(fs, o, p, Enabled(fs) \cap R)
      PROVE  SameOn(after, o, p, Enabled(after) \cap R)
  <2>1. ASSUME NEW i \in Enabled(after) \cap R, NEW t \in 1..after.inTerms[i]
        PROVE  InBit(o, i, t) = InBit(p, i, t)
    <3>1. CASE i \in 1..Len(fs.inTerms) /\ t \in 1..fs.inTerms[i]
      BY <1>1, <1>4, <2>1, <3>1 DEF SameOn
    <3>2. CASE ~(i \in 1..Len(fs.inTerms) /\ t \in 1..fs.inTerms[i])
      BY <1>1, <1>2, <2>1, <3>2
    <3> QED BY <3>1, <3>2
  <2> QED BY <2>1 DEF SameOn
<1> QED BY <1>3, <1>4

LEMMA SameGrown ==
    ASSUME NEW fs, NEW after, Vars(fs), Vars(after), Grown(fs, after),
           NEW o \in Fitting(fs), NEW p \in Fitting(fs)
    PROVE  Same(fs, o, p) <=> Same(after, o, p)
<1> DEFINE R == Enabled(fs) \cup Enabled(after)
<1>1. Enabled(fs) \cap R = Enabled(fs) /\ Enabled(after) \cap R = Enabled(after)
  OBVIOUS
<1> HIDE DEF R
<1>2. SameOn(fs, o, p, Enabled(fs) \cap R) <=> SameOn(after, o, p, Enabled(after) \cap R)
  BY SameOnGrown
<1> QED BY <1>1, <1>2 DEF Same, EnabledInputEquals

\* The weights of an observation, summed up.
PlusStep(c, sum, w) == sum + w

Weighing == INSTANCE SeqLemmas WITH FoldOp <- PlusStep

LEMMA TotalWeightIs ==
    ASSUME NEW fs, NEW o, NEW n
    PROVE  TotalWeight(fs, o, n) =
              Weighing!Folded(0, 0, [t \in 1..fs.outTerms[n] |-> OutWeight(o, n, t)])
BY DEF TotalWeight, FoldLeft, MapThenFoldSet, Weighing!Folded, Weighing!IterEq, Weighing!Largest,
       Max, PlusStep

LEMMA OutputEqualsGrown ==
    ASSUME NEW fs, NEW after, Vars(fs), Vars(after), Grown(fs, after),
           NEW o \in Fitting(fs), NEW p \in Fitting(fs), NEW n \in 1..Len(fs.outTerms),
           OutputEquals(fs, o, p, n)
    PROVE  OutputEquals(after, o, p, n)
<1>1. /\ fs.outTerms[n] \in Nat /\ after.outTerms[n] \in Nat
      /\ fs.outTerms[n] <= after.outTerms[n] /\ n \in 1..Len(after.outTerms)
  <2>1. fs.outTerms \in Seq(Nat) /\ after.outTerms \in Seq(Nat)
    BY DEF Vars
  <2> QED BY <2>1, ElementOfSeq DEF Grown
\* What comes after the weights there were adds nothing.
<1>2. ASSUME NEW x \in Fitting(fs)
      PROVE  /\ TotalWeight(after, x, n) = TotalWeight(fs, x, n)
             /\ TotalWeight(fs, x, n) \in Nat
             /\ \A t \in 1..after.outTerms[n] :
                   /\ OutWeight(x, n, t) \in Nat
                   /\ t \in 1..fs.outTerms[n] \/ OutWeight(x, n, t) = 0
  <2> DEFINE a == fs.outTerms[n]
             b == after.outTerms[n]
             s == [t \in 1..a |-> OutWeight(x, n, t)]
             u == [t \in 1..b |-> OutWeight(x, n, t)]
  <2>1. \A t \in 1..b : OutWeight(x, n, t) \in Nat
    BY OutWeightIs, WeightAssumption DEF Weights
  <2>2. \A t \in 1..b : t \in 1..a \/ OutWeight(x, n, t) = 0
    BY <1>1, FittingGrown
  <2>3. a \in Nat /\ b \in Nat /\ a <= b
    BY <1>1
  <2>4. /\ TotalWeight(fs, x, n) = Weighing!Folded(0, 0, s)
        /\ TotalWeight(after, x, n) = Weighing!Folded(0, 0, u)
    BY TotalWeightIs
  <2>5. /\ \A t \in 1..a : s[t] = u[t]
        /\ \A t \in 1..b : t > a => u[t] = 0
    BY <2>2, <2>3
  <2>6. s \in [1..a -> Nat] /\ u \in [1..b -> Nat]
    BY <2>1, <2>3
  <2> HIDE DEF s, u, a, b
  <2>7. s \in Seq(Nat) /\ Len(s) = a /\ u \in Seq(Nat) /\ Len(u) = b
    BY <2>3, <2>6, FunctionSeq
  <2>8. Weighing!Additive(0, Nat) /\ \A w \in Nat : Weighing!Share(0, w) = w
    BY DEF Weighing!Additive, Weighing!Share, PlusStep
  <2>9. \A t \in 1..Len(u) : t > Len(s) => Weighing!Share(0, u[t]) = 0
    BY <2>5, <2>7, <2>8
  <2>10. Weighing!Folded(0, 0, s) = Weighing!Folded(0, 0, u)
    BY <2>3, <2>5, <2>7, <2>8, <2>9, Weighing!SumPadded
  <2>11. Weighing!Folded(0, 0, s) \in Nat
    BY <2>7, <2>8, Weighing!SumType
  <2> QED BY <2>1, <2>2, <2>4, <2>10, <2>11 DEF a, b
<1> DEFINE v == TotalWeight(fs, o, n)
           w == TotalWeight(fs, p, n)
<1>3. /\ v \in Nat /\ TotalWeight(after, o, n) = v
      /\ w \in Nat /\ TotalWeight(after, p, n) = w
  BY <1>2
<1>4. \/ v = 0 /\ w = 0
      \/ /\ v # 0 /\ w # 0
         /\ \A t \in 1..fs.outTerms[n] : OutWeight(o, n, t) \div v = OutWeight(p, n, t) \div w
  BY DEF OutputEquals
<1> HIDE DEF v, w
<1>5. ASSUME v # 0, w # 0, NEW t \in 1..after.outTerms[n],
             \A r \in 1..fs.outTerms[n] : OutWeight(o, n, r) \div v = OutWeight(p, n, r) \div w
      PROVE  OutWeight(o, n, t) \div v = OutWeight(p, n, t) \div w
  <2>1. CASE t \in 1..fs.outTerms[n]
    BY <1>5, <2>1
  <2>2. CASE t \notin 1..fs.outTerms[n]
    <3>1. OutWeight(o, n, t) = 0 /\ OutWeight(p, n, t) = 0
      BY <1>2, <2>2
    <3>2. 0 \div v = 0 /\ 0 \div w = 0
      BY <1>3, <1>5
    <3> QED BY <3>1, <3>2
  <2> QED BY <2>1, <2>2
<1> QED BY <1>3, <1>4, <1>5 DEF OutputEquals

\* A rule group says what it said.
LEMMA GoodGrown ==
    ASSUME NEW fs, NEW after, Vars(fs), Vars(after), Grown(fs, after),
           NEW k, NEW n \in 1..Len(fs.outTerms), NEW c, c = Context(fs, k, n),
           NEW d, d = Context(after, k, n), NEW a, Plain(a), NEW rg \in RuleGroup, Good(c, a, rg),
           a.speaks => \A g \in Obs(rg) : k.heap[g] \in Group(fs)
    PROVE  Good(d, a, rg)
<1>1. /\ c.fz = fs /\ c.out = n /\ d.fz = after /\ d.out = n
      /\ \A g : First(c, g) = Head(k.heap[g]) /\ First(d, g) = Head(k.heap[g])
  BY DEF Context, First
<1>2. /\ rg.obs # <<>> /\ IsInjective(rg.obs)
      /\ a.single => Len(rg.obs) = 1
      /\ a.speaks => Speaks(c, {}, rg)
  BY DEF Good, Plain
<1>3. rg.obs[1] \in Obs(rg)
  BY <1>2, ToSetEmpty DEF Obs, RuleGroup
<1>4. ASSUME a.speaks PROVE Speaks(d, {}, rg)
  <2>1. ASSUME NEW g \in Obs(rg) PROVE Head(k.heap[g]) \in Fitting(fs)
    <3> DEFINE group == k.heap[g]
    <3>1. group \in Group(fs)
      BY <1>4
    <3> HIDE DEF group
    <3>2. 1 \in 1..Len(group) /\ Head(group) = group[1] /\ \A i \in 1..Len(group) : group[i] \in Fitting(fs)
      BY <3>1, GroupIs
    <3> QED BY <3>2 DEF group
  <2>2. ASSUME NEW g \in Obs(rg), NEW h \in Obs(rg)
        PROVE  SameOn(d.fz, First(d, g), First(d, h), Enabled(d.fz) \cap rg.relevant)
    <3> DEFINE R == rg.relevant
               o == Head(k.heap[g])
               p == Head(k.heap[h])
    <3>1. SameOn(fs, o, p, Enabled(fs) \cap R)
      BY <1>1, <1>2, <1>4 DEF Speaks
    <3>2. o \in Fitting(fs) /\ p \in Fitting(fs)
      BY <2>1
    <3> HIDE DEF R, o, p
    <3>3. SameOn(after, o, p, Enabled(after) \cap R)
      BY <3>1, <3>2, SameOnGrown
    <3> QED BY <1>1, <3>3 DEF R, o, p
  <2>3. ASSUME NEW g \in Obs(rg) \ {}, NEW h \in Obs(rg) \ {}
        PROVE  OutputEquals(d.fz, First(d, g), First(d, h), d.out)
    <3> DEFINE o == Head(k.heap[g])
               p == Head(k.heap[h])
    <3>1. OutputEquals(fs, o, p, n)
      BY <1>1, <1>2, <1>4 DEF Speaks
    <3>2. o \in Fitting(fs) /\ p \in Fitting(fs)
      BY <2>1
    <3> HIDE DEF o, p
    <3>3. OutputEquals(after, o, p, n)
      BY <3>1, <3>2, OutputEqualsGrown
    <3> QED BY <1>1, <3>3 DEF o, p
  <2>4. Antecedent(d, rg) = Antecedent(c, rg)
    <3> DEFINE o == Head(k.heap[rg.obs[1]])
               R == rg.relevant
    <3>1. o \in Fitting(fs)
      BY <1>3, <2>1
    <3>2. /\ Antecedent(c, rg) =
                UNION {{<<i, t>> : t \in {t \in 1..fs.inTerms[i] : InBit(o, i, t) = 1}} :
                         i \in Enabled(fs) \cap R}
          /\ Antecedent(d, rg) =
                UNION {{<<i, t>> : t \in {t \in 1..after.inTerms[i] : InBit(o, i, t) = 1}} :
                         i \in Enabled(after) \cap R}
      BY <1>1 DEF Antecedent
    <3> HIDE DEF o, R
    <3>3. /\ Enabled(fs) = Enabled(after) \cap (1..Len(fs.inTerms))
          /\ Enabled(after) \subseteq 1..Len(after.inTerms)
          /\ \A i \in Enabled(fs) : i \in 1..Len(fs.inTerms) /\ 1..fs.inTerms[i] \subseteq 1..after.inTerms[i]
      BY EnabledGrown
    <3>4. \A i \in 1..Len(after.inTerms) : \A t \in 1..after.inTerms[i] :
             (i \in 1..Len(fs.inTerms) /\ t \in 1..fs.inTerms[i]) \/ InBit(o, i, t) = 0
      BY <3>1, FittingGrown
    <3>5. ASSUME NEW q \in Antecedent(c, rg) PROVE q \in Antecedent(d, rg)
      <4>1. PICK i \in Enabled(fs) \cap R : \E t \in 1..fs.inTerms[i] : InBit(o, i, t) = 1 /\ q = <<i, t>>
        BY <3>2, <3>5
      <4>2. PICK t \in 1..fs.inTerms[i] : InBit(o, i, t) = 1 /\ q = <<i, t>>
        BY <4>1
      <4>3. i \in Enabled(after) \cap R /\ t \in 1..after.inTerms[i]
        BY <3>3
      <4> QED BY <3>2, <4>2, <4>3
    <3>6. ASSUME NEW q \in Antecedent(d, rg) PROVE q \in Antecedent(c, rg)
      <4>1. PICK i \in Enabled(after) \cap R : \E t \in 1..after.inTerms[i] : InBit(o, i, t) = 1 /\ q = <<i, t>>
        BY <3>2, <3>6
      <4>2. PICK t \in 1..after.inTerms[i] : InBit(o, i, t) = 1 /\ q = <<i, t>>
        BY <4>1
      <4>3. i \in 1..Len(fs.inTerms) /\ t \in 1..fs.inTerms[i]
        BY <3>3, <3>4, <4>2
      <4>4. i \in Enabled(fs) \cap R
        BY <3>3, <4>3
      <4> QED BY <3>2, <4>2, <4>3, <4>4
    <3> QED BY <3>5, <3>6
  <2>5. \A rule \in rg.rules : rule.if = Antecedent(d, rg)
    BY <1>2, <1>4, <2>4 DEF Speaks
  <2> QED BY <2>2, <2>3, <2>5 DEF Speaks
<1> QED BY <1>2, <1>4 DEF Good, Plain

LEMMA MappedGrown ==
    ASSUME NEW fs, NEW after, Vars(fs), Vars(after), Grown(fs, after),
           NEW k, NEW a, Plain(a), NEW S, Mapped(fs, k, a, S), Len(k.map) <= Len(fs.outTerms),
           a.speaks => \A g \in S : k.heap[g] \in Group(fs)
    PROVE  Mapped(after, k, a, S)
<1>1. Knowing(k) /\ Carried(a.rule, k)
  BY DEF Mapped
<1>2. DOMAIN k.map \subseteq 1..Len(fs.outTerms)
  <2>1. k.map \in Seq(Seq(RuleGroup)) /\ fs.outTerms \in Seq(Nat)
    BY <1>1 DEF Carried, Vars
  <2> QED BY <2>1
<1>3. ASSUME NEW n \in DOMAIN k.map
      PROVE  Listed(Context(after, k, n), a, S, k.map[n])
  <2> DEFINE c == Context(fs, k, n)
             d == Context(after, k, n)
             list == k.map[n]
  <2>1. Listed(c, a, S, list)
    BY <1>3 DEF Mapped
  <2>2. n \in 1..Len(fs.outTerms)
    BY <1>2
  <2>3. c = Context(fs, k, n) /\ d = Context(after, k, n)
    OBVIOUS
  <2> HIDE DEF c, d, list
  <2>4. ASSUME NEW r \in DOMAIN list PROVE Good(d, a, list[r])
    <3>1. list[r] \in RuleGroup /\ Good(c, a, list[r]) /\ Obs(list[r]) \subseteq S
      BY <2>1, ElementOfSeq DEF Listed
    <3> DEFINE rg == list[r]
    <3>2. rg \in RuleGroup /\ Good(c, a, rg)
      BY <3>1
    <3>3. a.speaks => \A g \in Obs(rg) : k.heap[g] \in Group(fs)
      BY <3>1
    <3> HIDE DEF rg
    <3>4. Good(d, a, rg)
      BY <2>2, <2>3, <3>2, <3>3, GoodGrown
    <3> QED BY <3>4 DEF rg
  <2>5. Listed(d, a, S, list)
    BY <2>1, <2>4 DEF Listed
  <2> QED BY <2>5 DEF d, list
<1> QED BY <1>1, <1>3 DEF Mapped

\* A group fits as it did.
LEMMA GroupGrown ==
    ASSUME NEW fs, NEW after, Vars(fs), Vars(after), Grown(fs, after)
    PROVE  Group(fs) \subseteq Group(after)
<1>1. Fitting(fs) \subseteq Fitting(after)
  BY FittingGrown
<1> QED BY <1>1 DEF Group

LEMMA SaneGrown ==
    ASSUME NEW fs, NEW after, Vars(fs), Vars(after), Grown(fs, after),
           NEW k, NEW speaks, NEW e, Sane(fs, k, speaks, e)
    PROVE  Sane(after, k, speaks, e)
<1> DEFINE a == ClaimOf(speaks, k, e)
           S == ToSet(k.cache)
<1>1. /\ Mapped(fs, k, a, S) /\ Plain(a) /\ k.heap \in [S -> Group(fs)]
      /\ k.cache \in Seq(Nat) /\ IsInjective(k.cache) /\ Outlined(fs, k)
  BY DEF Sane, Whole, Kept
<1> HIDE DEF a, S
<1>2. Len(k.map) <= Len(fs.outTerms)
  BY <1>1, OutlinedIs
<1>3. Mapped(after, k, a, S)
  BY <1>1, <1>2, MappedGrown
<1>4. k.heap \in [S -> Group(after)]
  BY <1>1, GroupGrown
<1>5. Outlined(after, k)
  BY <1>1 DEF Outlined, Grown
<1>6. Whole(after, k, a, Group(after))
  BY <1>1, <1>3, <1>4 DEF Whole, Kept, S
<1> QED BY <1>5, <1>6 DEF Sane, a

LEMMA ApartGrown ==
    ASSUME NEW fs, NEW after, Vars(fs), Vars(after), Grown(fs, after),
           NEW k, k.heap \in [ToSet(k.cache) -> Group(fs)], Apart(fs, k)
    PROVE  Apart(after, k)
<1> DEFINE S == ToSet(k.cache)
<1>1. Agreed(fs, k.heap, S) /\ Distinct(fs, k.heap, S)
  BY DEF Apart
<1>2. ASSUME NEW g \in S
      PROVE  /\ Head(k.heap[g]) \in Fitting(fs)
             /\ \A i \in DOMAIN k.heap[g] : k.heap[g][i] \in Fitting(fs)
  <2> DEFINE group == k.heap[g]
  <2>1. group \in Group(fs)
    OBVIOUS
  <2> HIDE DEF group
  <2>2. 1 \in 1..Len(group) /\ Head(group) = group[1] /\ DOMAIN group = 1..Len(group)
        /\ \A i \in 1..Len(group) : group[i] \in Fitting(fs)
    BY <2>1, GroupIs
  <2> QED BY <2>2 DEF group
<1>3. \A o \in Fitting(fs), p \in Fitting(fs) : Same(fs, o, p) <=> Same(after, o, p)
  BY SameGrown
<1>4. Agreed(after, k.heap, S)
  BY <1>1, <1>2, <1>3 DEF Agreed, Agree
<1>5. Distinct(after, k.heap, S)
  BY <1>1, <1>2, <1>3 DEF Distinct
<1> QED BY <1>4, <1>5 DEF Apart

-----------------------------------------------------------------------------
(* A measure is learnt                                                     *)

\* Two observations that both read as the measure agree.
LEMMA ValuesAgree ==
    ASSUME NEW fs, NEW m, NEW o, NEW p
    PROVE  /\ EnabledValuesEqual(fs, o, m) /\ EnabledValuesEqual(fs, p, m) => Same(fs, o, p)
           /\ Same(fs, o, p) /\ EnabledValuesEqual(fs, p, m) => EnabledValuesEqual(fs, o, m)
BY DEF EnabledValuesEqual, Same, EnabledInputEquals, SameOn

\* A new observation reads as the measure it is made from.
LEMMA NewValues ==
    ASSUME NEW fs, Vars(fs), NEW m, NEW o, o.in = ObservationNew(fs, m).in
    PROVE  EnabledValuesEqual(fs, o, m)
<1>1. o.in = [i \in DOMAIN fs.inTerms |-> [t \in 1..fs.inTerms[i] |->
                 Bit(fs.inEnabled[i] /\ t \in m.in[i])]]
  BY DEF ObservationNew
<1>2. ASSUME NEW i \in Enabled(fs), NEW t \in 1..fs.inTerms[i]
      PROVE  At(o.in, i, t) = Bit(t \in m.in[i])
  <2>1. i \in DOMAIN fs.inTerms /\ fs.inEnabled[i]
    BY DEF Enabled
  <2>2. i \in DOMAIN o.in /\ t \in DOMAIN o.in[i] /\ o.in[i][t] = Bit(fs.inEnabled[i] /\ t \in m.in[i])
    BY <1>1, <2>1
  <2>3. Bit(fs.inEnabled[i] /\ t \in m.in[i]) = Bit(t \in m.in[i])
    BY <2>1 DEF Bit
  <2> QED BY <2>2, <2>3 DEF At
<1> QED BY <1>2 DEF EnabledValuesEqual, InBit

\* There is something to be learnt from the measure.
Learns(fs, m) == /\ SomethingSet(fs, m)
                 /\ \E k \in DOMAIN fs.outTerms : \E t \in 1..fs.outTerms[k] : t \in m.out[k]

\* What a measure makes of a group: nothing, or its observations have the
\* inputs they had, or there is one more that has the measure's.  A group
\* that reads as the measure does not let it pass.
HitOf(fs, group, m, hit) ==
    /\ \A j \in DOMAIN hit[1] :
          \/ \E i \in DOMAIN group : hit[1][j].in = group[i].in
          \/ /\ hit[1][j].in = ObservationNew(fs, m).in
             /\ group # <<>> => EnabledValuesEqual(fs, Head(group), m)
    /\ ~hit[2] /\ ~hit[3] /\ Learns(fs, m) /\ group # <<>> =>
          ~EnabledValuesEqual(fs, Head(group), m)

LEMMA HitIs ==
    ASSUME NEW fs, fs.inTerms \in Seq(Nat), fs.outTerms \in Seq(Nat),
           NEW group \in Seq(Fitting(fs)), NEW m, NEW grows,
           NEW hit, hit = GroupHit(fs, group, m, grows)
    PROVE  HitOf(fs, group, m, hit)
<1> DEFINE bases == {n \in DOMAIN group : IsBase(fs, group[n])}
           new == ObservationHit(fs, ObservationNew(fs, m), m, grows)
           F == Fitting(fs)
           n == CHOOSE n \in bases : \A b \in bases : n <= b
           other == group # <<>> /\ ~EnabledValuesEqual(fs, Head(group), m)
           mine == HitFails(fs, group[n], m, grows)
           Whose(o) == \E i \in DOMAIN group : o.in = group[i].in
<1>1. hit = IF other THEN <<group, FALSE, FALSE>>
            ELSE IF bases # {}
            THEN <<[group EXCEPT ![n] = ObservationHit(fs, @, m, grows)], TRUE, mine>>
            ELSE IF Learns(fs, m) THEN <<Append(group, new), TRUE, FALSE>> ELSE <<group, FALSE, FALSE>>
  BY DEF GroupHit, Learns
<1>2. new \in F /\ new.in = ObservationNew(fs, m).in
  BY ObservationNewIs, ObservationHitIs
<1>3. group \in Seq(F) /\ Len(group) \in Nat /\ DOMAIN group = 1..Len(group)
      /\ \A i \in 1..Len(group) : group[i] \in F
  BY LenProperties, ElementOfSeq
<1>4. bases # {} => n \in bases /\ n \in 1..Len(group)
  <2>1. SUFFICES ASSUME bases # {} PROVE n \in bases
    BY <1>3
  <2>2. bases \in SUBSET Nat
    BY <1>3
  <2>3. \E i \in bases : \A b \in bases : i <= b
    BY <2>1, <2>2, LeastElement
  <2> QED BY <2>3
<1>5. \E r : bases # {} => /\ r = [group EXCEPT ![n] = ObservationHit(fs, @, m, grows)]
                           /\ \A j \in DOMAIN r : Whose(r[j])
  <2> SUFFICES ASSUME bases # {}
               PROVE  \E r : /\ r = [group EXCEPT ![n] = ObservationHit(fs, @, m, grows)]
                             /\ \A j \in DOMAIN r : Whose(r[j])
    OBVIOUS
  <2> DEFINE o == ObservationHit(fs, group[n], m, grows)
             r == [group EXCEPT ![n] = o]
  <2>1. n \in 1..Len(group) /\ group[n] \in F
    BY <1>3, <1>4
  <2> HIDE DEF n
  <2>2. o \in F /\ o.in = group[n].in
    BY <2>1, ObservationHitIs
  <2> HIDE DEF o
  <2>3. DOMAIN r = DOMAIN group /\ \A i \in DOMAIN group : r[i] = IF i = n THEN o ELSE group[i]
    BY <1>3, <2>1
  <2> HIDE DEF r
  <2>4. n \in DOMAIN group
    BY ONLY <1>3, <2>1
  <2>5. \A j \in DOMAIN r : Whose(r[j])
    BY ONLY <2>2, <2>3, <2>4
  <2>6. r = [group EXCEPT ![n] = ObservationHit(fs, @, m, grows)]
    BY ONLY DEF r, o
  <2> HIDE DEF Whose
  <2> QED BY ONLY <2>5, <2>6
<1>6. \A j \in DOMAIN Append(group, new) :
         Whose(Append(group, new)[j]) \/ Append(group, new)[j].in = ObservationNew(fs, m).in
  <2> HIDE DEF new
  <2> DEFINE r == Append(group, new)
  <2>1. /\ r \in Seq(F) /\ Len(r) = Len(group) + 1 /\ r[Len(group) + 1] = new
        /\ \A i \in 1..Len(group) : r[i] = group[i]
    BY <1>2, <1>3, AppendProperties
  <2> HIDE DEF r
  <2>2. DOMAIN r = 1..Len(group) + 1
    BY <1>3, <2>1, LenProperties
  <2>3. ASSUME NEW j \in DOMAIN r PROVE Whose(r[j]) \/ r[j].in = ObservationNew(fs, m).in
    <3>1. j \in 1..Len(group) \/ j = Len(group) + 1
      BY <1>3, <2>2
    <3> QED BY <1>2, <1>3, <2>1, <3>1
  <2> QED BY <2>3 DEF r
<1>7. \A j \in DOMAIN group : Whose(group[j])
  OBVIOUS
<1> HIDE DEF bases, n, new, mine, F, Whose
<1>8. PICK r : bases # {} => /\ r = [group EXCEPT ![n] = ObservationHit(fs, @, m, grows)]
                             /\ \A j \in DOMAIN r : Whose(r[j])
  BY <1>5
<1> DEFINE eve == EnabledValuesEqual(fs, Head(group), m)
           in == ObservationNew(fs, m).in
<1>9. HitOf(fs, group, m, hit) <=>
         /\ \A j \in DOMAIN hit[1] : Whose(hit[1][j]) \/ (hit[1][j].in = in /\ (group # <<>> => eve))
         /\ ~hit[2] /\ ~hit[3] /\ Learns(fs, m) /\ group # <<>> => ~eve
  BY DEF HitOf, Whose
<1>10. other <=> group # <<>> /\ ~eve
  OBVIOUS
<1> HIDE DEF other, eve, in
<1>11. CASE other
  <2>1. hit[1] = group /\ ~eve
    BY <1>1, <1>10, <1>11
  <2> QED BY <1>7, <1>9, <2>1
<1>12. CASE ~other /\ bases # {}
  <2>1. hit = <<[group EXCEPT ![n] = ObservationHit(fs, @, m, grows)], TRUE, mine>>
    BY <1>1, <1>12
  <2>2. hit[1] = r /\ hit[2]
    BY <2>1, <1>8, <1>12
  <2>3. \A j \in DOMAIN r : Whose(r[j])
    BY <1>8, <1>12
  <2> QED BY <1>9, <2>2, <2>3
<1>13. CASE ~other /\ bases = {} /\ Learns(fs, m)
  <2>1. hit = <<Append(group, new), TRUE, FALSE>>
    BY <1>1, <1>13
  <2> DEFINE s == Append(group, new)
  <2>2. hit[1] = s /\ hit[2]
    BY <2>1
  <2>3. \A j \in DOMAIN s : Whose(s[j]) \/ s[j].in = in
    BY <1>6 DEF in
  <2> HIDE DEF s
  <2> QED BY <1>9, <1>10, <1>13, <2>2, <2>3
<1>14. CASE ~other /\ bases = {} /\ ~Learns(fs, m)
  <2>1. hit = <<group, FALSE, FALSE>>
    BY <1>1, <1>14
  <2>2. hit[1] = group
    BY <2>1
  <2> QED BY <1>7, <1>9, <1>14, <2>2
<1> QED BY <1>11, <1>12, <1>13, <1>14

\* A group that agrees still does after a measure.
LEMMA HitAgrees ==
    ASSUME NEW fs, Vars(fs), NEW group \in Group(fs), NEW m, NEW grows,
           NEW hit, hit = GroupHit(fs, group, m, grows), Agree(fs, group)
    PROVE  Agree(fs, hit[1])
<1>1. group \in Seq(Fitting(fs)) /\ group # <<>> /\ 1 \in DOMAIN group /\ Head(group) = group[1]
  BY GroupIs
<1>2. fs.inTerms \in Seq(Nat) /\ fs.outTerms \in Seq(Nat)
  BY DEF Vars
<1>3. HitOf(fs, group, m, hit)
  BY <1>1, <1>2, HitIs
<1>4. ASSUME NEW j \in DOMAIN hit[1] PROVE Same(fs, group[1], hit[1][j])
  <2> DEFINE o == hit[1][j]
             h == group[1]
  <2>1. CASE \E i \in DOMAIN group : o.in = group[i].in
    <3>1. PICK i \in DOMAIN group : o.in = group[i].in
      BY <2>1
    <3>2. Same(fs, h, group[i]) /\ Same(fs, group[i], o)
      BY <1>1, <3>1, SameIs DEF Agree
    <3> HIDE DEF h, o
    <3>3. Same(fs, h, o)
      BY <3>2, SameIs
    <3> QED BY <3>3 DEF h, o
  <2>2. CASE o.in = ObservationNew(fs, m).in /\ EnabledValuesEqual(fs, h, m)
    BY <2>2, NewValues, ValuesAgree
  <2> QED BY <1>1, <1>3, <1>4, <2>1, <2>2 DEF HitOf
<1>5. ASSUME NEW i \in DOMAIN hit[1], NEW j \in DOMAIN hit[1] PROVE Same(fs, hit[1][i], hit[1][j])
  <2> DEFINE o == hit[1][i]
             p == hit[1][j]
             h == group[1]
  <2>1. Same(fs, h, o) /\ Same(fs, h, p)
    BY <1>4
  <2> HIDE DEF o, p, h
  <2>2. Same(fs, o, p)
    BY <2>1, SameIs
  <2> QED BY <2>2 DEF o, p
<1> QED BY <1>5 DEF Agree

\* A group is made only of what is worth it.
LEMMA NewGroupLearns ==
    ASSUME NEW fs, NEW m, NEW grows, GroupHit(fs, <<>>, m, grows)[2]
    PROVE  Learns(fs, m)
<1> DEFINE none == <<>>
           d == ObservationHit(fs, ObservationNew(fs, m), m, grows)
           x == Append(none, d)
<1>1. {n \in DOMAIN none : IsBase(fs, none[n])} = {}
  OBVIOUS
<1>2. GroupHit(fs, none, m, grows) = IF Learns(fs, m) THEN <<x, TRUE, FALSE>>
                                                      ELSE <<none, FALSE, FALSE>>
  BY <1>1 DEF GroupHit, Learns
<1>3. GroupHit(fs, none, m, grows)[2]
  OBVIOUS
<1> HIDE DEF x, none
<1>4. CASE ~Learns(fs, m)
  <2>1. GroupHit(fs, none, m, grows) = <<none, FALSE, FALSE>>
    BY ONLY <1>2, <1>4
  <2> QED BY ONLY <1>3, <2>1
<1> QED BY <1>4

\* It reads as the measure.
LEMMA NewGroupReads ==
    ASSUME NEW fs, Vars(fs), NEW m, NEW grows, GroupHit(fs, <<>>, m, grows)[2],
           NEW v, v = GroupHit(fs, <<>>, m, TRUE)[1]
    PROVE  /\ v \in Group(fs) /\ Agree(fs, v)
           /\ EnabledValuesEqual(fs, Head(v), m)
<1> DEFINE none == <<>>
           hit == GroupHit(fs, none, m, TRUE)
           in == ObservationNew(fs, m).in
<1>1. fs.inTerms \in Seq(Nat) /\ fs.outTerms \in Seq(Nat)
  BY DEF Vars
<1>2. v \in Group(fs)
  BY <1>1, NewGroupIs
<1>3. none \in Seq(Fitting(fs)) /\ DOMAIN none = {}
  OBVIOUS
<1>4. v = hit[1] /\ hit = GroupHit(fs, none, m, TRUE)
  OBVIOUS
<1> HIDE DEF none, hit
<1>5. HitOf(fs, none, m, hit)
  BY <1>1, <1>3, <1>4, HitIs
<1>6. \A j \in DOMAIN v : v[j].in = in
  BY ONLY <1>3, <1>4, <1>5 DEF HitOf, in
<1>7. Agree(fs, v)
  <2>1. \A i \in DOMAIN v, j \in DOMAIN v : v[i].in = v[j].in
    BY ONLY <1>6
  <2> QED BY ONLY <2>1, SameIs DEF Agree
<1>8. 1 \in DOMAIN v /\ Head(v) = v[1]
  BY <1>2, GroupIs
<1>9. EnabledValuesEqual(fs, Head(v), m)
  BY <1>6, <1>8, NewValues
<1> QED BY <1>2, <1>7, <1>9

LEMMA TakerIs ==
    ASSUME NEW fs, NEW k, k.cache \in Seq(Nat), NEW m, NEW grows,
           NEW n, n = Taker(fs, k, m, grows)
    PROVE  /\ n \in 0..Len(k.cache)
           /\ n = 0 => \A i \in 1..Len(k.cache) :
                          ~Outcome(fs, k, m, grows, i)[2] /\ ~Outcome(fs, k, m, grows, i)[3]
<1> DEFINE l == Len(k.cache)
           Hit(i) == Outcome(fs, k, m, grows, i)
           seq == [i \in DOMAIN k.cache |-> Hit(i)]
           I == {i \in 1..Len(seq) : seq[i][2] \/ seq[i][3]}
<1>1. l \in Nat /\ DOMAIN k.cache = 1..l
  BY LenProperties
<1>2. n = IF I # {} THEN Min(I) ELSE 0
  BY DEF Taker, FirstWhere, SelectInSeq
<1>3. Len(seq) = l /\ \A i \in 1..l : seq[i] = Hit(i)
  <2> DEFINE T == {Hit(i) : i \in 1..l}
  <2>1. seq \in [1..l -> T]
    BY <1>1
  <2>2. seq \in Seq(T) /\ Len(seq) = l
    <3> HIDE DEF seq, T, l
    <3> QED BY <1>1, <2>1, FunctionSeq
  <2> QED BY <1>1, <2>2
<1>4. I \in SUBSET (1..l) /\ (I = {} => \A i \in 1..l : ~Hit(i)[2] /\ ~Hit(i)[3])
  BY <1>3
<1> HIDE DEF I, l
<1>5. n \in 0..l /\ (n = 0 => I = {})
  BY ONLY <1>1, <1>2, <1>4, FirstIs
<1> QED BY <1>4, <1>5 DEF l

\* Nothing has to be claimed of what a failed step has left.
LearntOf(fs, k, speaks, e, result) ==
    /\ result[2] \in BOOLEAN
    /\ Sane(fs, result[1], speaks /\ ~result[2], e)
    /\ Apart(fs, k) => Apart(fs, result[1])

LEMMA LearntByGroup ==
    ASSUME NEW fs, Vars(fs), NEW k, NEW speaks \in BOOLEAN, NEW e, Sane(fs, k, speaks, e),
           Len(k.map) = Len(fs.outTerms),
           NEW m, NEW grows, NEW n \in 1..Len(k.cache), NEW result,
           result = Taken(fs, k, k.cache[n], Outcome(fs, k, m, grows, n))
    PROVE  LearntOf(fs, k, speaks, e, result)
<1> DEFINE C == ToSet(k.cache)
           V == Group(fs)
           g == k.cache[n]
           group == k.heap[g]
           outcome == GroupHit(fs, group, m, grows)
           s == speaks /\ ~outcome[3]
           a == ClaimOf(s, k, e)
           y == result[1]
<1>1. /\ k.heap \in [C -> V] /\ k.cache \in Seq(Nat) /\ IsInjective(k.cache)
  BY DEF Sane, Whole, Kept
<1>2. g \in C /\ group \in V /\ Outcome(fs, k, m, grows, n) = outcome
  <2>1. n \in DOMAIN k.cache
    BY <1>1
  <2> QED BY <1>1, <2>1 DEF ToSet, Outcome, Groups
<1>3. result = Taken(fs, k, g, outcome) /\ outcome = GroupHit(fs, group, m, grows)
      /\ group = k.heap[g] /\ y = result[1]
  BY <1>2
<1>4. fs.inTerms \in Seq(Nat) /\ fs.outTerms \in Seq(Nat) /\ Variables(fs)
  BY DEF Vars, Variables
<1> HIDE DEF outcome, group, y, g
<1>5. group \in Seq(Fitting(fs)) /\ group # <<>>
  BY <1>2, GroupIs
<1>6. /\ outcome[1] \in Seq(Fitting(fs)) /\ outcome[1] # <<>>
      /\ Head(outcome[1]).in = Head(group).in
      /\ outcome[2] \in BOOLEAN /\ outcome[3] \in BOOLEAN
  BY <1>3, <1>4, <1>5, GroupHitIs
<1>7. outcome[1] \in V
  BY <1>6 DEF Group
<1>8. s \in BOOLEAN /\ (outcome[3] => ~s)
  BY <1>6
<1>9. Sane(fs, k, s, e)
  <2>1. s = speaks \/ s = FALSE
    BY <1>6
  <2> QED BY <2>1, SaneMuted
<1>10. a.speaks = s /\ Suits(a, k) /\ a = ClaimOf(s, k, e)
  BY ClaimIs
<1> HIDE DEF a, s, V, C
<1>11. Whole(fs, k, a, V) /\ Outlined(fs, k)
  BY <1>9, <1>10 DEF Sane, V
<1>12. Len(k.map) <= Len(fs.outTerms)
  BY <1>11, OutlinedIs
<1>13. a.speaks => Head(outcome[1]).in = Head(k.heap[g]).in
  BY <1>3, <1>6
<1>14. outcome[3] => ~a.speaks
  BY <1>8, <1>10
<1>15. g \in ToSet(k.cache)
  BY <1>2 DEF C
<1>16. /\ Whole(fs, y, a, V) /\ SameShape(k, y)
       /\ Taken(fs, k, g, outcome)[2] \in BOOLEAN
       /\ Taken(fs, k, g, outcome)[2] <=> outcome[3]
       /\ y.heap = [k.heap EXCEPT ![g] = outcome[1]]
  <2>1. y = Taken(fs, k, g, outcome)[1]
    BY <1>3
  <2>2. Whole(fs, y, a, V) /\ SameShape(k, y)
    BY ONLY <1>4, <1>7, <1>10, <1>11, <1>12, <1>13, <1>14, <1>15, <2>1, TakenWhole
  <2>3. Taken(fs, k, g, outcome)[2] \in BOOLEAN /\ (Taken(fs, k, g, outcome)[2] <=> outcome[3])
    BY ONLY <1>4, <1>7, <1>10, <1>11, <1>12, <1>13, <1>14, <1>15, <2>1, TakenWhole
  <2>4. Rehit(k, g, outcome[1], y)
    BY ONLY <1>4, <1>7, <1>10, <1>11, <1>12, <1>13, <1>14, <1>15, <2>1, TakenWhole
  <2>5. y.heap = [k.heap EXCEPT ![g] = outcome[1]]
    BY ONLY <2>4 DEF Rehit
  <2> QED BY ONLY <2>2, <2>3, <2>5
<1>17. result[2] \in BOOLEAN /\ (speaks /\ ~result[2]) = s
  BY <1>3, <1>6, <1>16 DEF s
<1>18. Sane(fs, y, s, e)
  <2>1. ClaimOf(s, y, e) = a
    BY <1>10, <1>16 DEF ClaimOf, SameShape
  <2>2. Outlined(fs, y)
    BY <1>16 DEF SameShape, Outlined
  <2> QED BY <1>16, <2>1, <2>2 DEF Sane, V
<1>19. ASSUME Apart(fs, k) PROVE Apart(fs, y)
  <2>1. ToSet(y.cache) = C
    <3>1. DOMAIN y.heap = ToSet(y.cache)
      BY <1>16 DEF Whole, Kept
    <3> QED BY <1>1, <1>16, <3>1
  <2>2. \A h \in C : y.heap[h] = IF h = g THEN outcome[1] ELSE k.heap[h]
    BY <1>1, <1>2, <1>16
  <2>3. Agreed(fs, k.heap, C) /\ Distinct(fs, k.heap, C)
    BY <1>19 DEF Apart, C
  <2>4. Agree(fs, outcome[1])
    <3>1. Agree(fs, group) /\ group \in Group(fs)
      BY <1>2, <1>3, <2>3 DEF Agreed, V
    <3> QED BY <1>3, <3>1, HitAgrees
  <2>5. Agreed(fs, y.heap, C)
    BY <2>2, <2>3, <2>4 DEF Agreed
  <2>6. \A h \in C : Head(y.heap[h]).in = Head(k.heap[h]).in
    BY <1>3, <1>6, <2>2
  <2>7. ASSUME NEW h \in C, NEW i \in C, h # i PROVE ~Same(fs, Head(y.heap[h]), Head(y.heap[i]))
    <3> DEFINE o == Head(k.heap[h])
               p == Head(k.heap[i])
               q == Head(y.heap[h])
               r == Head(y.heap[i])
    <3>1. ~Same(fs, o, p) /\ o.in = q.in /\ p.in = r.in
      BY <2>3, <2>6, <2>7 DEF Distinct
    <3> HIDE DEF o, p, q, r
    <3>2. Same(fs, o, q) /\ Same(fs, r, p)
      BY <3>1, SameIs
    <3>3. ~Same(fs, q, r)
      BY <3>1, <3>2, SameIs
    <3> QED BY <3>3 DEF q, r
  <2>8. Distinct(fs, y.heap, C)
    BY <2>7 DEF Distinct
  <2> QED BY <2>1, <2>5, <2>8 DEF Apart
<1> QED BY <1>3, <1>17, <1>18, <1>19 DEF LearntOf

LEMMA LearntAnew ==
    ASSUME NEW fs, Vars(fs), NEW k, NEW speaks \in BOOLEAN, NEW e, Sane(fs, k, speaks, e),
           Len(k.map) = Len(fs.outTerms),
           NEW m, NEW grows, GroupHit(fs, <<>>, m, grows)[2],
           \A i \in 1..Len(k.cache) :
              ~Outcome(fs, k, m, grows, i)[2] /\ ~Outcome(fs, k, m, grows, i)[3],
           NEW y, y = NewGroup(fs, k, m)
    PROVE  Sane(fs, y, speaks, e) /\ (Apart(fs, k) => Apart(fs, y))
<1> DEFINE C == ToSet(k.cache)
           V == Group(fs)
           a == ClaimOf(speaks, k, e)
           v == GroupHit(fs, <<>>, m, TRUE)[1]
           g == FreshGroup(k)
<1>1. /\ k.heap \in [C -> V] /\ k.cache \in Seq(Nat) /\ Whole(fs, k, a, V) /\ Outlined(fs, k)
  BY DEF Sane, Whole, Kept
<1>2. a.speaks = speaks /\ Suits(a, k) /\ a = ClaimOf(speaks, k, e)
  BY ClaimIs
<1>3. Variables(fs) /\ Len(k.map) <= Len(fs.outTerms)
  BY <1>1, OutlinedIs DEF Vars, Variables
<1>4. v \in V /\ Agree(fs, v) /\ EnabledValuesEqual(fs, Head(v), m)
  BY NewGroupReads
<1>5. v = GroupHit(fs, <<>>, m, TRUE)[1] /\ g = FreshGroup(k)
  OBVIOUS
<1> HIDE DEF a, v, g, V
<1>6. /\ Whole(fs, y, a, V) /\ SameShape(k, y)
      /\ g \notin C /\ Put(k, g, v, y)
  <2>1. GroupHit(fs, <<>>, m, TRUE)[1] \in V
    BY <1>4, <1>5
  <2>2. /\ Whole(fs, y, a, V) /\ SameShape(k, y)
        /\ FreshGroup(k) \notin ToSet(k.cache)
        /\ Put(k, FreshGroup(k), GroupHit(fs, <<>>, m, TRUE)[1], y)
    BY ONLY <1>1, <1>2, <1>3, <2>1, y = NewGroup(fs, k, m), NewGroupWhole
  <2> QED BY <1>5, <2>2
<1>7. Sane(fs, y, speaks, e)
  <2>1. ClaimOf(speaks, y, e) = a
    BY <1>2, <1>6 DEF ClaimOf, SameShape
  <2>2. Outlined(fs, y)
    BY <1>6 DEF SameShape, Outlined
  <2> QED BY <1>6, <2>1, <2>2 DEF Sane, V
\* No group there is reads as the measure.
<1>8. ASSUME NEW h \in C PROVE ~EnabledValuesEqual(fs, Head(k.heap[h]), m)
  <2>1. PICK i \in DOMAIN k.cache : h = k.cache[i]
    BY DEF ToSet
  <2> DEFINE group == k.heap[h]
             hit == GroupHit(fs, group, m, grows)
  <2>2. i \in 1..Len(k.cache) /\ Outcome(fs, k, m, grows, i) = hit
    BY <1>1, <2>1 DEF Outcome, Groups
  <2>3. ~hit[2] /\ ~hit[3]
    BY <2>2
  <2>4. group \in Group(fs)
    BY <1>1 DEF V
  <2>5. hit = GroupHit(fs, group, m, grows)
    OBVIOUS
  <2> HIDE DEF group, hit
  <2>6. group \in Seq(Fitting(fs)) /\ group # <<>>
    BY <2>4, GroupIs
  <2>7. HitOf(fs, group, m, hit)
    BY <2>5, <2>6, HitIs DEF Vars
  <2>8. Learns(fs, m)
    BY NewGroupLearns
  <2>9. ~EnabledValuesEqual(fs, Head(group), m)
    BY <2>3, <2>6, <2>7, <2>8 DEF HitOf
  <2> QED BY <2>9 DEF group
<1>9. ASSUME Apart(fs, k) PROVE Apart(fs, y)
  <2>1. /\ ToSet(y.cache) \subseteq C \cup {g}
        /\ \A h \in ToSet(y.cache) : y.heap[h] = IF h = g THEN v ELSE k.heap[h]
    BY <1>6 DEF Put
  <2>2. Agreed(fs, k.heap, C) /\ Distinct(fs, k.heap, C)
    BY <1>9 DEF Apart
  <2>3. Agreed(fs, y.heap, ToSet(y.cache))
    BY <1>4, <2>1, <2>2 DEF Agreed
  <2>4. ASSUME NEW h \in C PROVE ~Same(fs, Head(k.heap[h]), Head(v)) /\ ~Same(fs, Head(v), Head(k.heap[h]))
    <3> DEFINE o == Head(k.heap[h])
               p == Head(v)
    <3>1. ~EnabledValuesEqual(fs, o, m) /\ EnabledValuesEqual(fs, p, m)
      BY <1>4, <1>8
    <3> HIDE DEF o, p
    <3>2. ~Same(fs, o, p)
      BY <3>1, ValuesAgree
    <3>3. ~Same(fs, p, o)
      BY <3>2, SameIs
    <3> QED BY <3>2, <3>3 DEF o, p
  <2>5. ASSUME NEW h \in ToSet(y.cache), NEW i \in ToSet(y.cache), h # i
        PROVE  ~Same(fs, Head(y.heap[h]), Head(y.heap[i]))
    <3>1. CASE h = g
      BY <2>1, <2>4, <2>5, <3>1
    <3>2. CASE i = g
      BY <2>1, <2>4, <2>5, <3>2
    <3>3. CASE h # g /\ i # g
      BY <2>1, <2>2, <2>5, <3>3 DEF Distinct
    <3> QED BY <3>1, <3>2, <3>3
  <2>6. Distinct(fs, y.heap, ToSet(y.cache))
    BY <2>5 DEF Distinct
  <2> QED BY <2>3, <2>6 DEF Apart
<1> QED BY <1>7, <1>9

\* A measure is learnt: a group takes it, or a new one is made of it, or
\* there is nothing to be learnt.
LEMMA ObservationLearntIs ==
    ASSUME NEW fs, Vars(fs), NEW k, NEW speaks \in BOOLEAN, NEW e, Sane(fs, k, speaks, e),
           NEW m, NEW grows, NEW result, result = ObservationLearnt(fs, k, m, grows)
    PROVE  LearntOf(fs, k, speaks, e, result)
<1> DEFINE z == MapInitialized(fs, k)
           n == Taker(fs, z, m, grows)
           a == ClaimOf(speaks, k, e)
           old == GroupHit(fs, <<>>, m, grows)[2]
<1>1. result = IF n # 0 THEN Taken(fs, z, z.cache[n], Outcome(fs, z, m, grows, n))
               ELSE <<IF old THEN NewGroup(fs, z, m) ELSE z, FALSE>>
  BY DEF ObservationLearnt, LearntIn
<1>2. n = Taker(fs, z, m, grows) /\ z = MapInitialized(fs, k) /\ a = ClaimOf(speaks, k, e)
  OBVIOUS
<1> HIDE DEF z, n, a
<1>3. Whole(fs, k, a, Group(fs)) /\ Outlined(fs, k)
  BY <1>2 DEF Sane
<1>4. Whole(fs, z, a, Group(fs)) /\ SameBut(k, z) /\ Len(z.map) = Len(fs.outTerms)
  BY <1>2, <1>3, MapInitializedWhole
<1>5. Sane(fs, z, speaks, e)
  <2>1. ClaimOf(speaks, z, e) = a
    BY <1>2, <1>4 DEF ClaimOf, SameBut
  <2> QED BY <1>4, <2>1 DEF Sane, Outlined
<1>6. Apart(fs, k) => Apart(fs, z)
  BY <1>4 DEF Apart, SameBut
<1>7. z.cache \in Seq(Nat)
  BY <1>4 DEF Whole, Kept
<1>8. n \in 0..Len(z.cache)
      /\ (n = 0 => \A i \in 1..Len(z.cache) :
                      ~Outcome(fs, z, m, grows, i)[2] /\ ~Outcome(fs, z, m, grows, i)[3])
  BY <1>2, <1>7, TakerIs
<1>9. ASSUME LearntOf(fs, z, speaks, e, result) PROVE LearntOf(fs, k, speaks, e, result)
  BY <1>6, <1>9 DEF LearntOf
<1>10. CASE n # 0
  <2>1. n \in 1..Len(z.cache)
    BY <1>7, <1>8, <1>10
  <2>2. result = Taken(fs, z, z.cache[n], Outcome(fs, z, m, grows, n))
    BY <1>1, <1>10
  <2>3. LearntOf(fs, z, speaks, e, result)
    BY <1>4, <1>5, <2>1, <2>2, LearntByGroup
  <2> QED BY <1>9, <2>3
<1>11. CASE n = 0
  <2> DEFINE y == IF old THEN NewGroup(fs, z, m) ELSE z
  <2>1. result = <<y, FALSE>>
    BY <1>1, <1>11
  <2>2. Sane(fs, y, speaks, e) /\ (Apart(fs, z) => Apart(fs, y))
    <3>1. CASE old
      BY <1>4, <1>5, <1>8, <1>11, <3>1, LearntAnew
    <3>2. CASE ~old
      BY <1>5, <3>2
    <3> QED BY <3>1, <3>2
  <2> HIDE DEF y
  <2>3. result[1] = y /\ result[2] = FALSE
    BY <2>1
  <2>4. LearntOf(fs, z, speaks, e, result)
    BY <2>2, <2>3 DEF LearntOf
  <2> QED BY <1>9, <2>4
<1> QED BY <1>10, <1>11

-----------------------------------------------------------------------------
(* The invariant                                                           *)

\* What failed calls may leave behind, and what of it stays until the
\* knowledge is erased.
Failures == {"half", "error", "crash"}
Lasting == {"error", "crash"}

\* The variables, a record.
Fuzzy(fs) == fs = [inTerms |-> fs.inTerms, inEnabled |-> fs.inEnabled, outTerms |-> fs.outTerms]

\* Between two calls the knowledge is sane, whichever rule is counted; rules
\* speak for all unless something is torn, groups are apart unless it lasts.
Steady(fs, k, left) ==
    /\ left \subseteq Failures
    /\ \A e : Sane(fs, k, left = {}, e)
    /\ left \cap Lasting = {} => Apart(fs, k)

LearnInv == Fuzzy(fz) /\ Vars(fz) /\ Steady(fz, know, torn)

LEMMA SteadyIs ==
    ASSUME NEW fs, NEW k, NEW left, Steady(fs, k, left)
    PROVE  /\ \A e : Sane(fs, k, left = {}, e)
           /\ \A e : Stocked(k, e, ToSet(k.cache), Group(fs))
           /\ (left = {}) \in BOOLEAN /\ left \subseteq Failures
           /\ k.heap \in [ToSet(k.cache) -> Group(fs)]
<1>1. \A e : Sane(fs, k, left = {}, e)
  BY DEF Steady
<1>2. ASSUME NEW e
      PROVE  Stocked(k, e, ToSet(k.cache), Group(fs))
  <2>1. Sane(fs, k, left = {}, e)
    BY <1>1
  <2> QED BY <2>1, SaneIs
<1>3. Stocked(k, 0, ToSet(k.cache), Group(fs))
  BY <1>2
<1> QED BY <1>1, <1>2, <1>3 DEF Stocked, Steady

\* Nothing is left behind by a call that makes the rules anew.
LEMMA RebuiltLeft ==
    ASSUME NEW left, left \subseteq Failures, NEW new, new = left \ {"half"}
    PROVE  new \subseteq Failures /\ (new \cap Lasting = {} => left \cap Lasting = {})
BY DEF Failures, Lasting

LEMMA InitSteady == LearnInit => LearnInv
<1> SUFFICES ASSUME LearnInit PROVE LearnInv
  OBVIOUS
<1> USE LearningAssumption
<1>1. PICK layout \in Layouts :
          /\ fz = [inTerms |-> layout.inputs,
                   inEnabled |-> [i \in DOMAIN layout.inputs |-> TRUE],
                   outTerms |-> layout.outputs]
          /\ know = [NewController EXCEPT !.max = layout.size]
  BY DEF LearnInit
<1> DEFINE terms == layout.inputs
           outputs == layout.outputs
<1>2. terms \in Seq(Nat) /\ outputs \in Seq(Nat)
  BY DEF LearningAssumption
<1>3. /\ fz.inTerms = terms /\ fz.inEnabled = [i \in DOMAIN terms |-> TRUE]
      /\ fz.outTerms = outputs
  BY <1>1
<1>4. Fuzzy(fz)
  BY <1>1 DEF Fuzzy
<1> HIDE DEF terms, outputs
<1>5. Len(terms) \in Nat /\ DOMAIN terms = 1..Len(terms)
  BY <1>2
<1>6. fz.inEnabled \in [1..Len(terms) -> BOOLEAN]
  BY <1>3, <1>5
<1>7. fz.inEnabled \in Seq(BOOLEAN) /\ Len(fz.inEnabled) = Len(terms)
  <2> DEFINE B == BOOLEAN
             l == Len(terms)
             f == fz.inEnabled
  <2>1. l \in Nat /\ f \in [1..l -> B]
    BY <1>5, <1>6
  <2> HIDE DEF B, l, f
  <2>2. f \in Seq(B) /\ Len(f) = l
    BY ONLY <2>1, FunctionSeq
  <2> QED BY <2>2 DEF B, l, f
<1>8. Vars(fz)
  BY <1>2, <1>3, <1>7 DEF Vars
<1>9. know = [NewController EXCEPT !.max = layout.size] /\ torn = {}
  BY <1>1 DEF LearnInit
<1>10. ASSUME NEW e
       PROVE  Sane(fz, know, TRUE, e)
  <2> DEFINE a == ClaimOf(TRUE, know, e)
  <2>1. Plain(a)
    BY ONLY ClaimIs
  <2> HIDE DEF a
  <2>2. /\ Kept(fz, know, a, {}, {}, Group(fz)) /\ know.cache = <<>> /\ know.map = <<>>
        /\ ToSet(know.cache) = {}
    BY ONLY <1>9, <2>1, EmptyIs
  <2>3. Whole(fz, know, a, Group(fz))
    BY ONLY <2>2 DEF Whole
  <2> QED BY <2>2, <2>3 DEF Sane, Outlined, a
<1>11. Apart(fz, know)
  <2>1. Plain(Mute(0))
    BY ONLY MuteIs
  <2> QED BY ONLY <1>9, <2>1, EmptyIs
<1> QED BY <1>4, <1>8, <1>9, <1>10, <1>11 DEF LearnInv, Steady

-----------------------------------------------------------------------------
(* The calls                                                               *)

LEMMA LearnSteady ==
    ASSUME LearnInv, NEW m, NEW grows, Learn(m, grows)
    PROVE  LearnInv'
<1> DEFINE result == ObservationLearnt(fz, know, m, grows)
<1>1. know' = result[1] /\ torn' = (IF result[2] THEN torn \cup {"half"} ELSE torn) /\ fz' = fz
  BY DEF Learn
<1>2. Fuzzy(fz) /\ Vars(fz) /\ Steady(fz, know, torn)
  BY DEF LearnInv
<1> HIDE DEF result
<1>3. ASSUME NEW e
      PROVE  LearntOf(fz, know, torn = {}, e, result)
  <2>1. Sane(fz, know, torn = {}, e) /\ (torn = {}) \in BOOLEAN
    BY ONLY <1>2, SteadyIs
  <2> DEFINE s == torn = {}
  <2>2. result = ObservationLearnt(fz, know, m, grows)
    BY DEF result
  <2> HIDE DEF s
  <2>3. s \in BOOLEAN /\ Sane(fz, know, s, e) /\ Vars(fz)
    BY ONLY <1>2, <2>1 DEF s
  <2>4. LearntOf(fz, know, s, e, result)
    BY ONLY <2>2, <2>3, ObservationLearntIs
  <2> QED BY ONLY <2>4 DEF s
<1>4. result[2] \in BOOLEAN /\ (Apart(fz, know) => Apart(fz, result[1]))
  BY ONLY <1>3 DEF LearntOf
<1>5. (torn' = {}) = (torn = {} /\ ~result[2])
  BY <1>1, <1>4
<1>6. ASSUME NEW e
      PROVE  Sane(fz, know', torn' = {}, e)
  <2>1. Sane(fz, result[1], torn = {} /\ ~result[2], e)
    BY ONLY <1>3 DEF LearntOf
  <2> QED BY <1>1, <1>5, <2>1
<1>7. torn' \subseteq Failures /\ (torn' \cap Lasting = {} => torn \cap Lasting = {})
  BY <1>1, <1>2 DEF Steady, Failures, Lasting
<1>8. torn' \cap Lasting = {} => Apart(fz, know')
  BY <1>1, <1>2, <1>4, <1>7 DEF Steady
<1>9. Steady(fz, know', torn')
  BY <1>6, <1>7, <1>8 DEF Steady
<1> QED BY <1>1, <1>2, <1>9 DEF LearnInv

\* A call after which the rules are made anew.
LEMMA AnewSteady ==
    ASSUME LearnInv, Rebuilt, NEW after, Fuzzy(after), Vars(after), fz' = after,
           \A speaks \in BOOLEAN : \A e : Sane(after, know', speaks, e),
           Apart(fz, know) => Apart(after, know')
    PROVE  LearnInv'
<1>1. Steady(fz, know, torn) /\ torn' = torn \ {"half"}
  BY DEF LearnInv, Rebuilt
<1>2. torn' \subseteq Failures /\ (torn' \cap Lasting = {} => torn \cap Lasting = {})
  BY <1>1, RebuiltLeft DEF Steady
<1>3. (torn' = {}) \in BOOLEAN
  OBVIOUS
<1>4. \A e : Sane(after, know', torn' = {}, e)
  BY <1>3
<1>5. Steady(after, know', torn')
  BY <1>1, <1>2, <1>4 DEF Steady
<1> QED BY <1>5 DEF LearnInv

LEMMA SetEnabledSteady ==
    ASSUME LearnInv, NEW i \in DOMAIN fz.inTerms, NEW enabled \in BOOLEAN, SetEnabled(i, enabled)
    PROVE  LearnInv'
<1> DEFINE after == fz'
<1>1. /\ fz' = [fz EXCEPT !.inEnabled[i] = enabled] /\ know' = VariableSetEnabled(after, know, enabled)
      /\ Rebuilt
  BY DEF SetEnabled
<1>2. Fuzzy(fz) /\ Vars(fz) /\ Steady(fz, know, torn)
  BY DEF LearnInv
<1>3. /\ Fuzzy(after) /\ after.inTerms = fz.inTerms /\ after.outTerms = fz.outTerms
      /\ after.inEnabled = [fz.inEnabled EXCEPT ![i] = enabled]
  BY <1>1, <1>2 DEF Fuzzy
<1>4. after = fz'
  OBVIOUS
<1> HIDE DEF after
<1>5. Vars(after)
  <2> DEFINE B == BOOLEAN
  <2>1. fz.inEnabled \in Seq(B) /\ enabled \in B /\ i \in 1..Len(fz.inEnabled)
    BY <1>2 DEF Vars
  <2> HIDE DEF B
  <2>2. after.inEnabled \in Seq(B) /\ Len(after.inEnabled) = Len(fz.inEnabled)
    BY ONLY <1>3, <2>1, ExceptSeq
  <2>3. after.inEnabled \in Seq(BOOLEAN)
    BY ONLY <2>2 DEF B
  <2> QED BY <1>2, <1>3, <2>2, <2>3 DEF Vars
<1>6. i \in DOMAIN fz.inEnabled
  BY <1>2 DEF Vars
<1>7. \A j \in DOMAIN fz.inEnabled : after.inEnabled[j] = IF j = i THEN enabled ELSE fz.inEnabled[j]
  BY <1>3
<1>8. DOMAIN after.inEnabled = DOMAIN fz.inEnabled
  BY <1>3
<1>9. /\ enabled => Enabled(fz) \subseteq Enabled(after)
      /\ ~enabled => Enabled(after) \subseteq Enabled(fz)
  BY <1>3, <1>6, <1>7, <1>8 DEF Enabled
<1>10. ASSUME NEW speaks \in BOOLEAN, NEW e
       PROVE  /\ Sane(after, know', speaks, e)
              /\ Apart(fz, know) => Apart(after, know')
  <2> DEFINE a == ClaimOf(torn = {}, know, e)
  <2>1. Outlined(fz, know) /\ Whole(fz, know, a, Group(fz)) /\ a.rule = e
    <3>1. Sane(fz, know, torn = {}, e)
      BY ONLY <1>2, SteadyIs
    <3> QED BY ONLY <3>1, SaneIs DEF Sane, a
  <2> HIDE DEF a
  <2>2. /\ Whole(after, know', ClaimOf(speaks, know', a.rule), Group(after))
        /\ Len(know'.map) = Len(after.outTerms)
        /\ Apart(fz, know) => Apart(after, know')
    BY ONLY <1>1, <1>2, <1>3, <1>5, <1>9, <2>1, enabled \in BOOLEAN, speaks \in BOOLEAN,
            VariableSetEnabledIs
  <2> QED BY ONLY <2>1, <2>2 DEF Sane, Outlined
<1> QED BY ONLY <1>1, <1>3, <1>4, <1>5, <1>10, LearnInv, AnewSteady

LEMMA ToggleSteady ==
    ASSUME LearnInv, ToggleSimplification
    PROVE  LearnInv'
<1> DEFINE disabled == ~know.noSimpl
<1>1. know' = SetSimplification(fz, know, disabled) /\ Rebuilt /\ fz' = fz
  BY DEF ToggleSimplification
<1>2. Fuzzy(fz) /\ Vars(fz) /\ Steady(fz, know, torn)
  BY DEF LearnInv
<1>3. disabled \in BOOLEAN /\ know.noSimpl # disabled
  OBVIOUS
<1> HIDE DEF disabled
<1>4. ASSUME NEW speaks \in BOOLEAN, NEW e
      PROVE  /\ Sane(fz, know', speaks, e)
             /\ Apart(fz, know) => Apart(fz, know')
  <2>1. Sane(fz, know, torn = {}, e)
    BY ONLY <1>2, SteadyIs
  <2> QED BY ONLY <1>1, <1>2, <1>3, <2>1, speaks \in BOOLEAN, SetSimplificationSane
<1> QED BY ONLY <1>1, <1>2, <1>4, LearnInv, AnewSteady

\* The cache is resized: whatever is claimed still holds.
LEMMA ResizeSteady ==
    ASSUME LearnInv, NEW n \in CacheSizes, ResizeCache(n)
    PROVE  LearnInv'
<1>1. know' = CacheResized(know, n) /\ torn' = torn /\ fz' = fz
  BY DEF ResizeCache
<1>2. Fuzzy(fz) /\ Vars(fz) /\ Steady(fz, know, torn)
  BY DEF LearnInv
<1>3. n \in Nat
  BY LearningAssumption DEF LearningAssumption
<1>4. ASSUME NEW e
      PROVE  /\ Sane(fz, know', torn = {}, e)
             /\ Apart(fz, know) => Apart(fz, know')
  <2> DEFINE s == torn = {}
  <2>1. Sane(fz, know, s, e)
    BY ONLY <1>2, SteadyIs
  <2> HIDE DEF s
  <2>2. /\ Sane(fz, know', s, e)
        /\ Apart(fz, know) => Apart(fz, know')
    BY ONLY <1>1, <1>2, <1>3, <2>1, CacheResizedSane
  <2> QED BY ONLY <2>2 DEF s
<1>5. Steady(fz, know', torn')
  BY <1>1, <1>2, <1>4 DEF Steady
<1> QED BY <1>1, <1>2, <1>5 DEF LearnInv

LEMMA EraseSteady ==
    ASSUME LearnInv, Erase
    PROVE  LearnInv'
<1>1. know' = ControllerCleared(know) /\ torn' = {} /\ fz' = fz
  BY DEF Erase
<1>2. Fuzzy(fz) /\ Vars(fz) /\ Steady(fz, know, torn)
  BY DEF LearnInv
<1>3. ASSUME NEW e
      PROVE  Sane(fz, know', TRUE, e) /\ Apart(fz, know')
  <2>1. Sane(fz, know, torn = {}, e) /\ TRUE \in BOOLEAN
    BY <1>2, SteadyIs
  <2> QED BY ONLY <1>1, <2>1, ControllerClearedSane
<1>4. Steady(fz, know', torn')
  BY <1>1, <1>3 DEF Steady
<1> QED BY <1>1, <1>2, <1>4 DEF LearnInv

LEMMA ReloadSteady ==
    ASSUME LearnInv, Reload
    PROVE  LearnInv'
<1>1. /\ know' = StateLoaded(fz, [NewController EXCEPT !.max = know.max], Saved(know), TRUE)
      /\ Rebuilt /\ fz' = fz
  BY DEF Reload
<1>2. Fuzzy(fz) /\ Vars(fz) /\ Steady(fz, know, torn)
  BY DEF LearnInv
<1>3. ASSUME NEW speaks \in BOOLEAN, NEW e
      PROVE  Sane(fz, know', speaks, e) /\ Apart(fz, know')
  <2>1. Sane(fz, know, torn = {}, e)
    BY ONLY <1>2, SteadyIs
  <2> QED BY ONLY <1>1, <1>2, <2>1, speaks \in BOOLEAN, StateLoadedSane
<1> QED BY ONLY <1>1, <1>2, <1>3, LearnInv, AnewSteady

-----------------------------------------------------------------------------
(* Terms and variables come                                                *)

LEMMA GrownSteady ==
    ASSUME LearnInv, NEW after, Fuzzy(after), Vars(after), Grown(fz, after), fz' = after,
           know' = know, torn' = torn
    PROVE  LearnInv'
<1>1. Vars(fz) /\ Steady(fz, know, torn)
  BY DEF LearnInv
<1>2. know.heap \in [ToSet(know.cache) -> Group(fz)]
  BY ONLY <1>1, SteadyIs
<1>3. Apart(fz, know) => Apart(after, know)
  BY ONLY <1>1, <1>2, Vars(after), Grown(fz, after), ApartGrown
<1>4. ASSUME NEW e
      PROVE  Sane(after, know, torn = {}, e)
  <2> DEFINE s == torn = {}
  <2>1. Sane(fz, know, s, e)
    BY ONLY <1>1, SteadyIs
  <2> HIDE DEF s
  <2>2. Sane(after, know, s, e)
    BY ONLY <1>1, <2>1, Vars(after), Grown(fz, after), SaneGrown
  <2> QED BY ONLY <2>2 DEF s
<1>5. Steady(after, know, torn)
  BY <1>1, <1>3, <1>4 DEF Steady
<1> QED BY <1>5 DEF LearnInv

\* A variable has one more term.
LEMMA OneMore ==
    ASSUME NEW terms \in Seq(Nat), NEW v \in DOMAIN terms, NEW new, new = [terms EXCEPT ![v] = @ + 1]
    PROVE  /\ new \in Seq(Nat) /\ Len(new) = Len(terms)
           /\ \A i \in 1..Len(terms) : terms[i] <= new[i]
<1>1. terms[v] + 1 \in Nat
  BY ElementOfSeq
<1>2. new \in Seq(Nat) /\ Len(new) = Len(terms)
  BY <1>1, ExceptSeq
<1>3. ASSUME NEW i \in 1..Len(terms)
      PROVE  terms[i] <= new[i]
  <2>1. terms[i] \in Nat
    BY ElementOfSeq
  <2> QED BY <2>1
<1> QED BY <1>2, <1>3

LEMMA AddInputTermSteady ==
    ASSUME LearnInv, NEW i \in DOMAIN fz.inTerms, AddInputTerm(i)
    PROVE  LearnInv'
<1> DEFINE after == [fz EXCEPT !.inTerms[i] = @ + 1]
<1>1. fz' = after /\ know' = know /\ torn' = torn
  BY DEF AddInputTerm
<1>2. Fuzzy(fz) /\ Vars(fz)
  BY DEF LearnInv
<1>3. /\ Fuzzy(after) /\ after.inTerms = [fz.inTerms EXCEPT ![i] = @ + 1]
      /\ after.outTerms = fz.outTerms /\ after.inEnabled = fz.inEnabled
  BY <1>2 DEF Fuzzy
<1> HIDE DEF after
<1>4. /\ after.inTerms \in Seq(Nat) /\ Len(after.inTerms) = Len(fz.inTerms)
      /\ \A j \in 1..Len(fz.inTerms) : fz.inTerms[j] <= after.inTerms[j]
  BY <1>2, <1>3, OneMore DEF Vars
<1>5. Vars(after)
  BY <1>2, <1>3, <1>4 DEF Vars
<1>6. \A n \in 1..Len(fz.outTerms) : fz.outTerms[n] <= after.outTerms[n]
  BY <1>2, <1>3, ElementOfSeq DEF Vars
<1>7. Grown(fz, after)
  BY <1>2, <1>3, <1>4, <1>6 DEF Grown, Vars
<1> QED BY ONLY <1>1, <1>3, <1>5, <1>7, LearnInv, GrownSteady

LEMMA AddOutputTermSteady ==
    ASSUME LearnInv, NEW o \in DOMAIN fz.outTerms, AddOutputTerm(o)
    PROVE  LearnInv'
<1> DEFINE after == [fz EXCEPT !.outTerms[o] = @ + 1]
<1>1. fz' = after /\ know' = know /\ torn' = torn
  BY DEF AddOutputTerm
<1>2. Fuzzy(fz) /\ Vars(fz)
  BY DEF LearnInv
<1>3. /\ Fuzzy(after) /\ after.outTerms = [fz.outTerms EXCEPT ![o] = @ + 1]
      /\ after.inTerms = fz.inTerms /\ after.inEnabled = fz.inEnabled
  BY <1>2 DEF Fuzzy
<1> HIDE DEF after
<1>4. /\ after.outTerms \in Seq(Nat) /\ Len(after.outTerms) = Len(fz.outTerms)
      /\ \A j \in 1..Len(fz.outTerms) : fz.outTerms[j] <= after.outTerms[j]
  BY <1>2, <1>3, OneMore DEF Vars
<1>5. Vars(after)
  BY <1>2, <1>3, <1>4 DEF Vars
<1>6. \A n \in 1..Len(fz.inTerms) : fz.inTerms[n] <= after.inTerms[n]
  BY <1>2, <1>3, ElementOfSeq DEF Vars
<1>7. Grown(fz, after)
  BY <1>2, <1>3, <1>4, <1>6 DEF Grown, Vars
<1> QED BY ONLY <1>1, <1>3, <1>5, <1>7, LearnInv, GrownSteady

LEMMA AddInputSteady ==
    ASSUME LearnInv, AddInput
    PROVE  LearnInv'
<1> DEFINE after == [fz EXCEPT !.inTerms = Append(@, 2), !.inEnabled = Append(@, TRUE)]
<1>1. fz' = after /\ know' = know /\ torn' = torn
  BY DEF AddInput
<1>2. Fuzzy(fz) /\ Vars(fz)
  BY DEF LearnInv
<1>3. /\ Fuzzy(after) /\ after.inTerms = Append(fz.inTerms, 2)
      /\ after.outTerms = fz.outTerms /\ after.inEnabled = Append(fz.inEnabled, TRUE)
  <2> DEFINE terms == Append(fz.inTerms, 2)
             enabled == Append(fz.inEnabled, TRUE)
  <2>1. after = [fz EXCEPT !.inTerms = terms, !.inEnabled = enabled]
    OBVIOUS
  <2> HIDE DEF after, terms, enabled
  <2>2. after = [inTerms |-> terms, inEnabled |-> enabled, outTerms |-> fz.outTerms]
    BY ONLY <1>2, <2>1 DEF Fuzzy
  <2>3. /\ Fuzzy(after) /\ after.inTerms = terms
        /\ after.outTerms = fz.outTerms /\ after.inEnabled = enabled
    BY ONLY <2>2 DEF Fuzzy
  <2> QED BY ONLY <2>3 DEF terms, enabled
<1> HIDE DEF after
<1>4. /\ after.inTerms \in Seq(Nat) /\ Len(after.inTerms) = Len(fz.inTerms) + 1
      /\ Len(fz.inTerms) \in Nat
      /\ \A j \in 1..Len(fz.inTerms) : fz.inTerms[j] = after.inTerms[j] /\ fz.inTerms[j] \in Nat
  BY <1>2, <1>3, AppendProperties, LenProperties, ElementOfSeq DEF Vars
<1>5. /\ after.inEnabled \in Seq(BOOLEAN) /\ Len(after.inEnabled) = Len(fz.inEnabled) + 1
      /\ \A j \in 1..Len(fz.inEnabled) : fz.inEnabled[j] = after.inEnabled[j]
  <2> DEFINE B == BOOLEAN
             f == after.inEnabled
             x == TRUE
  <2>1. fz.inEnabled \in Seq(B) /\ x \in B /\ f = Append(fz.inEnabled, x)
    BY <1>2, <1>3 DEF Vars
  <2> HIDE DEF B, f, x
  <2>2. /\ f \in Seq(B) /\ Len(f) = Len(fz.inEnabled) + 1
        /\ \A j \in 1..Len(fz.inEnabled) : fz.inEnabled[j] = f[j]
    <3>1. /\ f \in Seq(B) /\ Len(f) = Len(fz.inEnabled) + 1
      BY ONLY <2>1, AppendProperties
    <3>2. \A j \in 1..Len(fz.inEnabled) : f[j] = fz.inEnabled[j]
      BY ONLY <2>1, AppendProperties
    <3> QED BY ONLY <3>1, <3>2
  <2> QED BY ONLY <2>2 DEF B, f
<1>6. Vars(after)
  BY <1>2, <1>3, <1>4, <1>5 DEF Vars
<1>7. \A n \in 1..Len(fz.outTerms) : fz.outTerms[n] <= after.outTerms[n]
  BY <1>2, <1>3, ElementOfSeq DEF Vars
<1>8. Grown(fz, after)
  <2>1. Len(after.outTerms) = Len(fz.outTerms) /\ Len(fz.inTerms) <= Len(after.inTerms)
    BY <1>3, <1>4
  <2>2. ASSUME NEW i \in 1..Len(fz.inTerms)
        PROVE  fz.inTerms[i] <= after.inTerms[i] /\ after.inEnabled[i] = fz.inEnabled[i]
    <3>1. i \in 1..Len(fz.inEnabled)
      BY <1>2 DEF Vars
    <3>2. after.inEnabled[i] = fz.inEnabled[i]
      BY ONLY <1>5, <3>1
    <3>3. fz.inTerms[i] = after.inTerms[i] /\ fz.inTerms[i] \in Nat
      BY ONLY <1>4, <2>2
    <3> QED BY <3>2, <3>3
  <2> QED BY ONLY <1>7, <2>1, <2>2 DEF Grown
<1> QED BY ONLY <1>1, <1>3, <1>6, <1>8, LearnInv, GrownSteady

-----------------------------------------------------------------------------
(* Terms and variables go                                                  *)

\* What a removal leaves is made whole again.
LEMMA RemovedSteady ==
    ASSUME LearnInv, Rebuilt, NEW after, Fuzzy(after), Vars(after), fz' = after,
           NEW y, \A e : Stocked(y, e, ToSet(y.cache), Group(after)),
           Agreed(fz, know.heap, ToSet(know.cache)) => Agreed(after, y.heap, ToSet(y.cache)),
           know' = PostRemove(after, y)
    PROVE  LearnInv'
<1>1. ASSUME NEW speaks \in BOOLEAN, NEW e
      PROVE  /\ Sane(after, know', speaks, e)
             /\ Agreed(after, y.heap, ToSet(y.cache)) => Apart(after, know')
  <2>1. Stocked(y, e, ToSet(y.cache), Group(after))
    OBVIOUS
  <2>2. /\ Whole(after, know', ClaimOf(speaks, know', e), Group(after))
        /\ Len(know'.map) = Len(after.outTerms)
        /\ Agreed(after, y.heap, ToSet(y.cache)) => Apart(after, know')
    BY ONLY <2>1, Vars(after), speaks \in BOOLEAN, know' = PostRemove(after, y), PostRemoveIs
  <2> QED BY ONLY <2>2 DEF Sane, Outlined
<1>2. Apart(fz, know) => Apart(after, know')
  <2>1. Agreed(after, y.heap, ToSet(y.cache)) => Apart(after, know')
    BY <1>1
  <2> QED BY <2>1 DEF Apart
<1>3. \A speaks \in BOOLEAN : \A e : Sane(after, know', speaks, e)
  BY ONLY <1>1
<1> QED BY ONLY <1>2, <1>3, LearnInv, Rebuilt, Fuzzy(after), Vars(after), fz' = after, AnewSteady

\* A term less: the variables are still in order.
LEMMA OneLessIs ==
    ASSUME NEW terms \in Seq(Nat), NEW v \in DOMAIN terms, terms[v] # 0
    PROVE  OneLess(terms, v) \in Seq(Nat) /\ Len(OneLess(terms, v)) = Len(terms)
<1>1. terms[v] \in Nat
  BY ElementOfSeq
<1>2. terms[v] - 1 \in Nat
  BY <1>1
<1>3. v \in 1..Len(terms)
  BY LenProperties
<1> QED BY <1>2, <1>3, ExceptSeq DEF OneLess

\* What the variables are when a term is gone.
TermsAfter(fs, v, input) ==
    IF input THEN [fs EXCEPT !.inTerms[v] = @ - 1] ELSE [fs EXCEPT !.outTerms[v] = @ - 1]

LEMMA TermsAfterIs ==
    ASSUME NEW fs, Fuzzy(fs), Vars(fs), NEW input \in BOOLEAN, NEW v,
           input => v \in DOMAIN fs.inTerms /\ fs.inTerms[v] # 0,
           ~input => v \in DOMAIN fs.outTerms /\ fs.outTerms[v] # 0,
           NEW after, after = TermsAfter(fs, v, input)
    PROVE  Fuzzy(after) /\ Vars(after) /\ TermLess(fs, after, v, input)
<1>1. CASE input
  <2>1. /\ Fuzzy(after) /\ after.inTerms = OneLess(fs.inTerms, v)
        /\ after.outTerms = fs.outTerms /\ after.inEnabled = fs.inEnabled
    <3>1. after = [fs EXCEPT !.inTerms = OneLess(fs.inTerms, v)]
      BY <1>1 DEF TermsAfter, OneLess
    <3> QED BY ONLY <3>1, Fuzzy(fs) DEF Fuzzy
  <2>2. OneLess(fs.inTerms, v) \in Seq(Nat) /\ Len(OneLess(fs.inTerms, v)) = Len(fs.inTerms)
    BY <1>1, OneLessIs DEF Vars
  <2>3. Vars(after)
    BY ONLY <2>1, <2>2, Vars(fs) DEF Vars
  <2> QED BY <1>1, <2>1, <2>3 DEF TermLess
<1>2. CASE ~input
  <2>1. /\ Fuzzy(after) /\ after.outTerms = OneLess(fs.outTerms, v)
        /\ after.inTerms = fs.inTerms /\ after.inEnabled = fs.inEnabled
    <3>1. after = [fs EXCEPT !.outTerms = OneLess(fs.outTerms, v)]
      BY <1>2 DEF TermsAfter, OneLess
    <3> QED BY ONLY <3>1, Fuzzy(fs) DEF Fuzzy
  <2>2. OneLess(fs.outTerms, v) \in Seq(Nat) /\ Len(OneLess(fs.outTerms, v)) = Len(fs.outTerms)
    BY <1>2, OneLessIs DEF Vars
  <2>3. Vars(after)
    BY ONLY <2>1, <2>2, Vars(fs) DEF Vars
  <2> QED BY <1>2, <2>1, <2>3 DEF TermLess
<1> QED BY <1>1, <1>2

LEMMA RemoveTermSteady ==
    ASSUME LearnInv, NEW v, NEW t, NEW input \in BOOLEAN, RemoveTerm(v, t, input),
           input => v \in DOMAIN fz.inTerms /\ fz.inTerms[v] # 0,
           ~input => v \in DOMAIN fz.outTerms /\ fz.outTerms[v] # 0
    PROVE  LearnInv'
<1> DEFINE result == TermRemoved(know, v, t, input)
           after == TermsAfter(fz, v, input)
           y == result[1]
<1>1. IF result[2] = "ok" THEN fz' = after /\ know' = PostRemove(after, y) /\ Rebuilt
                          ELSE fz' = fz /\ know' = y /\ torn' = torn \cup {result[2]}
  BY DEF RemoveTerm, TermsAfter
<1>2. Fuzzy(fz) /\ Vars(fz) /\ Steady(fz, know, torn)
  BY DEF LearnInv
<1>3. Fuzzy(after) /\ Vars(after) /\ TermLess(fz, after, v, input)
  BY ONLY <1>2, TermsAfterIs, input \in BOOLEAN,
          input => v \in DOMAIN fz.inTerms /\ fz.inTerms[v] # 0,
          ~input => v \in DOMAIN fz.outTerms /\ fz.outTerms[v] # 0
<1>4. result = TermRemoved(know, v, t, input)
  OBVIOUS
<1> HIDE DEF result, after
<1>5. ASSUME NEW e
      PROVE  Outlined(fz, know) /\ TermOf(fz, know, e, v, input, result)
  <2> DEFINE a == ClaimOf(torn = {}, know, e)
  <2>1. Outlined(fz, know) /\ Whole(fz, know, a, Group(fz)) /\ a.rule = e
    <3>1. Sane(fz, know, torn = {}, e)
      BY ONLY <1>2, SteadyIs
    <3> QED BY ONLY <3>1, SaneIs DEF Sane, a
  <2> HIDE DEF a
  <2>2. TermOf(fz, know, a.rule, v, input, result)
    BY ONLY <1>2, <1>4, <2>1, input \in BOOLEAN, TermRemovedIs
  <2> QED BY ONLY <2>1, <2>2
<1>6. result[2] \in {"ok", "error", "crash"} /\ y.cache = know.cache
  BY ONLY <1>5 DEF TermOf
<1>7. CASE result[2] = "ok"
  <2>1. fz' = after /\ know' = PostRemove(after, y) /\ Rebuilt
    BY <1>1, <1>7
  <2>2. ASSUME NEW e
        PROVE  /\ Stocked(y, e, ToSet(y.cache), Group(after))
               /\ Agreed(fz, know.heap, ToSet(know.cache)) => Agreed(after, y.heap, ToSet(y.cache))
    <3>1. TermOf(fz, know, e, v, input, result)
      BY ONLY <1>5
    <3> QED BY ONLY <1>3, <1>6, <1>7, <3>1 DEF TermOf
  <2> HIDE DEF y
  <2> QED BY ONLY <1>3, <2>1, <2>2, LearnInv, RemovedSteady
<1>8. CASE result[2] # "ok"
  <2>1. fz' = fz /\ know' = y /\ torn' = torn \cup {result[2]}
    BY <1>1, <1>8
  <2>2. result[2] \in Lasting
    BY <1>6, <1>8 DEF Lasting
  <2>3. torn' # {} /\ torn' \cap Lasting # {} /\ torn' \subseteq Failures
    BY <1>2, <2>1, <2>2 DEF Steady, Failures, Lasting
  <2>4. ASSUME NEW e
        PROVE  Sane(fz, y, FALSE, e)
    <3>1. Outlined(fz, know) /\ TermOf(fz, know, e, v, input, result)
      BY ONLY <1>5
    <3>2. y.map = know.map /\ Whole(fz, y, Mute(e), Group(fz))
      BY ONLY <3>1 DEF TermOf
    <3>3. Outlined(fz, y)
      BY <1>6, <3>1, <3>2 DEF Outlined
    <3>4. ClaimOf(FALSE, y, e) = Mute(e)
      BY DEF ClaimOf, Mute
    <3> QED BY ONLY <3>2, <3>3, <3>4 DEF Sane
  <2>5. (torn' = {}) = FALSE
    BY <2>3
  <2>6. Steady(fz, y, torn')
    BY <2>3, <2>4, <2>5 DEF Steady
  <2> QED BY ONLY <1>2, <2>1, <2>6 DEF LearnInv
<1> QED BY <1>7, <1>8

\* What a variable that goes leaves.
LEMMA VariableLeaves ==
    ASSUME NEW fs, Vars(fs), NEW k, NEW left, Steady(fs, k, left), NEW after, NEW v,
           NEW input \in BOOLEAN, VariableLess(fs, after, v, input),
           NEW y, y = VariableRemoved(k, v, input)
    PROVE  /\ \A e : Stocked(y, e, ToSet(y.cache), Group(after))
           /\ Agreed(fs, k.heap, ToSet(k.cache)) => Agreed(after, y.heap, ToSet(y.cache))
<1>1. ASSUME NEW e
      PROVE  /\ Stocked(y, e, ToSet(y.cache), Group(after))
             /\ Agreed(fs, k.heap, ToSet(k.cache)) => Agreed(after, y.heap, ToSet(y.cache))
  <2> DEFINE a == ClaimOf(left = {}, k, e)
  <2>1. Whole(fs, k, a, Group(fs)) /\ a.rule = e
    <3>1. Sane(fs, k, left = {}, e)
      BY ONLY Steady(fs, k, left), SteadyIs
    <3> QED BY ONLY <3>1, SaneIs DEF Sane, a
  <2> HIDE DEF a
  <2>2. /\ Stocked(y, a.rule, ToSet(y.cache), Group(after))
        /\ Agreed(fs, k.heap, ToSet(k.cache)) => Agreed(after, y.heap, ToSet(y.cache))
    BY ONLY Vars(fs), <2>1, input \in BOOLEAN, VariableLess(fs, after, v, input),
            y = VariableRemoved(k, v, input), VariableRemovedIs
  <2> QED BY ONLY <2>1, <2>2
<1> QED BY <1>1

LEMMA RemoveInputSteady ==
    ASSUME LearnInv, NEW i \in DOMAIN fz.inTerms, RemoveInput(i)
    PROVE  LearnInv'
<1> DEFINE after == fz'
           y == VariableRemoved(know, i, TRUE)
           terms == RemoveAt(fz.inTerms, i)
           enabled == RemoveAt(fz.inEnabled, i)
<1>1. /\ after = [fz EXCEPT !.inTerms = terms, !.inEnabled = enabled]
      /\ know' = PostRemove(after, y) /\ Rebuilt /\ fz' = after
  BY DEF RemoveInput
<1>2. Fuzzy(fz) /\ Vars(fz) /\ Steady(fz, know, torn)
  BY DEF LearnInv
<1>3. y = VariableRemoved(know, i, TRUE)
  OBVIOUS
<1> HIDE DEF after, y, terms, enabled
<1>4. after = [inTerms |-> terms, inEnabled |-> enabled, outTerms |-> fz.outTerms]
  BY ONLY <1>1, <1>2 DEF Fuzzy
<1>5. /\ Fuzzy(after) /\ after.inTerms = terms /\ after.inEnabled = enabled
      /\ after.outTerms = fz.outTerms
  BY ONLY <1>4 DEF Fuzzy
<1>6. VariableLess(fz, after, i, TRUE)
  BY <1>5 DEF VariableLess, terms, enabled
<1>7. Vars(after)
  BY ONLY <1>2, <1>6, InputLess
<1>8. TRUE \in BOOLEAN
  OBVIOUS
<1>9. /\ \A e : Stocked(y, e, ToSet(y.cache), Group(after))
      /\ Agreed(fz, know.heap, ToSet(know.cache)) => Agreed(after, y.heap, ToSet(y.cache))
  BY ONLY <1>2, <1>3, <1>6, <1>8, VariableLeaves
<1> QED BY ONLY <1>1, <1>5, <1>7, <1>9, LearnInv, RemovedSteady

LEMMA RemoveOutputSteady ==
    ASSUME LearnInv, NEW o \in DOMAIN fz.outTerms, RemoveOutput(o)
    PROVE  LearnInv'
<1> DEFINE after == fz'
           y == VariableRemoved(know, o, FALSE)
           terms == RemoveAt(fz.outTerms, o)
<1>1. /\ after = [fz EXCEPT !.outTerms = terms]
      /\ know' = PostRemove(after, y) /\ Rebuilt /\ fz' = after
  BY DEF RemoveOutput
<1>2. Fuzzy(fz) /\ Vars(fz) /\ Steady(fz, know, torn)
  BY DEF LearnInv
<1>3. y = VariableRemoved(know, o, FALSE)
  OBVIOUS
<1> HIDE DEF after, y, terms
<1>4. after = [inTerms |-> fz.inTerms, inEnabled |-> fz.inEnabled, outTerms |-> terms]
  BY ONLY <1>1, <1>2 DEF Fuzzy
<1>5. /\ Fuzzy(after) /\ after.outTerms = terms /\ after.inEnabled = fz.inEnabled
      /\ after.inTerms = fz.inTerms
  BY ONLY <1>4 DEF Fuzzy
<1>6. VariableLess(fz, after, o, FALSE)
  BY <1>5 DEF VariableLess, terms
<1>7. Vars(after)
  BY ONLY <1>2, <1>6, OutputLess
<1>8. FALSE \in BOOLEAN
  OBVIOUS
<1>9. /\ \A e : Stocked(y, e, ToSet(y.cache), Group(after))
      /\ Agreed(fz, know.heap, ToSet(know.cache)) => Agreed(after, y.heap, ToSet(y.cache))
  BY ONLY <1>2, <1>3, <1>6, <1>8, VariableLeaves
<1> QED BY ONLY <1>1, <1>5, <1>7, <1>9, LearnInv, RemovedSteady

-----------------------------------------------------------------------------
(* The theorems                                                            *)

LEMMA NextSteady == LearnInv /\ [LearnNext]_learnVars => LearnInv'
<1> SUFFICES ASSUME LearnInv, [LearnNext]_learnVars
             PROVE  LearnInv'
  OBVIOUS
<1>1. CASE UNCHANGED learnVars
  <2>1. fz' = fz /\ know' = know /\ torn' = torn
    BY <1>1 DEF learnVars
  <2> QED BY <2>1 DEF LearnInv
<1>2. CASE \E m \in Measures : \E grows \in Growths(fz, know, m) : Learn(m, grows)
  BY ONLY <1>2, LearnInv, LearnSteady
<1>3. CASE \E i \in DOMAIN fz.inTerms, e \in BOOLEAN : SetEnabled(i, e)
  BY ONLY <1>3, LearnInv, SetEnabledSteady
<1>4. CASE ToggleSimplification
  BY ONLY <1>4, LearnInv, ToggleSteady
<1>5. CASE \E i \in DOMAIN fz.inTerms : AddInputTerm(i)
  BY ONLY <1>5, LearnInv, AddInputTermSteady
<1>6. CASE \E o \in DOMAIN fz.outTerms : AddOutputTerm(o)
  BY ONLY <1>6, LearnInv, AddOutputTermSteady
<1>7. CASE AddInput
  BY ONLY <1>7, LearnInv, AddInputSteady
<1>8. CASE \E i \in DOMAIN fz.inTerms : \E t \in 1..fz.inTerms[i] : RemoveTerm(i, t, TRUE)
  <2>1. PICK i \in DOMAIN fz.inTerms : \E t \in 1..fz.inTerms[i] : RemoveTerm(i, t, TRUE)
    BY <1>8
  <2>2. PICK t \in 1..fz.inTerms[i] : RemoveTerm(i, t, TRUE)
    BY <2>1
  <2>3. fz.inTerms[i] # 0
    BY <2>2
  <2> QED BY <2>2, <2>3, RemoveTermSteady
<1>9. CASE \E o \in DOMAIN fz.outTerms : \E t \in 1..fz.outTerms[o] : RemoveTerm(o, t, FALSE)
  <2>1. PICK o \in DOMAIN fz.outTerms : \E t \in 1..fz.outTerms[o] : RemoveTerm(o, t, FALSE)
    BY <1>9
  <2>2. PICK t \in 1..fz.outTerms[o] : RemoveTerm(o, t, FALSE)
    BY <2>1
  <2>3. fz.outTerms[o] # 0
    BY <2>2
  <2> QED BY <2>2, <2>3, RemoveTermSteady
<1>10. CASE \E i \in DOMAIN fz.inTerms : RemoveInput(i)
  BY ONLY <1>10, LearnInv, RemoveInputSteady
<1>11. CASE \E o \in DOMAIN fz.outTerms : RemoveOutput(o)
  BY ONLY <1>11, LearnInv, RemoveOutputSteady
<1>12. CASE \E n \in CacheSizes : ResizeCache(n)
  BY ONLY <1>12, LearnInv, ResizeSteady
<1>13. CASE Erase
  BY ONLY <1>13, LearnInv, EraseSteady
<1>14. CASE Reload
  BY ONLY <1>14, LearnInv, ReloadSteady
<1> QED BY <1>1, <1>2, <1>3, <1>4, <1>5, <1>6, <1>7, <1>8, <1>9, <1>10, <1>11, <1>12, <1>13, <1>14
        DEF LearnNext

\* The inductive invariant: the knowledge is sane between two calls.
THEOREM LearnInvariant == LearnSpec => []LearnInv
BY InitSteady, NextSteady, PTL DEF LearnSpec

\* What it says of the lists, whichever rule is counted.
LEMMA InvIs ==
    ASSUME LearnInv
    PROVE  /\ know.heap \in [ToSet(know.cache) -> Group(fz)]
           /\ know.cache \in Seq(Nat) /\ IsInjective(know.cache)
           /\ torn \subseteq Failures
           /\ \A e : Carried(e, know)
           /\ \A n \in DOMAIN know.map :
                 Listed(Context(fz, know, n), ClaimOf(torn = {}, know, 0), ToSet(know.cache), know.map[n])
           /\ torn \cap Lasting = {} => Apart(fz, know)
<1>1. Steady(fz, know, torn)
  BY DEF LearnInv
<1>2. \A e : Stocked(know, e, ToSet(know.cache), Group(fz))
  BY ONLY <1>1, SteadyIs
<1>3. /\ know.heap \in [ToSet(know.cache) -> Group(fz)]
      /\ know.cache \in Seq(Nat) /\ IsInjective(know.cache)
      /\ \A e : Carried(e, know)
  BY ONLY <1>2 DEF Stocked
<1>4. Sane(fz, know, torn = {}, 0)
  BY ONLY <1>1 DEF Steady
<1>5. \A n \in DOMAIN know.map :
         Listed(Context(fz, know, n), ClaimOf(torn = {}, know, 0), ToSet(know.cache), know.map[n])
  BY ONLY <1>4 DEF Sane, Whole, Kept, Mapped
<1> QED BY ONLY <1>1, <1>3, <1>5 DEF Steady

LEMMA ListedHas ==
    ASSUME LearnInv, NEW n \in DOMAIN know.map
    PROVE  /\ know.map[n] \in Seq(RuleGroup)
           /\ \A r \in DOMAIN know.map[n] :
                 /\ know.map[n][r] \in RuleGroup
                 /\ Good(Context(fz, know, n), ClaimOf(torn = {}, know, 0), know.map[n][r])
           /\ \A r \in DOMAIN know.map[n], q \in DOMAIN know.map[n] :
                 r # q => Obs(know.map[n][r]) \cap Obs(know.map[n][q]) = {}
           /\ ToSet(know.cache) = UNION {Obs(know.map[n][r]) : r \in DOMAIN know.map[n]}
<1> DEFINE list == know.map[n]
           c == Context(fz, know, n)
           a == ClaimOf(torn = {}, know, 0)
           C == ToSet(know.cache)
<1>1. Listed(c, a, C, list)
  BY InvIs
<1> HIDE DEF c, a, list, C
<1>2. /\ list \in Seq(RuleGroup)
      /\ \A r \in DOMAIN list : Good(c, a, list[r])
      /\ \A r \in DOMAIN list, q \in DOMAIN list : r # q => Obs(list[r]) \cap Obs(list[q]) = {}
      /\ C = UNION {Obs(list[r]) : r \in DOMAIN list}
  BY ONLY <1>1 DEF Listed
<1>3. \A r \in DOMAIN list : list[r] \in RuleGroup
  BY ONLY <1>2, ElementOfSeq
<1> QED BY ONLY <1>2, <1>3 DEF c, a, list, C

\* What the lists hold exists, and each group that exists is in the cache.
\* _cache_element_free takes a group out of all lists before it is gone.
THEOREM NothingFreed == LearnSpec => []NoFreedGroup
<1>1. LearnInv => NoFreedGroup
  <2> SUFFICES ASSUME LearnInv
               PROVE  NoFreedGroup
    OBVIOUS
  <2>1. Cached = ToSet(know.cache)
    BY DEF Cached, Range, ToSet
  <2>2. /\ know.heap \in [Cached -> Group(fz)] /\ IsInjective(know.cache) /\ torn \subseteq Failures
    BY <2>1, InvIs
  <2>3. ASSUME NEW g \in Cached
        PROVE  know.heap[g] \in Seq(Observation) /\ know.heap[g] # <<>>
    <3>1. know.heap[g] \in Seq(Fitting(fz)) /\ know.heap[g] # <<>>
      BY <2>2 DEF Group
    <3>2. Fitting(fz) \subseteq Observation
      BY DEF Fitting
    <3> QED BY ONLY <3>1, <3>2, SeqMonotonic
  <2>4. ASSUME NEW n \in DOMAIN know.map, NEW r \in DOMAIN know.map[n]
        PROVE  know.map[n][r].obs # <<>> /\ Range(know.map[n][r].obs) \subseteq Cached
    <3>1. /\ Good(Context(fz, know, n), ClaimOf(torn = {}, know, 0), know.map[n][r])
          /\ Obs(know.map[n][r]) \subseteq ToSet(know.cache)
      BY ListedHas
    <3> QED BY <2>1, <3>1 DEF Good, Obs, Range, ToSet
  <2> QED BY <2>2, <2>3, <2>4 DEF NoFreedGroup, Failures
<1> QED BY <1>1, LearnInvariant, PTL

\* Every group is in one rule group of every output: what
\* sml_rule_group_list_observation_append puts into a list is in no other rule
\* group of it, and a rebalance takes a group out before it puts it back.
THEOREM CoveredExactlyOnce == LearnSpec => []CoveredOnce
<1>1. LearnInv => CoveredOnce
  <2> SUFFICES ASSUME LearnInv, NEW n \in DOMAIN know.map, NEW g \in Cached
               PROVE  Quantify(DOMAIN know.map[n], LAMBDA r : Contains(know.map[n][r].obs, g)) = 1
    BY DEF CoveredOnce
  <2> DEFINE list == know.map[n]
             places == {r \in DOMAIN list : Contains(list[r].obs, g)}
  <2>1. g \in ToSet(know.cache)
    BY DEF Cached, Range, ToSet
  <2>2. /\ \A r \in DOMAIN list, q \in DOMAIN list : r # q => Obs(list[r]) \cap Obs(list[q]) = {}
        /\ ToSet(know.cache) = UNION {Obs(list[r]) : r \in DOMAIN list}
    BY ListedHas
  <2>3. \A r \in DOMAIN list : Contains(list[r].obs, g) <=> g \in Obs(list[r])
    <3>1. ASSUME NEW r \in DOMAIN list
          PROVE  Contains(list[r].obs, g) <=> g \in Obs(list[r])
      <4>1. list[r].obs \in Seq(Nat)
        <5>1. list[r] \in RuleGroup
          BY ListedHas
        <5> QED BY ONLY <5>1 DEF RuleGroup
      <4>2. DOMAIN list[r].obs = 1..Len(list[r].obs)
        BY ONLY <4>1, LenProperties
      <4> QED BY ONLY <4>2 DEF Contains, Obs, ToSet
    <3> QED BY ONLY <3>1
  <2>4. PICK r \in DOMAIN list : g \in Obs(list[r])
    BY <2>1, <2>2
  <2>5. places = {r}
    BY <2>2, <2>3, <2>4
  <2>6. Cardinality(places) = 1
    BY <2>5, FS_Singleton
  <2> QED BY <2>6 DEF Quantify
<1> QED BY <1>1, LearnInvariant, PTL

\* The engine's rule block has the rules of the rule groups, and no others:
\* sml_rule_group.c makes and frees rules together with the rule groups' own
\* lists of them, on the ways where a call fails as well.
THEOREM BlockIsTheirs == LearnSpec => []BlockOwned
<1>1. LearnInv => BlockOwned
  <2> SUFFICES ASSUME LearnInv
               PROVE  know.block = AllRules(know.map)
    BY DEF BlockOwned, AllRules
  <2>1. \A e : Carried(e, know)
    BY InvIs
  <2>2. know.map \in Seq(Seq(RuleGroup)) /\ IsABag(know.block)
    BY ONLY <2>1 DEF Carried
  <2>3. ASSUME NEW e
        PROVE  IsABag(AllRules(know.map)) /\ Copies(e, know.block) = Copies(e, AllRules(know.map))
    <3>1. Copies(e, know.block) = Total(e, know.map)
      BY ONLY <2>1 DEF Carried
    <3>2. IsABag(AllRules(know.map)) /\ Copies(e, AllRules(know.map)) = Total(e, know.map)
      BY ONLY <2>2, AllRulesIs
    <3> QED BY ONLY <3>1, <3>2
  <2> QED BY ONLY <2>2, <2>3, BlockEqual
<1> QED BY <1>1, LearnInvariant, PTL

\* A rule speaks for every member of its rule group, also where members leave
\* and the rules are kept (sml_rule_group_list_observation_remove), as long as no
\* call failed halfway.
THEOREM SpokenFor == LearnSpec => []RulesSpeakForAll
<1>1. LearnInv => RulesSpeakForAll
  <2> SUFFICES ASSUME LearnInv, torn = {}, NEW n \in DOMAIN know.map, NEW r \in DOMAIN know.map[n],
                      NEW c, c = Context(fz, know, n), NEW rg, rg = know.map[n][r]
               PROVE  /\ \A g \in Range(rg.obs) :
                           /\ SameOn(fz, First(c, rg.obs[1]), First(c, g), Enabled(fz) \cap rg.relevant)
                           /\ OutputEquals(fz, First(c, rg.obs[1]), First(c, g), n)
                      /\ \A rule \in rg.rules : rule.if = Antecedent(c, rg)
    BY DEF RulesSpeakForAll
  <2> DEFINE a == ClaimOf(torn = {}, know, 0)
  <2>1. rg \in RuleGroup /\ Good(c, a, rg)
    BY ListedHas
  <2>2. a.speaks /\ a.but = {}
    BY DEF ClaimOf
  <2> HIDE DEF a
  <2>3. rg.obs # <<>> /\ Speaks(c, {}, rg)
    BY ONLY <2>1, <2>2 DEF Good
  <2>4. c.fz = fz /\ c.out = n
    BY DEF Context
  <2>5. rg.obs[1] \in Obs(rg) /\ Range(rg.obs) = Obs(rg)
    <3>1. rg.obs \in Seq(Nat)
      BY ONLY <2>1 DEF RuleGroup
    <3>2. rg.obs[1] \in ToSet(rg.obs)
      BY ONLY <2>3, <3>1, ToSetEmpty
    <3> QED BY <3>2 DEF Obs, Range, ToSet
  <2> QED BY ONLY <2>3, <2>4, <2>5 DEF Speaks
<1> QED BY <1>1, LearnInvariant, PTL

\* Two groups differ on the enabled inputs, the observations of one do not:
\* _merge_obs_groups joins what an input less or a term less makes equal, and
\* groups are split when an input more sets observations apart.
THEOREM ApartAlways == LearnSpec => []GroupsApart
<1>1. LearnInv => GroupsApart
  <2> SUFFICES ASSUME LearnInv, torn = {}, NEW g \in Cached, NEW h \in Cached,
                      NEW a \in Range(know.heap[g]), NEW b \in Range(know.heap[h])
               PROVE  EnabledInputEquals(fz, a, b) <=> g = h
    BY DEF GroupsApart
  <2>1. know.heap \in [ToSet(know.cache) -> Group(fz)] /\ Apart(fz, know)
    BY InvIs
  <2>2. g \in ToSet(know.cache) /\ h \in ToSet(know.cache)
    BY DEF Cached, Range, ToSet
  <2>3. know.heap[g] \in Group(fz) /\ know.heap[h] \in Group(fz)
    BY <2>1, <2>2
  <2>4. PICK i \in DOMAIN know.heap[g], j \in DOMAIN know.heap[h] :
           a = know.heap[g][i] /\ b = know.heap[h][j]
    BY DEF Range
  <2>5. /\ 1 \in DOMAIN know.heap[g] /\ Head(know.heap[g]) = know.heap[g][1]
        /\ 1 \in DOMAIN know.heap[h] /\ Head(know.heap[h]) = know.heap[h][1]
    BY <2>3, GroupIs
  <2>6. Same(fz, Head(know.heap[g]), a) /\ Same(fz, Head(know.heap[h]), b)
    BY ONLY <2>1, <2>2, <2>4, <2>5 DEF Apart, Agreed, Agree
  <2>7. CASE g = h
    <3>1. Same(fz, a, b)
      BY ONLY <2>6, <2>7, SameIs
    <3> QED BY <2>7, <3>1 DEF Same
  <2>8. CASE g # h
    <3>1. ~Same(fz, Head(know.heap[g]), Head(know.heap[h]))
      BY ONLY <2>1, <2>2, <2>8 DEF Apart, Distinct
    <3>2. ~Same(fz, a, b)
      BY ONLY <2>6, <3>1, SameIs
    <3> QED BY <2>8, <3>2 DEF Same
  <2> QED BY <2>7, <2>8
<1> QED BY <1>1, LearnInvariant, PTL

===============================================================================
