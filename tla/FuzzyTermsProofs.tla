------------------------- MODULE FuzzyTermsProofs -------------------------
(***************************************************************************)
(* What holds of the terms of an output for all ranges, widths, readings   *)
(* and calls: a term's column of counts and its weight stay in its place,  *)
(* whichever readings are counted there.                                   *)
(***************************************************************************)
EXTENDS FuzzyTerms, SeqLemmas, SequenceTheorems, FiniteSetTheorems, TLAPS

\* What RemoveAt of the community modules leaves.
LEMMA RemoveAtProperties ==
    ASSUME NEW S, NEW s \in Seq(S), NEW i \in 1..Len(s)
    PROVE  /\ RemoveAt(s, i) \in Seq(S)
           /\ Len(RemoveAt(s, i)) = Len(s) - 1
           /\ \A j \in 1..i - 1 : RemoveAt(s, i)[j] = s[j]
           /\ \A j \in i..Len(s) - 1 : RemoveAt(s, i)[j] = s[j + 1]
<1>1. RemoveAt(s, i) = Cut(s, i)
  BY DEF RemoveAt, Cut
<1> QED BY <1>1, CutProperties

TermRecord == [id : Nat, kind : {"triangle", "rectangle", "ramp", "curve"},
               lo : Int, peak : Int, hi : Int]

Variable == [terms : Seq(TermRecord), min : Int, max : Int, width : Int, isId : BOOLEAN]

VarOK(v) == /\ v \in Variable
            /\ v.width = NaN \/ v.width \in Nat
            /\ v.min <= v.max

\* The terms of v are the first ones of w, wherever they lie.
Grown(v, w) == /\ Len(v.terms) <= Len(w.terms)
               /\ \A n \in 1..Len(v.terms) : w.terms[n].id = v.terms[n].id

SameBounds(v, w) == w.min = v.min /\ w.max = v.max /\ w.width = v.width

-----------------------------------------------------------------------------
(* Positions and identities                                                *)

LEMMA TermsAre ==
    ASSUME NEW v \in Variable
    PROVE  /\ v.terms \in Seq(TermRecord) /\ Len(v.terms) \in Nat
           /\ DOMAIN v.terms = 1..Len(v.terms)
           /\ \A n \in 1..Len(v.terms) :
                 /\ v.terms[n] \in TermRecord /\ v.terms[n].id \in Nat
                 /\ v.terms[n].lo \in Int /\ v.terms[n].peak \in Int /\ v.terms[n].hi \in Int
           /\ v.min \in Int /\ v.max \in Int /\ v.width \in Int /\ v.isId \in BOOLEAN
<1>1. /\ v.terms \in Seq(TermRecord)
      /\ v.min \in Int /\ v.max \in Int /\ v.width \in Int /\ v.isId \in BOOLEAN
  BY DEF Variable
<1>2. Len(v.terms) \in Nat /\ DOMAIN v.terms = 1..Len(v.terms)
  BY <1>1, LenProperties
<1>3. ASSUME NEW n \in 1..Len(v.terms)
      PROVE  /\ v.terms[n] \in TermRecord /\ v.terms[n].id \in Nat
             /\ v.terms[n].lo \in Int /\ v.terms[n].peak \in Int /\ v.terms[n].hi \in Int
  <2>1. v.terms[n] \in TermRecord
    BY <1>1, <1>2, ElementOfSeq
  <2> DEFINE t == v.terms[n]
  <2> HIDE DEF t
  <2>2. t \in TermRecord
    BY <2>1 DEF t
  <2>3. t.id \in Nat /\ t.lo \in Int /\ t.peak \in Int /\ t.hi \in Int
    BY <2>2 DEF TermRecord
  <2> QED BY <2>2, <2>3 DEF t
<1> QED BY <1>1, <1>2, <1>3

\* There is an address that no term has.
LEMMA FreshTermIs == ASSUME NEW v \in Variable PROVE FreshTerm(v) \in Nat
<1> DEFINE n == Len(v.terms)
           f == [k \in 1..n |-> v.terms[k].id]
           T == Ids(v)
<1>1. n \in Nat /\ DOMAIN v.terms = 1..n
  BY TermsAre
<1>2. T = {f[k] : k \in 1..n}
  BY <1>1 DEF Ids
<1>3. f \in Surjection(1..n, T)
  <2> HIDE DEF T
  <2> QED BY <1>2 DEF Surjection
<1> HIDE DEF n, f, T
<1>4. IsFiniteSet(1..n) /\ Cardinality(1..n) = n /\ IsFiniteSet(1..n + 1) /\ Cardinality(1..n + 1) = n + 1
  BY <1>1, FS_Interval
<1>5. IsFiniteSet(T) /\ Cardinality(T) <= n /\ Cardinality(T) \in Nat
  BY <1>3, <1>4, FS_Surjection, FS_CardinalityType
<1>6. ~(1..n + 1 \subseteq T)
  <2>1. 1..n + 1 \in SUBSET T => Cardinality(1..n + 1) <= Cardinality(T)
    BY <1>5, FS_Subset
  <2> QED BY <1>1, <1>4, <1>5, <2>1
<1>7. \E k \in 1..n + 1 : k \notin T
  BY <1>6
<1>8. FreshTerm(v) = CHOOSE k \in 1..n + 1 : k \notin T
  BY DEF FreshTerm, n, T
<1>9. FreshTerm(v) \in 1..n + 1
  BY <1>7, <1>8
<1> QED BY <1>1, <1>9

PositionOf(ts, id) == FirstWhere(ts, LAMBDA t : t.id = id)

LEMMA PositionIs ==
    ASSUME NEW ts \in Seq(TermRecord), NEW id
    PROVE  PositionOf(ts, id) = 0 \/ PositionOf(ts, id) \in 1..Len(ts)
<1> DEFINE I == {n \in 1..Len(ts) : ts[n].id = id}
           p == PositionOf(ts, id)
<1>1. Len(ts) \in Nat
  BY LenProperties
<1>2. p = IF I # {} THEN Min(I) ELSE 0
  BY DEF PositionOf, FirstWhere, SelectInSeq
<1>3. ASSUME I # {} PROVE Min(I) \in I
  <2>1. I \in SUBSET Nat
    BY <1>1
  <2> HIDE DEF I
  <2>2. \E n \in I : \A m \in I : n <= m
    BY <1>3, <2>1, LeastElement
  <2> QED BY <2>2 DEF Min
<1> QED BY <1>1, <1>2, <1>3


\* Among the positions of a set there is the last one of those where f is
\* smallest.
LEMMA SmallestExists ==
    ASSUME NEW f, NEW m \in Nat, \A n \in 1..m : f[n] \in Int
    PROVE  \A S \in SUBSET (1..m) : S # {} =>
              \E x \in S : \A y \in S : f[x] < f[y] \/ (f[x] = f[y] /\ y <= x)
<1> DEFINE Le(x, y) == f[x] < f[y] \/ (f[x] = f[y] /\ y <= x)
           Least(S) == \E x \in S : \A y \in S : Le(x, y)
           Q == {n \in Nat : \A S \in SUBSET (1..n) : S \in SUBSET (1..m) /\ S # {} => Least(S)}
<1>1. ASSUME NEW x \in 1..m, NEW y \in 1..m PROVE Le(x, y) \/ Le(y, x)
  <2>1. f[x] \in Int /\ f[y] \in Int
    OBVIOUS
  <2> QED BY <2>1
<1>2. ASSUME NEW x \in 1..m, NEW y \in 1..m, NEW z \in 1..m, Le(x, y), Le(y, z) PROVE Le(x, z)
  <2>1. f[x] \in Int /\ f[y] \in Int /\ f[z] \in Int
    OBVIOUS
  <2> QED BY <1>2, <2>1
<1> HIDE DEF Le
<1>3. 0 \in Q
  <2>1. 1..0 = {}
    OBVIOUS
  <2> QED BY <2>1
<1>4. ASSUME NEW n \in Nat, n \in Q PROVE n + 1 \in Q
  <2> SUFFICES ASSUME NEW S \in SUBSET (1..n + 1), S \in SUBSET (1..m), S # {} PROVE Least(S)
    OBVIOUS
  <2> DEFINE R == S \ {n + 1}
  <2>1. R \in SUBSET (1..n) /\ R \in SUBSET (1..m)
    OBVIOUS
  <2>2. CASE n + 1 \notin S
    <3>1. R = S
      BY <2>2
    <3> QED BY <1>4, <2>1, <3>1
  <2>3. CASE n + 1 \in S /\ R = {}
    BY <1>1, <2>3
  <2>4. CASE n + 1 \in S /\ R # {}
    <3>1. PICK x \in R : \A y \in R : Le(x, y)
      BY <1>4, <2>1, <2>4
    <3>2. x \in 1..m /\ n + 1 \in 1..m
      BY <2>1, <2>4
    <3>3. CASE Le(x, n + 1)
      BY <3>1, <3>3
    <3>4. CASE Le(n + 1, x)
      <4>1. \A y \in R : Le(n + 1, y)
        BY <1>2, <2>1, <3>1, <3>2, <3>4
      <4> QED BY <1>1, <2>4, <3>2, <4>1
    <3> QED BY <1>1, <3>2, <3>3, <3>4
  <2> QED BY <2>2, <2>3, <2>4
<1> HIDE DEF Q
<1>5. Nat \subseteq Q
  BY <1>3, <1>4, SetInduction
<1> QED BY <1>5 DEF Q, Le

-----------------------------------------------------------------------------
(* What happens to the terms of a variable                                 *)

LEMMA GrownTransitive ==
    ASSUME NEW u \in Variable, NEW v \in Variable, NEW w \in Variable, Grown(u, v), Grown(v, w)
    PROVE  Grown(u, w)
<1>1. Len(u.terms) \in Nat /\ Len(v.terms) \in Nat /\ Len(w.terms) \in Nat
  BY TermsAre
<1> DEFINE m == Len(u.terms)
           n == Len(v.terms)
<1>2. m <= n /\ n <= Len(w.terms) /\ (\A p \in 1..m : v.terms[p].id = u.terms[p].id)
      /\ (\A p \in 1..n : w.terms[p].id = v.terms[p].id)
  BY DEF Grown
<1>3. ASSUME NEW p \in 1..m PROVE p \in 1..n
  BY <1>1, <1>2
<1>4. m <= Len(w.terms)
  BY <1>1, <1>2
<1> QED BY <1>2, <1>3, <1>4 DEF Grown

LEMMA AddToGrows ==
    ASSUME NEW v, VarOK(v), NEW t \in Shape
    PROVE  VarOK(AddTo(v, t)) /\ Grown(v, AddTo(v, t)) /\ SameBounds(v, AddTo(v, t))
<1> DEFINE e == [id |-> FreshTerm(v), kind |-> t.kind, lo |-> t.lo, peak |-> t.peak, hi |-> t.hi]
           w == AddTo(v, t)
<1>1. v \in Variable
  BY DEF VarOK
<1>2. e \in TermRecord
  BY <1>1, FreshTermIs DEF TermRecord, Shape
<1>3. w = [v EXCEPT !.terms = Append(v.terms, e)]
  BY DEF AddTo
<1> HIDE DEF e, w
<1>4. v.terms \in Seq(TermRecord) /\ Len(v.terms) \in Nat
  BY <1>1, TermsAre
<1>5. /\ Append(v.terms, e) \in Seq(TermRecord)
      /\ Len(Append(v.terms, e)) = Len(v.terms) + 1
      /\ \A n \in 1..Len(v.terms) : Append(v.terms, e)[n] = v.terms[n]
  BY <1>2, <1>4, AppendProperties
<1>6. /\ w \in Variable /\ w.terms = Append(v.terms, e)
      /\ w.min = v.min /\ w.max = v.max /\ w.width = v.width
  BY <1>1, <1>3, <1>5 DEF Variable
<1>7. VarOK(w)
  BY <1>6 DEF VarOK
<1>8. Grown(v, w)
  BY <1>4, <1>5, <1>6 DEF Grown
<1> QED BY <1>6, <1>7, <1>8 DEF w, SameBounds

LEMMA AssumedTerms ==
    /\ DEFAULT_NUM_TERMS \in Nat \ {0} /\ OverlapPart \in Nat \ {0}
    /\ \A r \in Ranges : r[1] \in Int /\ r[2] \in Int /\ r[1] < r[2]
    /\ \A w \in Widths : w \in Nat
  BY TermsAssumption

LEMMA TermIs ==
    ASSUME NEW lo \in Int, NEW peak \in Int, NEW hi \in Int
    PROVE  Term("triangle", lo, peak, hi) \in Shape
  BY DEF Term, Shape

\* Terms are laid out whatever the width is; it is never negative.
LEMMA LaidOutType ==
    ASSUME NEW v, VarOK(v), NEW min \in Int, NEW max \in Int, v.width = NaN => min <= max,
           NEW realMin \in BOOLEAN, NEW realMax \in BOOLEAN
    PROVE  /\ WidthFor(v, max - min) \in Nat
           /\ LaidOut(v, min, max, realMin, realMax) \in Seq(Shape)
<1> DEFINE width == WidthFor(v, max - min)
           overlap == Overlap(width)
           n == NumTerms(v, max - min)
<1>1. v.isId \in BOOLEAN /\ max - min \in Int /\ (v.width = NaN => max - min \in Nat)
  BY DEF VarOK, Variable
<1> DEFINE range == max - min
<1> HIDE DEF range
<1>2. width \in Nat
  <2>1. CASE v.width = NaN
    <3>1. range \div DEFAULT_NUM_TERMS \in Nat
      BY <1>1, <2>1, AssumedTerms DEF range
    <3> QED BY <2>1, <3>1 DEF WidthFor, range
  <2>2. CASE v.width # NaN
    BY <2>2 DEF WidthFor, VarOK
  <2> QED BY <2>1, <2>2
<1>3. width = WidthFor(v, range) /\ n = NumTerms(v, range) /\ range \in Int
  BY <1>1 DEF range
<1> HIDE DEF width
<1>4. overlap \in Int
  BY <1>2, AssumedTerms DEF Overlap
<1>5. n \in Int
  <2>1. CASE width = 0
    BY <1>3, <2>1 DEF NumTerms
  <2>2. CASE width # 0 /\ v.isId
    <3>1. range \div width \in Int
      BY <1>2, <1>3, <2>2
    <3> QED BY <1>3, <2>2, <3>1 DEF NumTerms
  <2>3. CASE width # 0 /\ ~v.isId
    <3>1. (range + width - 1) \div width \in Int
      BY <1>2, <1>3, <2>3
    <3> QED BY <1>3, <2>3, <3>1 DEF NumTerms
  <2> QED BY <1>1, <2>1, <2>2, <2>3
<1> HIDE DEF n, overlap
<1>6. OneTerm(min, max, realMin, realMax, overlap) \in Shape
  <2> DEFINE mid == min + (max - min) \div 2
             below == IF realMin THEN min ELSE min - overlap
             above == IF realMax THEN max ELSE max + overlap
             peak == CASE realMin = realMax -> mid
                       [] realMin /\ ~realMax -> min
                       [] ~realMin /\ realMax -> max
  <2>1. mid \in Int
    OBVIOUS
  <2> HIDE DEF mid
  <2>2. below \in Int /\ above \in Int
    BY <1>4
  <2>3. peak \in Int
    <3>1. CASE realMin /\ realMax
      BY <2>1, <3>1
    <3>2. CASE realMin /\ ~realMax
      BY <3>2
    <3>3. CASE ~realMin /\ realMax
      BY <3>3
    <3>4. CASE ~realMin /\ ~realMax
      BY <2>1, <3>4
    <3> QED BY <3>1, <3>2, <3>3, <3>4
  <2>4. OneTerm(min, max, realMin, realMax, overlap) = Term("triangle", below, peak, above)
    BY DEF OneTerm, mid
  <2> HIDE DEF below, above, peak
  <2> QED BY <2>2, <2>3, <2>4, TermIs
<1> DEFINE first == IF v.isId THEN (range - width * (n - 2)) \div 2 ELSE width
           At1(p) == Start(min, p, realMin, first, width)
           T(p) == CASE p = 1 /\ realMin -> Term("triangle", min, min, At1(2) + overlap)
                     [] p = n /\ realMax -> Term("triangle", At1(n) - overlap, max, max)
                     [] OTHER -> Term("triangle", At1(p) - overlap, At1(p) + width \div 2,
                                      At1(p) + width + overlap)
<1>7. first \in Int
  <2>1. width * (n - 2) \in Int
    BY <1>2, <1>5
  <2>2. (range - width * (n - 2)) \div 2 \in Int
    BY <1>3, <2>1
  <2> QED BY <1>2, <2>2
<1>8. LaidOut(v, min, max, realMin, realMax) =
        IF n <= 1 THEN <<OneTerm(min, max, realMin, realMax, overlap)>> ELSE [p \in 1..n |-> T(p)]
  BY DEF LaidOut, n, overlap, width, range
<1> HIDE DEF first
<1>9. ASSUME NEW p \in Int PROVE At1(p) \in Int
  <2>1. (p - 2) * width \in Int /\ (p - 1) * width \in Int
    BY <1>2
  <2> QED BY <1>7, <2>1 DEF Start
<1> HIDE DEF At1
<1>10. ASSUME NEW p \in 1..n PROVE T(p) \in Shape
  <2>1. /\ At1(p) \in Int /\ At1(2) \in Int /\ At1(n) \in Int /\ width \div 2 \in Int
    BY <1>2, <1>5, <1>9
  <2> DEFINE a == At1(p)
             b == At1(2)
             c == At1(n)
             d == width \div 2
  <2>2. a \in Int /\ b \in Int /\ c \in Int /\ d \in Int
    BY <2>1
  <2>3. T(p) = CASE p = 1 /\ realMin -> Term("triangle", min, min, b + overlap)
                 [] p = n /\ realMax -> Term("triangle", c - overlap, max, max)
                 [] OTHER -> Term("triangle", a - overlap, a + d, a + width + overlap)
    OBVIOUS
  <2> HIDE DEF a, b, c, d, T
  <2>4. /\ Term("triangle", min, min, b + overlap) \in Shape
        /\ Term("triangle", c - overlap, max, max) \in Shape
        /\ Term("triangle", a - overlap, a + d, a + width + overlap) \in Shape
    BY <1>2, <1>4, <2>2, TermIs
  <2> QED BY <2>3, <2>4
<1> DEFINE L == [p \in 1..n |-> T(p)]
<1>11. L \in [1..n -> Shape]
  <2> HIDE DEF T
  <2> QED BY <1>10
<1>12. L = [p \in 1..n |-> T(p)]
  OBVIOUS
<1> HIDE DEF T, L
<1>13. n > 1 => L \in Seq(Shape)
  <2>1. n > 1 => n \in Nat
    BY <1>5
  <2> QED BY <1>11, <2>1, IsASeq
<1>14. <<OneTerm(min, max, realMin, realMax, overlap)>> \in Seq(Shape)
  BY <1>6
<1>15. LaidOut(v, min, max, realMin, realMax) \in Seq(Shape)
  BY <1>5, <1>8, <1>12, <1>13, <1>14
<1> QED BY <1>2, <1>15 DEF width

\* _create_fuzzy_terms adds its terms one by one after those there are.
Adding(c, y, e) == AddTo(y, e)
AddingInv(c, y) == VarOK(y) /\ Grown(c, y) /\ SameBounds(c, y)

AD == INSTANCE SeqLemmas WITH FoldOp <- Adding, FoldInv <- AddingInv

LEMMA GrownItself == ASSUME NEW v \in Variable PROVE Grown(v, v)
BY TermsAre DEF Grown

LEMMA CreatedGrows ==
    ASSUME NEW v, VarOK(v), NEW min \in Int, NEW max \in Int, v.width = NaN => min <= max,
           NEW realMin \in BOOLEAN, NEW realMax \in BOOLEAN
    PROVE  LET w == Created(v, min, max, realMin, realMax)
           IN  VarOK(w) /\ Grown(v, w) /\ w.min = v.min /\ w.max = v.max /\ w.width \in Nat
<1> DEFINE base == [v EXCEPT !.width = WidthFor(v, max - min)]
           L == LaidOut(v, min, max, realMin, realMax)
           w == Created(v, min, max, realMin, realMax)
<1>1. WidthFor(v, max - min) \in Nat /\ L \in Seq(Shape)
  BY LaidOutType
<1>2. v \in Variable
  BY DEF VarOK
<1>3. base \in Variable /\ base.terms = v.terms /\ base.min = v.min /\ base.max = v.max
  BY <1>1, <1>2 DEF Variable
<1>4. base.width \in Nat
  BY <1>1, <1>2 DEF Variable
<1>5. w = AD!Folded(base, base, L)
  BY DEF Created, AD!Folded, AD!IterEq, AD!Largest, Max, Adding, FoldLeft, MapThenFoldSet
<1> HIDE DEF base, L, w
<1>6. VarOK(base)
  BY <1>3, <1>4 DEF VarOK
<1>7. AddingInv(base, base)
  BY <1>3, <1>6, GrownItself DEF AddingInv, SameBounds
<1>8. ASSUME NEW y, NEW n \in 1..Len(L), AddingInv(base, y)
      PROVE  AddingInv(base, Adding(base, y, L[n]))
  <2>1. L[n] \in Shape
    BY <1>1, ElementOfSeq
  <2>2. VarOK(y) /\ Grown(base, y) /\ SameBounds(base, y)
    BY <1>8 DEF AddingInv
  <2> DEFINE z == AddTo(y, L[n])
  <2>3. VarOK(z) /\ Grown(y, z) /\ SameBounds(y, z)
    BY <2>1, <2>2, AddToGrows
  <2> HIDE DEF z
  <2>4. Grown(base, z)
    <3>1. y \in Variable /\ z \in Variable
      BY <2>2, <2>3 DEF VarOK
    <3> QED BY <1>3, <2>2, <2>3, <3>1, GrownTransitive
  <2>5. SameBounds(base, z)
    BY <2>2, <2>3 DEF SameBounds
  <2> QED BY <2>3, <2>4, <2>5 DEF AddingInv, Adding, z
<1>9. AddingInv(base, w)
  BY <1>1, <1>5, <1>7, <1>8, AD!FoldKeeps
<1>10. Grown(v, w)
  BY <1>3, <1>9 DEF AddingInv, Grown
<1> QED BY <1>3, <1>4, <1>9, <1>10 DEF AddingInv, SameBounds, w

LEMMA UpdatedGrows ==
    ASSUME NEW v, VarOK(v), NEW n, NEW a, NEW b \in Int, NEW c \in Int
    PROVE  LET w == Updated(v, n, a, b, c)
           IN  VarOK(w) /\ Grown(v, w) /\ SameBounds(v, w)
<1> DEFINE w == Updated(v, n, a, b, c)
           e == [v.terms[n] EXCEPT !.lo = c, !.peak = b]
           ts == [v.terms EXCEPT ![n] = e]
<1>1. v \in Variable
  BY DEF VarOK
<1>2. /\ v.terms \in Seq(TermRecord) /\ Len(v.terms) \in Nat
      /\ DOMAIN v.terms = 1..Len(v.terms)
  BY <1>1, TermsAre
<1>3. w = [v EXCEPT !.terms = ts]
  <2>1. DOMAIN v = {"terms", "min", "max", "width", "isId"}
    BY <1>1 DEF Variable
  <2> QED BY <1>2, <2>1 DEF Updated
<1>4. ASSUME n \in 1..Len(v.terms) PROVE e \in TermRecord /\ e.id = v.terms[n].id
  <2>1. v.terms[n] \in TermRecord
    BY <1>1, <1>4, TermsAre
  <2> DEFINE t == v.terms[n]
  <2>2. e = [t EXCEPT !.lo = c, !.peak = b] /\ t \in TermRecord
    BY <2>1
  <2> HIDE DEF t, e
  <2>3. e \in TermRecord /\ e.id = t.id
    BY <2>2 DEF TermRecord
  <2> QED BY <2>3 DEF t
<1> HIDE DEF e
<1>5. /\ ts \in Seq(TermRecord) /\ Len(ts) = Len(v.terms)
      /\ \A p \in 1..Len(v.terms) : ts[p].id = v.terms[p].id
  <2>1. CASE n \in 1..Len(v.terms)
    <3>1. ts \in Seq(TermRecord) /\ Len(ts) = Len(v.terms)
      BY <1>2, <1>4, <2>1, ExceptSeq
    <3>2. \A p \in 1..Len(v.terms) : ts[p] = IF p = n THEN e ELSE v.terms[p]
      BY <1>2
    <3> QED BY <1>4, <2>1, <3>1, <3>2
  <2>2. CASE n \notin 1..Len(v.terms)
    <3>1. ts = v.terms
      BY <1>2, <2>2
    <3> QED BY <1>2, <3>1
  <2> QED BY <2>1, <2>2
<1> HIDE DEF ts, w
<1>6. /\ w \in Variable /\ w.terms = ts
      /\ w.min = v.min /\ w.max = v.max /\ w.width = v.width
  BY <1>1, <1>3, <1>5 DEF Variable
<1>7. VarOK(w)
  BY <1>6 DEF VarOK
<1>8. Grown(v, w)
  BY <1>2, <1>5, <1>6 DEF Grown
<1> QED BY <1>6, <1>7, <1>8 DEF w, SameBounds

-----------------------------------------------------------------------------
(* Following the range                                                     *)

\* The first and the last term of those in the range are terms.
LEMMA EndsAreTerms ==
    ASSUME NEW v \in Variable, NEW S \in SUBSET (1..Len(v.terms)), S # {}
    PROVE  FirstTerm(v, S) \in S /\ LastTerm(v, S) \in S
<1> DEFINE m == Len(v.terms)
           f == [n \in 1..m |-> v.terms[n].lo]
           g == [n \in 1..m |-> -(v.terms[n].hi)]
<1>1. m \in Nat
  BY TermsAre
<1>2. \A n \in 1..m : v.terms[n].lo \in Int /\ v.terms[n].hi \in Int
  BY TermsAre
<1>3. \A n \in 1..m : f[n] \in Int /\ g[n] \in Int
  BY <1>2
<1>4. \A n \in S : n \in 1..m /\ v.terms[n].lo = f[n]
  OBVIOUS
<1>5. \A n \in S : n \in 1..m /\ v.terms[n].hi \in Int /\ g[n] = -(v.terms[n].hi)
  BY <1>2
<1>6. S \in SUBSET (1..m)
  OBVIOUS
<1> HIDE DEF m, f, g
<1>7. FirstTerm(v, S) \in S
  <2>1. \E x \in S : \A y \in S : f[x] < f[y] \/ (f[x] = f[y] /\ y <= x)
    BY <1>1, <1>3, <1>6, SmallestExists
  <2>2. \E x \in S : \A y \in S : \/ v.terms[x].lo < v.terms[y].lo
                                  \/ v.terms[x].lo = v.terms[y].lo /\ y <= x
    BY <1>4, <2>1
  <2> QED BY <2>2 DEF FirstTerm
<1>8. LastTerm(v, S) \in S
  <2>1. PICK x \in S : \A y \in S : g[x] < g[y] \/ (g[x] = g[y] /\ y <= x)
    BY <1>1, <1>3, <1>6, SmallestExists
  <2>2. ASSUME NEW y \in S
        PROVE  \/ v.terms[x].hi > v.terms[y].hi
               \/ v.terms[x].hi = v.terms[y].hi /\ y <= x
    <3> DEFINE a == v.terms[x].hi
               b == v.terms[y].hi
    <3>1. a \in Int /\ b \in Int /\ g[x] = -a /\ g[y] = -b
      BY <1>5
    <3> HIDE DEF a, b
    <3>2. a > b \/ (a = b /\ y <= x)
      BY <2>1, <3>1
    <3> QED BY <3>2 DEF a, b
  <2>3. \E n \in S : \A y \in S : \/ v.terms[n].hi > v.terms[y].hi
                                  \/ v.terms[n].hi = v.terms[y].hi /\ y <= n
    BY <2>2
  <2> QED BY <2>3 DEF LastTerm
<1> QED BY <1>7, <1>8

LEMMA ExtendedGrows ==
    ASSUME NEW v, VarOK(v), v.width \in Nat, NEW n \in 1..Len(v.terms),
           NEW start \in Int, NEW min \in Int, NEW max \in Int
    PROVE  /\ LET w == ExtendedDown(v, n, min)
              IN  VarOK(w) /\ Grown(v, w) /\ w.min = v.min /\ w.max = v.max /\ w.width \in Nat
           /\ LET w == ExtendedUp(v, n, start, max)
              IN  VarOK(w) /\ Grown(v, w) /\ w.min = v.min /\ w.max = v.max /\ w.width \in Nat
<1> DEFINE width == v.width
           over == Overlap(width)
           half == width \div 2
           top == v.terms[n].hi
<1>1. v \in Variable
  BY DEF VarOK
<1>2. width \in Int /\ over \in Int /\ half \in Int /\ top \in Int
  <2>1. top \in Int
    BY <1>1, TermsAre
  <2>2. over \in Int
    BY AssumedTerms DEF Overlap
  <2> QED BY <2>1, <2>2
<1> DEFINE hi == top - over
           lo == hi - width
           moved == Updated(v, n, lo - over, lo + half, hi + over)
           below == IF v.isId THEN lo - half ELSE lo
           shrunk == Updated(v, n, min, min, top)
           w1 == ExtendedDown(v, n, min)
           next == start + over
           shifted == Updated(v, n, next - over, next + half, next + width + over)
           cut == Updated(v, n, start, max, max)
           w2 == ExtendedUp(v, n, start, max)
           Good(x, y) == VarOK(y) /\ Grown(x, y) /\ y.min = x.min /\ y.max = x.max /\ y.width \in Nat
<1>3. w1 = IF top - min <= width THEN shrunk ELSE Created(moved, min, below, TRUE, FALSE)
  BY DEF ExtendedDown
<1>4. w2 = IF max - start <= width THEN cut ELSE Created(shifted, next + width, max, FALSE, TRUE)
  BY DEF ExtendedUp
<1> HIDE DEF w1, w2, over, half, top, width
<1>5. hi \in Int /\ lo \in Int /\ below \in Int /\ next \in Int
  BY <1>2
<1>6. lo + half \in Int /\ hi + over \in Int /\ next + half \in Int /\ next + width + over \in Int
      /\ next + width \in Int
  BY <1>2, <1>5
<1> HIDE DEF hi, lo, below, next
<1>7. ASSUME NEW a, NEW b \in Int, NEW c \in Int PROVE Good(v, Updated(v, n, a, b, c))
  BY UpdatedGrows DEF SameBounds
<1> HIDE DEF Good
<1>8. Good(v, moved) /\ Good(v, shrunk) /\ Good(v, shifted) /\ Good(v, cut)
  BY <1>2, <1>6, <1>7
<1> HIDE DEF moved, shrunk, shifted, cut
<1>9. ASSUME NEW u, Good(v, u), NEW a \in Int, NEW b \in Int, NEW c \in BOOLEAN, NEW d \in BOOLEAN
      PROVE  Good(v, Created(u, a, b, c, d))
  <2> DEFINE w == Created(u, a, b, c, d)
  <2> USE DEF Good
  <2>1. u.width # NaN
    BY <1>9 DEF NaN
  <2>2. Good(u, w)
    <3>1. VarOK(u) /\ (u.width = NaN => a <= b)
      BY <1>9, <2>1
    <3> QED BY ONLY <3>1, a \in Int, b \in Int, c \in BOOLEAN, d \in BOOLEAN, CreatedGrows
  <2> HIDE DEF w
  <2>3. u \in Variable /\ w \in Variable
    BY <1>9, <2>2 DEF VarOK
  <2>4. Grown(v, w)
    BY <1>1, <1>9, <2>2, <2>3, GrownTransitive
  <2> QED BY <1>9, <2>2, <2>4 DEF w
<1>10. Good(v, w1)
  BY <1>3, <1>5, <1>8, <1>9
<1>11. Good(v, w2)
  BY <1>4, <1>6, <1>8, <1>9
<1> QED BY <1>10, <1>11 DEF w1, w2, Good

\* The terms that leave the range are queued by their identities.
Queueing(c, ids, t) == IF OutOfRange(t, c[1], c[2]) THEN Append(ids, t.id) ELSE ids
QueueingInv(c, ids) == ids \in Seq(Nat)

QU == INSTANCE SeqLemmas WITH FoldOp <- Queueing, FoldInv <- QueueingInv

LEMMA LeavingIs ==
    ASSUME NEW v \in Variable, NEW min, NEW max PROVE Leaving(v, min, max) \in Seq(Nat)
<1> DEFINE c == <<min, max>>
<1>1. c[1] = min /\ c[2] = max
  OBVIOUS
<1> HIDE DEF c
<1>2. Leaving(v, min, max) = QU!Folded(c, <<>>, v.terms)
  BY <1>1 DEF Leaving, QU!Folded, QU!IterEq, QU!Largest, Max, Queueing, FoldLeft, MapThenFoldSet
<1>3. QueueingInv(c, <<>>)
  BY DEF QueueingInv
<1>4. ASSUME NEW y, NEW n \in 1..Len(v.terms), QueueingInv(c, y)
      PROVE  QueueingInv(c, Queueing(c, y, v.terms[n]))
  <2>1. v.terms[n].id \in Nat
    BY TermsAre
  <2> QED BY <1>4, <2>1 DEF QueueingInv, Queueing
<1>5. v.terms \in Seq(TermRecord)
  BY TermsAre
<1>6. QueueingInv(c, QU!Folded(c, <<>>, v.terms))
  BY <1>3, <1>4, <1>5, QU!FoldKeeps
<1> QED BY <1>2, <1>6 DEF QueueingInv

\* _rearrange_fuzzy_terms moves terms and adds some; it takes none away.
LEMMA RearrangedGrows ==
    ASSUME NEW v0, VarOK(v0), NEW min \in Int, NEW max \in Int, min <= max
    PROVE  LET r == Rearranged(v0, min, max)
           IN  VarOK(r[1]) /\ Grown(v0, r[1]) /\ r[2] \in Seq(Nat)
<1> DEFINE v == [v0 EXCEPT !.min = min, !.max = max]
           S == InRange(v, min, max)
           first == FirstTerm(v, S)
           last == LastTerm(v, S)
           down == min < v.terms[first].lo
           up == max > v.terms[last].hi
           lower == IF down /\ IsTriangle(v, first) THEN ExtendedDown(v, first, min) ELSE v
           low == v.terms[last].lo
           upper == ExtendedUp(lower, last, low, max)
           gone == Leaving(v, min, max)
           fresh == Created(v, min, max, TRUE, TRUE)
           ends == up /\ (down => IsTriangle(v, first)) /\ IsTriangle(v, last)
           r == Rearranged(v0, min, max)
           Good(x, y) == VarOK(y) /\ Grown(x, y)
<1>1. v0 \in Variable
  BY DEF VarOK
<1>2. v \in Variable /\ v.terms = v0.terms /\ v.min = min /\ v.max = max /\ v.width = v0.width
  BY <1>1 DEF Variable
<1>3. VarOK(v) /\ Grown(v0, v)
  BY <1>1, <1>2, GrownItself DEF VarOK, Grown
<1>4. r = IF v.width = NaN THEN <<v, <<>>>>
          ELSE << CASE S = {} -> fresh [] S # {} /\ ends -> upper [] OTHER -> lower, gone >>
  BY DEF Rearranged
<1>5. S \in SUBSET (1..Len(v.terms))
  <2>1. DOMAIN v.terms = 1..Len(v.terms)
    BY <1>2, TermsAre
  <2> QED BY <2>1 DEF InRange
<1> HIDE DEF v
<1>6. S # {} => first \in S /\ last \in S
  BY <1>2, <1>5, EndsAreTerms
<1>7. Good(v, fresh)
  <2>1. VarOK(fresh) /\ Grown(v, fresh)
    BY <1>3, CreatedGrows
  <2> QED BY <2>1
<1>8. gone \in Seq(Nat)
  BY <1>2, LeavingIs
<1> HIDE DEF S, fresh, gone, r, down, up
<1>9. ASSUME v.width # NaN, S # {} PROVE Good(v, lower) /\ lower.width \in Nat
  <2>1. v.width \in Nat
    BY <1>3, <1>9 DEF VarOK
  <2>2. first \in 1..Len(v.terms)
    BY <1>5, <1>6, <1>9
  <2> DEFINE w == ExtendedDown(v, first, min)
  <2>3. VarOK(w) /\ Grown(v, w) /\ w.width \in Nat
    BY <1>3, <2>1, <2>2, ExtendedGrows
  <2>4. VarOK(v) /\ Grown(v, v)
    BY <1>2, <1>3, GrownItself
  <2> HIDE DEF w, first
  <2> QED BY <2>1, <2>3, <2>4 DEF w
<1>10. ASSUME v.width # NaN, S # {} PROVE Good(v, upper)
  <2>1. Good(v, lower) /\ lower.width \in Nat
    BY <1>9, <1>10
  <2>2. last \in 1..Len(v.terms) /\ low \in Int
    <3>1. last \in 1..Len(v.terms)
      BY <1>5, <1>6, <1>10
    <3> QED BY <1>2, <3>1, TermsAre
  <2> HIDE DEF lower, last, low
  <2>3. last \in 1..Len(lower.terms)
    <3>1. lower \in Variable
      BY <2>1 DEF VarOK
    <3>2. Len(v.terms) <= Len(lower.terms) /\ Len(v.terms) \in Nat /\ Len(lower.terms) \in Nat
      BY <1>2, <2>1, <3>1, TermsAre DEF Grown
    <3> QED BY <2>2, <3>2
  <2>4. VarOK(upper) /\ Grown(lower, upper)
    BY <2>1, <2>2, <2>3, ExtendedGrows
  <2> HIDE DEF upper
  <2>5. lower \in Variable /\ upper \in Variable
    BY <2>1, <2>4 DEF VarOK
  <2> QED BY <1>2, <2>1, <2>4, <2>5, GrownTransitive
<1> HIDE DEF lower, upper, ends
<1>11. CASE v.width = NaN
  <2>1. r[1] = v /\ r[2] = <<>>
    BY <1>4, <1>11
  <2> QED BY <1>3, <2>1 DEF r
<1>12. CASE v.width # NaN
  <2> DEFINE x == CASE S = {} -> fresh [] S # {} /\ ends -> upper [] OTHER -> lower
  <2>1. Good(v, x)
    BY <1>7, <1>9, <1>10, <1>12
  <2>2. r[1] = x /\ r[2] = gone
    BY <1>4, <1>12
  <2> HIDE DEF x
  <2>3. x \in Variable
    BY <2>1 DEF VarOK
  <2>4. Grown(v0, x)
    BY <1>1, <1>2, <1>3, <2>1, <2>3, GrownTransitive
  <2> QED BY <1>8, <2>1, <2>2, <2>4 DEF r
<1> QED BY <1>11, <1>12

-----------------------------------------------------------------------------
(* Counts and weights in the places of their terms                         *)

HitRecord == [term : Nat, n : Nat]

\* An observation of one output: what the weights are does not matter here.
OneOutput(o) == /\ o = [in |-> o.in, out |-> <<o.out[1]>>]
                /\ o.out[1] \in Seq(ToSet(o.out[1]))

\* w names the terms that the weights of k are meant for.
Knows(k, w) == \/ k = <<>> /\ w = <<>>
               \/ k = <<k[1]>> /\ OneOutput(k[1]) /\ Len(k[1].out[1]) = Len(w)

Matches(ts, h, w) == /\ Len(h) <= Len(ts) /\ \A n \in 1..Len(h) : h[n].term = ts[n].id
                     /\ Len(w) <= Len(ts) /\ \A n \in 1..Len(w) : w[n] = ts[n].id

Fits(v, h, k, w) == /\ VarOK(v) /\ h \in Seq(HitRecord) /\ w \in Seq(Nat)
                    /\ Knows(k, w) /\ Matches(v.terms, h, w)

LEMMA ListIs ==
    ASSUME NEW m \in Nat, NEW s, s = [t \in 1..m |-> s[t]]
    PROVE  s \in Seq(ToSet(s)) /\ Len(s) = m
<1>1. DOMAIN s = 1..m
  OBVIOUS
<1>2. \A t \in 1..m : s[t] \in ToSet(s)
  BY <1>1 DEF ToSet
<1> DEFINE V == ToSet(s)
<1> HIDE DEF V
<1>3. s \in [1..m -> V]
  BY <1>2 DEF V
<1>4. s \in Seq(V)
  BY <1>3, IsASeq
<1>5. Len(s) = m
  BY <1>1, <1>4, LenProperties
<1> QED BY <1>4, <1>5 DEF V

\* Where element n of what is left was, once element p was taken out.
Skip(p, n) == IF n < p THEN n ELSE n + 1

LEMMA RemoveAtIs ==
    ASSUME NEW S, NEW s \in Seq(S), NEW p \in 1..Len(s)
    PROVE  /\ RemoveAt(s, p) \in Seq(S) /\ Len(s) \in Nat /\ Len(RemoveAt(s, p)) = Len(s) - 1
           /\ \A n \in 1..Len(s) - 1 : RemoveAt(s, p)[n] = s[Skip(p, n)]
<1>1. /\ RemoveAt(s, p) \in Seq(S)
      /\ Len(RemoveAt(s, p)) = Len(s) - 1
      /\ \A n \in 1..p - 1 : RemoveAt(s, p)[n] = s[n]
      /\ \A n \in p..Len(s) - 1 : RemoveAt(s, p)[n] = s[n + 1]
  BY RemoveAtProperties
<1>2. Len(s) \in Nat
  BY LenProperties
<1> DEFINE r == RemoveAt(s, p)
<1> HIDE DEF r
<1>3. ASSUME NEW n \in 1..Len(s) - 1 PROVE r[n] = s[Skip(p, n)]
  <2>1. CASE n < p
    <3>1. n \in 1..p - 1 /\ Skip(p, n) = n
      BY <1>2, <2>1 DEF Skip
    <3> QED BY <1>1, <3>1 DEF r
  <2>2. CASE ~(n < p)
    <3>1. n \in p..Len(s) - 1 /\ Skip(p, n) = n + 1
      BY <1>2, <2>2 DEF Skip
    <3> QED BY <1>1, <3>1 DEF r
  <2> QED BY <2>1, <2>2
<1> QED BY <1>1, <1>2, <1>3 DEF r

LEMMA RemovedMatches ==
    ASSUME NEW ts \in Seq(TermRecord), NEW h \in Seq(HitRecord), NEW w \in Seq(Nat),
           Matches(ts, h, w), NEW p \in 1..Len(ts)
    PROVE  LET ts2 == RemoveAt(ts, p)
               h2  == IF p <= Len(h) THEN RemoveAt(h, p) ELSE h
               w2  == IF p <= Len(w) THEN RemoveAt(w, p) ELSE w
           IN  /\ ts2 \in Seq(TermRecord) /\ h2 \in Seq(HitRecord) /\ w2 \in Seq(Nat)
               /\ Matches(ts2, h2, w2)
<1> DEFINE ts2 == RemoveAt(ts, p)
           h2 == IF p <= Len(h) THEN RemoveAt(h, p) ELSE h
           w2 == IF p <= Len(w) THEN RemoveAt(w, p) ELSE w
<1>1. Len(ts) \in Nat /\ Len(h) \in Nat /\ Len(w) \in Nat
  BY LenProperties
<1>2. /\ ts2 \in Seq(TermRecord) /\ Len(ts2) = Len(ts) - 1
      /\ \A n \in 1..Len(ts) - 1 : ts2[n] = ts[Skip(p, n)]
  BY RemoveAtIs
<1> HIDE DEF ts2
<1>3. /\ Len(h) <= Len(ts) /\ \A n \in 1..Len(h) : h[n].term = ts[n].id
      /\ Len(w) <= Len(ts) /\ \A n \in 1..Len(w) : w[n] = ts[n].id
  BY DEF Matches
<1>4. h2 \in Seq(HitRecord) /\ Len(h2) <= Len(ts2) /\ \A n \in 1..Len(h2) : h2[n].term = ts2[n].id
  <2>1. CASE p <= Len(h)
    <3>1. p \in 1..Len(h)
      BY <1>1, <2>1
    <3>2. /\ h2 \in Seq(HitRecord) /\ Len(h2) = Len(h) - 1
          /\ \A n \in 1..Len(h) - 1 : h2[n] = h[Skip(p, n)]
      BY <2>1, <3>1, RemoveAtIs
    <3> HIDE DEF h2
    <3>3. ASSUME NEW n \in 1..Len(h2) PROVE h2[n].term = ts2[n].id
      <4>1. n \in 1..Len(h) - 1 /\ n \in 1..Len(ts) - 1 /\ Skip(p, n) \in 1..Len(h)
        BY <1>1, <1>3, <3>2 DEF Skip
      <4> QED BY <1>2, <1>3, <3>2, <4>1
    <3> QED BY <1>1, <1>2, <1>3, <3>2, <3>3
  <2>2. CASE ~(p <= Len(h))
    <3>1. h2 = h /\ Len(h) <= Len(ts2)
      BY <1>1, <1>2, <2>2
    <3>2. ASSUME NEW n \in 1..Len(h) PROVE h[n].term = ts2[n].id
      <4>1. n \in 1..Len(ts) - 1 /\ Skip(p, n) = n
        BY <1>1, <2>2 DEF Skip
      <4> QED BY <1>2, <1>3, <4>1
    <3> QED BY <3>1, <3>2
  <2> QED BY <2>1, <2>2
<1>5. w2 \in Seq(Nat) /\ Len(w2) <= Len(ts2) /\ \A n \in 1..Len(w2) : w2[n] = ts2[n].id
  <2>1. CASE p <= Len(w)
    <3>1. p \in 1..Len(w)
      BY <1>1, <2>1
    <3>2. /\ w2 \in Seq(Nat) /\ Len(w2) = Len(w) - 1
          /\ \A n \in 1..Len(w) - 1 : w2[n] = w[Skip(p, n)]
      BY <2>1, <3>1, RemoveAtIs
    <3> HIDE DEF w2
    <3>3. ASSUME NEW n \in 1..Len(w2) PROVE w2[n] = ts2[n].id
      <4>1. n \in 1..Len(w) - 1 /\ n \in 1..Len(ts) - 1 /\ Skip(p, n) \in 1..Len(w)
        BY <1>1, <1>3, <3>2 DEF Skip
      <4> QED BY <1>2, <1>3, <3>2, <4>1
    <3> QED BY <1>1, <1>2, <1>3, <3>2, <3>3
  <2>2. CASE ~(p <= Len(w))
    <3>1. w2 = w /\ Len(w) <= Len(ts2)
      BY <1>1, <1>2, <2>2
    <3>2. ASSUME NEW n \in 1..Len(w) PROVE w[n] = ts2[n].id
      <4>1. n \in 1..Len(ts) - 1 /\ Skip(p, n) = n
        BY <1>1, <2>2 DEF Skip
      <4> QED BY <1>2, <1>3, <4>1
    <3> QED BY <3>1, <3>2
  <2> QED BY <2>1, <2>2
<1> HIDE DEF h2, w2
<1> QED BY <1>2, <1>4, <1>5 DEF Matches, ts2, h2, w2

\* New terms at the end change nothing for those there were.
LEMMA GrownFits ==
    ASSUME NEW v, NEW u, NEW h, NEW k, NEW w, Fits(v, h, k, w), VarOK(u), Grown(v, u)
    PROVE  Fits(u, h, k, w)
<1>1. v \in Variable /\ u \in Variable
  BY DEF Fits, VarOK
<1> DEFINE m == Len(v.terms)
           n == Len(u.terms)
<1>2. m \in Nat /\ n \in Nat
  BY <1>1, TermsAre
<1>3. Len(h) \in Nat /\ Len(w) \in Nat
  BY LenProperties DEF Fits
<1>4. /\ Len(h) <= m /\ \A q \in 1..Len(h) : h[q].term = v.terms[q].id
      /\ Len(w) <= m /\ \A q \in 1..Len(w) : w[q] = v.terms[q].id
  BY DEF Fits, Matches
<1>5. m <= n /\ \A q \in 1..m : u.terms[q].id = v.terms[q].id
  BY DEF Grown
<1> HIDE DEF m
<1>6. \A q \in 1..Len(h) : q \in 1..m
  BY <1>2, <1>3, <1>4
<1>7. \A q \in 1..Len(w) : q \in 1..m
  BY <1>2, <1>3, <1>4
<1>8. Len(h) <= n /\ Len(w) <= n
  BY <1>2, <1>3, <1>4, <1>5
<1>9. Matches(u.terms, h, w)
  BY <1>4, <1>5, <1>6, <1>7, <1>8 DEF Matches
<1> QED BY <1>9 DEF Fits

-----------------------------------------------------------------------------
(* What the observation does with its weights                              *)

LEMMA OutputOf ==
    ASSUME NEW o, NEW ws, NEW m \in Nat, ws = [t \in 1..m |-> ws[t]],
           o = [in |-> o.in, out |-> <<ws>>]
    PROVE  OneOutput(o) /\ o.out[1] = ws /\ Len(o.out[1]) = m
<1>1. ws \in Seq(ToSet(ws)) /\ Len(ws) = m
  BY ListIs
<1>2. o.out = <<ws>>
  OBVIOUS
<1>3. o.out[1] = ws
  BY <1>2
<1> QED BY <1>1, <1>3 DEF OneOutput

\* Writing the weights of an observation of one output.
LEMMA Rewritten ==
    ASSUME NEW o, OneOutput(o), NEW e
    PROVE  [o EXCEPT !.out[1] = e] = [in |-> o.in, out |-> <<e>>]
<1> DEFINE in == o.in
           ws == o.out[1]
<1>1. o = [in |-> in, out |-> <<ws>>]
  BY DEF OneOutput
<1> HIDE DEF in, ws
<1>2. <<ws>> = [t \in 1..1 |-> ws] /\ <<e>> = [t \in 1..1 |-> e]
  OBVIOUS
<1>3. [<<ws>> EXCEPT ![1] = e] = <<e>>
  BY <1>2
<1>4. [o EXCEPT !.out[1] = e] = [o EXCEPT !.out = [<<ws>> EXCEPT ![1] = e]]
  BY <1>1
<1>5. [o EXCEPT !.out[1] = e] = [in |-> in, out |-> <<e>>]
  BY <1>1, <1>3, <1>4
<1> QED BY <1>5 DEF in

LEMMA WeightRemoved ==
    ASSUME NEW o, OneOutput(o), NEW p \in 1..Len(o.out[1])
    PROVE  /\ OneOutput(ObservationRemoveTerm(o, 1, p, FALSE))
           /\ Len(ObservationRemoveTerm(o, 1, p, FALSE).out[1]) = Len(o.out[1]) - 1
<1> DEFINE ws == o.out[1]
           x == ObservationRemoveTerm(o, 1, p, FALSE)
           r == RemoveAt(ws, p)
<1>1. ws \in Seq(ToSet(ws))
  BY DEF OneOutput
<1>2. x = [o EXCEPT !.out[1] = r]
  BY DEF ObservationRemoveTerm
<1>3. x = [in |-> o.in, out |-> <<r>>]
  BY <1>2, Rewritten
<1>4. r \in Seq(ToSet(ws)) /\ Len(r) = Len(ws) - 1 /\ Len(ws) \in Nat
  BY <1>1, RemoveAtIs
<1> HIDE DEF r, x
<1>5. Len(r) \in Nat /\ r = [t \in 1..Len(r) |-> r[t]]
  BY <1>4, LenProperties
<1>6. x.in = o.in
  BY <1>3
<1> HIDE DEF ws
<1> QED BY <1>3, <1>4, <1>5, <1>6, OutputOf DEF x, ws

LEMMA WeightsMerged ==
    ASSUME NEW o, OneOutput(o), NEW p \in 1..Len(o.out[1]), NEW found, NEW junk
    PROVE  LET x == ObservationMergeTerms(o, 1, found, p, FALSE, junk)
           IN  OneOutput(x) /\ Len(x.out[1]) = Len(o.out[1]) - 1
<1> DEFINE ws == o.out[1]
           x == ObservationMergeTerms(o, 1, found, p, FALSE, junk)
           sum == Wide(ws, found, junk) + Wide(ws, p, junk)
           both == [t \in DOMAIN ws |->
                      CASE t = found     -> sum % (MaxWeight + 1)
                        [] t = found + 1 -> (sum \div (MaxWeight + 1)) % (MaxWeight + 1)
                        [] OTHER         -> ws[t]]
           r == RemoveAt(both, p)
<1>1. ws \in Seq(ToSet(ws)) /\ Len(ws) \in Nat /\ DOMAIN ws = 1..Len(ws)
  BY LenProperties DEF OneOutput
<1>2. x = [o EXCEPT !.out[1] = r]
  BY DEF ObservationMergeTerms
<1>3. x = [in |-> o.in, out |-> <<r>>]
  BY <1>2, Rewritten
<1>4. both = [t \in 1..Len(ws) |-> both[t]]
  BY <1>1
<1> HIDE DEF both
<1>5. both \in Seq(ToSet(both)) /\ Len(both) = Len(ws)
  BY <1>1, <1>4, ListIs
<1>6. r \in Seq(ToSet(both)) /\ Len(r) = Len(ws) - 1
  <2>1. p \in 1..Len(both)
    BY <1>5
  <2> QED BY <1>5, <2>1, RemoveAtIs
<1> HIDE DEF r, x
<1>7. Len(r) \in Nat /\ r = [t \in 1..Len(r) |-> r[t]]
  BY <1>6, LenProperties
<1>8. x.in = o.in
  BY <1>3
<1> HIDE DEF ws
<1> QED BY <1>3, <1>6, <1>7, <1>8, OutputOf DEF x, ws

\* An observation has at most the weights there are terms for, and room is made
\* for no more than those.
LEMMA WeightsHit ==
    ASSUME NEW o, OneOutput(o), NEW n \in Nat, Len(o.out[1]) <= n, NEW fz, fz.outTerms = <<n>>,
           NEW m, NEW grows
    PROVE  LET x == ObservationHit(fz, o, m, grows)
           IN  OneOutput(x) /\ Len(o.out[1]) <= Len(x.out[1]) /\ Len(x.out[1]) <= n
<1> DEFINE ws == o.out[1]
           fails == HitFails(fz, o, m, grows)
           grown == OutputsGrown(fz, o)
           room == IF ~fails /\ GrowsNow(fz, o, m, grows) THEN grown ELSE o.out
           reached(q, t) == ~fails \/ \A p \in Roomless(fz, o, m) : Precedes(<<q, t>>, p)
           hit(q) == [t \in DOMAIN room[q] |->
                IF q \in DOMAIN fz.outTerms /\ t <= fz.outTerms[q] /\ reached(q, t)
                THEN HitWeight(room[q][t], t \in m.out[q]) ELSE room[q][t]]
           x == ObservationHit(fz, o, m, grows)
<1>1. o = [in |-> o.in, out |-> <<ws>>]
  BY DEF OneOutput
<1>2. /\ ws \in Seq(ToSet(ws)) /\ Len(ws) \in Nat /\ DOMAIN ws = 1..Len(ws) /\ Len(ws) <= n
  BY LenProperties DEF OneOutput
<1>3. x = [o EXCEPT !.out = [q \in DOMAIN room |-> hit(q)]]
  BY DEF ObservationHit
<1> HIDE DEF ws, x
<1>4. o.out = <<ws>> /\ DOMAIN o.out = 1..1 /\ Len(o.out) = 1 /\ o.out[1] = ws
  <2>1. o.out = <<ws>>
    BY <1>1
  <2> QED BY <2>1
<1>5. DOMAIN fz.outTerms = 1..1 /\ Len(fz.outTerms) = 1 /\ fz.outTerms[1] = n
  OBVIOUS
<1>6. DOMAIN grown = 1..1 /\ DOMAIN grown[1] = 1..n
  <2>1. DOMAIN grown = 1..1
    BY <1>4, <1>5 DEF OutputsGrown
  <2>2. grown[1] = [t \in 1..(IF Len(ws) > n THEN Len(ws) ELSE n) |-> OutWeight(o, 1, t)]
    BY <1>4, <1>5 DEF OutputsGrown
  <2>3. (IF Len(ws) > n THEN Len(ws) ELSE n) = n
    BY <1>2
  <2> QED BY <2>1, <2>2, <2>3
<1> HIDE DEF grown
<1>7. \E l \in Nat : DOMAIN room = 1..1 /\ DOMAIN room[1] = 1..l /\ Len(ws) <= l /\ l <= n
  <2>1. CASE room = grown
    BY <1>2, <1>6, <2>1
  <2>2. CASE room = o.out
    BY <1>2, <1>4, <2>2
  <2> QED BY <2>1, <2>2
<1>8. PICK l \in Nat : DOMAIN room = 1..1 /\ DOMAIN room[1] = 1..l /\ Len(ws) <= l /\ l <= n
  BY <1>7
<1> HIDE DEF room, reached, fails
<1>9. hit(1) = [t \in 1..l |-> hit(1)[t]]
  BY <1>8
<1>10. [q \in DOMAIN room |-> hit(q)] = <<hit(1)>>
  <2>1. <<hit(1)>> = [q \in 1..1 |-> hit(1)]
    OBVIOUS
  <2>2. \A q \in 1..1 : q = 1
    OBVIOUS
  <2> HIDE DEF hit
  <2>3. [q \in 1..1 |-> hit(q)] = [q \in 1..1 |-> hit(1)]
    BY <2>2
  <2> QED BY <1>8, <2>1, <2>3
<1> DEFINE h == hit(1)
<1> HIDE DEF hit
<1>11. x = [in |-> o.in, out |-> <<h>>]
  BY <1>1, <1>3, <1>10
<1> HIDE DEF h
<1>12. x.in = o.in
  BY <1>11
<1>13. h = [t \in 1..l |-> h[t]]
  BY <1>9 DEF h
<1>14. OneOutput(x) /\ Len(x.out[1]) = l
  BY ONLY l \in Nat, <1>11, <1>12, <1>13, OutputOf
<1> QED BY <1>8, <1>14 DEF x, ws

-----------------------------------------------------------------------------
(* sml_process                                                             *)

Reading(s) == s = [var |-> s.var, hits |-> s.hits, measure |-> s.measure,
                   known |-> s.known, weighed |-> s.weighed,
                   j |-> s.j, len |-> s.len, junk |-> s.junk, end |-> s.end]

ReadingFits(s) == Reading(s) /\ Fits(s.var, s.hits, s.known, s.weighed)

LEMMA KnowsEach ==
    ASSUME NEW k, NEW w, Knows(k, w), k # <<>>
    PROVE  /\ DOMAIN k = 1..1 /\ k = <<k[1]>> /\ OneOutput(k[1])
           /\ \A n \in DOMAIN k : n = 1
           /\ Len(k[1].out[1]) = Len(w)
<1>1. k = <<k[1]>> /\ OneOutput(k[1]) /\ Len(k[1].out[1]) = Len(w)
  BY DEF Knows
<1> DEFINE o == k[1]
<1>2. k = <<o>>
  BY <1>1
<1> HIDE DEF o
<1>3. DOMAIN k = 1..1
  BY <1>2
<1>4. \A n \in 1..1 : n = 1
  OBVIOUS
<1> QED BY <1>1, <1>3, <1>4

LEMMA ShorterVariable ==
    ASSUME NEW v, VarOK(v), NEW ts \in Seq(TermRecord)
    PROVE  VarOK([v EXCEPT !.terms = ts]) /\ [v EXCEPT !.terms = ts].terms = ts
<1> DEFINE u == [v EXCEPT !.terms = ts]
<1>1. v \in Variable
  BY DEF VarOK
<1>2. u \in Variable /\ u.terms = ts /\ u.min = v.min /\ u.max = v.max /\ u.width = v.width
  BY <1>1 DEF Variable
<1> HIDE DEF u
<1> QED BY <1>2 DEF VarOK, u

\* Removing a queued term takes its count and its weight along.
LEMMA QueuedLeaves ==
    ASSUME NEW s, ReadingFits(s), NEW id
    PROVE  ReadingFits(RemoveQueued(s, id)) /\ RemoveQueued(s, id).j = s.j
<1> DEFINE ts == s.var.terms
           p == PositionOf(ts, id)
           ends == IF s.known = <<>> THEN "ok" ELSE RemoveTermOutcome(s.known[1], 1, p, FALSE)
           h2 == IF p <= Len(s.hits) THEN RemoveAt(s.hits, p) ELSE s.hits
           w2 == IF s.weighed = <<>> THEN s.weighed ELSE RemoveAt(s.weighed, p)
           k2 == [n \in DOMAIN s.known |-> ObservationRemoveTerm(s.known[n], 1, p, FALSE)]
           full == [s EXCEPT !.var.terms = RemoveAt(@, p), !.hits = h2, !.weighed = w2,
                             !.known = k2]
           r == RemoveQueued(s, id)
<1>1. r = CASE s.end # "ok" \/ p = 0 -> s
            [] s.end = "ok" /\ p # 0 /\ ends # "ok" -> [s EXCEPT !.end = ends]
            [] OTHER -> full
  BY DEF RemoveQueued, PositionOf
<1>2. Reading(s) /\ Fits(s.var, s.hits, s.known, s.weighed)
  BY DEF ReadingFits
<1>3. VarOK(s.var) /\ s.var \in Variable /\ ts \in Seq(TermRecord)
  <2>1. s.var \in Variable
    BY <1>2 DEF Fits, VarOK
  <2> QED BY <1>2, <2>1, TermsAre DEF Fits
<1>4. p = 0 \/ p \in 1..Len(ts)
  BY <1>3, PositionIs
<1>5. full = [s EXCEPT !.var = [s.var EXCEPT !.terms = RemoveAt(ts, p)], !.hits = h2,
                       !.weighed = w2, !.known = k2]
  BY <1>2 DEF Reading
<1> HIDE DEF p, r, ends, full
<1>6. CASE r = s
  BY <1>6 DEF ReadingFits, r
<1>7. CASE r = [s EXCEPT !.end = ends]
  <2>1. /\ Reading(r) /\ r.var = s.var /\ r.hits = s.hits /\ r.known = s.known
        /\ r.weighed = s.weighed /\ r.j = s.j
    BY <1>2, <1>7 DEF Reading
  <2> QED BY <1>2, <2>1 DEF ReadingFits, r
<1>8. CASE s.end = "ok" /\ p # 0 /\ ends = "ok" /\ r = full
  <2>1. p \in 1..Len(ts)
    BY <1>4, <1>8
  <2> DEFINE ts2 == RemoveAt(ts, p)
             u == [s.var EXCEPT !.terms = ts2]
             w3 == IF p <= Len(s.weighed) THEN RemoveAt(s.weighed, p) ELSE s.weighed
  <2>2. /\ ts2 \in Seq(TermRecord) /\ h2 \in Seq(HitRecord) /\ w3 \in Seq(Nat)
        /\ Matches(ts2, h2, w3)
    <3>1. s.hits \in Seq(HitRecord) /\ s.weighed \in Seq(Nat) /\ Matches(ts, s.hits, s.weighed)
      BY <1>2 DEF Fits
    <3> HIDE DEF ts
    <3> QED BY <1>3, <2>1, <3>1, RemovedMatches
  <2>3. w3 = w2 /\ Knows(k2, w2)
    <3>1. CASE s.known = <<>>
      <4>1. s.weighed = <<>>
        BY <1>2, <3>1 DEF Fits, Knows
      <4>2. Len(<<>>) = 0 /\ ~(p <= 0)
        BY <2>1
      <4>3. k2 = <<>>
        BY <3>1
      <4> HIDE DEF k2
      <4> QED BY <4>1, <4>2, <4>3 DEF Knows
    <3>2. CASE s.known # <<>>
      <4> DEFINE o == s.known[1]
                 x == ObservationRemoveTerm(o, 1, p, FALSE)
      <4>1. /\ DOMAIN s.known = 1..1 /\ s.known = <<o>> /\ OneOutput(o)
            /\ Len(o.out[1]) = Len(s.weighed) /\ \A n \in DOMAIN s.known : n = 1
        BY <1>2, <3>2, KnowsEach DEF Fits
      <4>2. p \in DOMAIN o.out[1]
        <5>1. RemoveTermOutcome(o, 1, p, FALSE) = "ok"
          BY <1>8, <3>2 DEF ends
        <5> HIDE DEF o
        <5> QED BY <5>1 DEF RemoveTermOutcome
      <4>3. p \in 1..Len(o.out[1])
        <5>1. o.out[1] \in Seq(ToSet(o.out[1]))
          BY <4>1 DEF OneOutput
        <5> QED BY <4>2, <5>1, LenProperties
      <4>4. OneOutput(x) /\ Len(x.out[1]) = Len(o.out[1]) - 1
        BY <4>1, <4>3, WeightRemoved
      <4>5. k2 = <<x>>
        <5>1. k2 = [n \in 1..1 |-> ObservationRemoveTerm(s.known[n], 1, p, FALSE)]
          BY <4>1
        <5>2. k2 = [n \in 1..1 |-> x]
          BY <4>1, <5>1
        <5> HIDE DEF x, k2
        <5>3. <<x>> = [n \in 1..1 |-> x]
          OBVIOUS
        <5> QED BY <5>2, <5>3
      <4> HIDE DEF x, o, k2
      <4>6. p \in 1..Len(s.weighed) /\ Len(s.weighed) \in Nat
        <5>1. s.weighed \in Seq(Nat)
          BY <1>2 DEF Fits
        <5> QED BY <4>1, <4>3, <5>1, LenProperties
      <4>7. s.weighed # <<>> /\ p <= Len(s.weighed)
        <5>1. Len(<<>>) = 0
          OBVIOUS
        <5> QED BY <4>6, <5>1
      <4>8. w2 = RemoveAt(s.weighed, p) /\ w3 = w2
        BY <4>7
      <4>9. Len(w2) = Len(s.weighed) - 1
        <5>1. s.weighed \in Seq(Nat)
          BY <1>2 DEF Fits
        <5> QED BY <4>6, <4>8, <5>1, RemoveAtIs
      <4>10. k2[1] = x
        BY <4>5
      <4>11. Knows(k2, w2)
        BY <4>1, <4>4, <4>5, <4>9, <4>10 DEF Knows
      <4> QED BY <4>8, <4>11
    <3> QED BY <3>1, <3>2
  <2> HIDE DEF ts2, w2, h2, k2, w3
  <2>4. VarOK(u) /\ u.terms = ts2
    BY <1>3, <2>2, ShorterVariable
  <2> HIDE DEF u
  <2>5. r = [s EXCEPT !.var = u, !.hits = h2, !.weighed = w2, !.known = k2]
    BY <1>5, <1>8 DEF u, ts2
  <2>6. Reading(r) /\ r.var = u /\ r.hits = h2 /\ r.weighed = w2 /\ r.known = k2 /\ r.j = s.j
    BY <1>2, <2>5 DEF Reading
  <2>7. Fits(u, h2, k2, w2)
    BY <2>2, <2>3, <2>4 DEF Fits
  <2> QED BY <2>6, <2>7 DEF ReadingFits, r
<1> QED BY <1>1, <1>6, <1>7, <1>8

Removing(c, s, id) == RemoveQueued(s, id)
RemovingInv(c, s) == ReadingFits(s) /\ s.j = 1

RQ == INSTANCE SeqLemmas WITH FoldOp <- Removing, FoldInv <- RemovingInv

LEMMA QueueLeaves ==
    ASSUME NEW s, ReadingFits(s), s.j = 1, NEW q \in Seq(Nat)
    PROVE  ReadingFits(FoldLeft(RemoveQueued, s, q)) /\ FoldLeft(RemoveQueued, s, q).j = 1
<1>1. FoldLeft(RemoveQueued, s, q) = RQ!Folded(0, s, q)
  BY DEF RQ!Folded, RQ!IterEq, RQ!Largest, Max, Removing, FoldLeft, MapThenFoldSet
<1>2. RemovingInv(0, s)
  BY DEF RemovingInv
<1>3. ASSUME NEW y, NEW n \in 1..Len(q), RemovingInv(0, y)
      PROVE  RemovingInv(0, Removing(0, y, q[n]))
  BY <1>3, QueuedLeaves DEF RemovingInv, Removing
<1>4. RemovingInv(0, RQ!Folded(0, s, q))
  BY <1>2, <1>3, RQ!FoldKeeps
<1> QED BY <1>1, <1>4 DEF RemovingInv

\* Learning gives weights to the terms there are; those that had one keep it.
LEMMA LearntFits ==
    ASSUME NEW s, ReadingFits(s), NEW grows
    PROVE  ReadingFits(Learnt(s, grows)) /\ Learnt(s, grows).j = s.j
<1> DEFINE ts == s.var.terms
           fz == Fuzzy(s.var)
           m == [in |-> <<>>, out |-> <<{n \in DOMAIN s.measure[1] : Passes(s.measure[1][n])}>>]
           o == IF s.known = <<>> THEN ObservationNew(fz, m) ELSE s.known[1]
           fails == HitFails(fz, o, m, grows)
           after == ObservationHit(fz, o, m, grows)
           w2 == [n \in 1..Len(after.out[1]) |->
                     IF n <= Len(s.weighed) THEN s.weighed[n] ELSE ts[n].id]
           end2 == IF fails THEN "error" ELSE s.end
           full == [s EXCEPT !.known = <<after>>, !.weighed = w2, !.end = end2]
           r == Learnt(s, grows)
<1>1. r = IF s.known = <<>> /\ m.out[1] = {} THEN s ELSE full
  BY DEF Learnt
<1>2. Reading(s) /\ Fits(s.var, s.hits, s.known, s.weighed)
  BY DEF ReadingFits
<1>3. s.var \in Variable /\ ts \in Seq(TermRecord) /\ Len(ts) \in Nat
  <2>1. s.var \in Variable
    BY <1>2 DEF Fits, VarOK
  <2> QED BY <2>1, TermsAre
<1>4. fz.outTerms = <<Len(ts)>> /\ fz.inTerms = <<>>
  BY DEF Fuzzy
<1>5. /\ s.hits \in Seq(HitRecord) /\ s.weighed \in Seq(Nat) /\ Len(s.weighed) \in Nat
      /\ Matches(ts, s.hits, s.weighed) /\ Knows(s.known, s.weighed)
  BY <1>2, LenProperties DEF Fits
<1> HIDE DEF fz, m, fails
<1>6. OneOutput(o) /\ Len(o.out[1]) <= Len(ts) /\ Len(o.out[1]) >= Len(s.weighed)
  <2>1. CASE s.known = <<>>
    <3> DEFINE ws == [t \in 1..Len(ts) |-> 0]
               ins == [i \in DOMAIN fz.inTerms |-> [t \in 1..fz.inTerms[i] |->
                          Bit(fz.inEnabled[i] /\ t \in m.in[i])]]
               outs == [q \in DOMAIN fz.outTerms |-> [t \in 1..fz.outTerms[q] |-> 0]]
    <3>1. o = [in |-> ins, out |-> outs]
      BY <2>1 DEF ObservationNew
    <3>2. outs = <<ws>>
      <4>1. DOMAIN fz.outTerms = 1..1 /\ \A q \in 1..1 : fz.outTerms[q] = Len(ts)
        BY <1>4
      <4>2. outs = [q \in 1..1 |-> ws]
        BY <4>1
      <4> HIDE DEF outs, ws
      <4>3. <<ws>> = [q \in 1..1 |-> ws]
        OBVIOUS
      <4> QED BY <4>2, <4>3
    <3>3. ws = [t \in 1..Len(ts) |-> ws[t]]
      OBVIOUS
    <3> HIDE DEF ins, outs, ws, o
    <3>4. o.in = ins
      BY <3>1
    <3>5. o = [in |-> o.in, out |-> <<ws>>]
      BY <3>1, <3>2, <3>4
    <3>6. OneOutput(o) /\ Len(o.out[1]) = Len(ts)
      BY <1>3, <3>3, <3>5, OutputOf
    <3>7. Len(s.weighed) <= Len(ts)
      BY <1>5 DEF Matches
    <3> QED BY <1>3, <1>5, <3>6, <3>7
  <2>2. CASE s.known # <<>>
    <3>1. o = s.known[1]
      BY <2>2
    <3>2. OneOutput(o) /\ Len(o.out[1]) = Len(s.weighed)
      BY <1>5, <2>2, <3>1, KnowsEach
    <3>3. Len(s.weighed) <= Len(ts)
      BY <1>5 DEF Matches
    <3> QED BY <1>5, <3>2, <3>3
  <2> QED BY <2>1, <2>2
<1> HIDE DEF o
<1>7. OneOutput(after) /\ Len(o.out[1]) <= Len(after.out[1]) /\ Len(after.out[1]) <= Len(ts)
  BY <1>3, <1>4, <1>6, WeightsHit
<1> HIDE DEF after
<1> DEFINE l == Len(after.out[1])
<1>8. l \in Nat /\ l <= Len(ts) /\ Len(o.out[1]) \in Nat /\ Len(s.weighed) <= l
  <2>1. Len(o.out[1]) \in Nat /\ l \in Nat
    BY <1>6, <1>7, LenProperties DEF OneOutput
  <2> QED BY <1>3, <1>5, <1>6, <1>7, <2>1
<1> HIDE DEF l, end2, full, r
<1>9. \A n \in 1..l : n \in 1..Len(ts) /\ w2[n] = ts[n].id
  <2>1. \A n \in 1..Len(s.weighed) : s.weighed[n] = ts[n].id
    BY <1>5 DEF Matches
  <2>2. ASSUME NEW n \in 1..l PROVE n \in 1..Len(ts) /\ w2[n] = ts[n].id
    <3>1. n \in 1..Len(ts) /\ (n <= Len(s.weighed) => n \in 1..Len(s.weighed))
      BY <1>3, <1>5, <1>8
    <3>2. w2[n] = IF n <= Len(s.weighed) THEN s.weighed[n] ELSE ts[n].id
      BY DEF l
    <3> QED BY <2>1, <3>1, <3>2
  <2> QED BY <2>2
<1>10. w2 \in Seq(Nat) /\ Len(w2) = l
  <2>1. DOMAIN w2 = 1..l /\ w2 = [n \in 1..l |-> w2[n]]
    BY DEF l
  <2> HIDE DEF w2
  <2>2. \A n \in 1..l : w2[n] \in Nat
    <3>1. \A n \in 1..Len(ts) : ts[n].id \in Nat
      BY <1>3, TermsAre
    <3> QED BY <1>9, <3>1
  <2>3. w2 \in [1..l -> Nat]
    BY <2>1, <2>2
  <2>4. w2 \in Seq(Nat)
    BY <1>8, <2>3, IsASeq
  <2> QED BY <1>8, <2>1, <2>4, LenProperties
<1> HIDE DEF w2
<1>11. Fits(s.var, s.hits, <<after>>, w2)
  <2>1. Matches(ts, s.hits, w2)
    BY <1>5, <1>8, <1>9, <1>10 DEF Matches
  <2>2. Knows(<<after>>, w2)
    <3>1. <<after>>[1] = after
      OBVIOUS
    <3> QED BY <1>7, <1>10, <3>1 DEF Knows, l
  <2> QED BY <1>2, <1>10, <2>1, <2>2 DEF Fits
<1>12. ReadingFits(full) /\ full.j = s.j
  <2>1. /\ Reading(full) /\ full.var = s.var /\ full.hits = s.hits /\ full.known = <<after>>
        /\ full.weighed = w2 /\ full.j = s.j
    <3> DEFINE k2 == <<after>>
    <3>1. full = [s EXCEPT !.known = k2, !.weighed = w2, !.end = end2]
      BY DEF full
    <3> HIDE DEF k2
    <3>2. /\ Reading(full) /\ full.var = s.var /\ full.hits = s.hits /\ full.known = k2
          /\ full.weighed = w2 /\ full.j = s.j
      BY <1>2, <3>1 DEF Reading
    <3> QED BY <3>2 DEF k2
  <2> QED BY <1>11, <2>1 DEF ReadingFits
<1> QED BY <1>1, <1>12 DEF r

-----------------------------------------------------------------------------
(* Counting a reading and merging terms                                    *)

LEMMA SpanningIs ==
    ASSUME NEW t \in TermRecord, NEW u \in TermRecord
    PROVE  Spanning(t, u) \in TermRecord /\ Spanning(t, u).id = u.id
<1> DEFINE lo == IF t.lo < u.lo THEN t.lo ELSE u.lo
           hi == IF t.hi > u.hi THEN t.hi ELSE u.hi
           peak == IF u.kind = "triangle" THEN (lo + hi) \div 2 ELSE u.peak
<1>1. t.lo \in Int /\ u.lo \in Int /\ t.hi \in Int /\ u.hi \in Int /\ u.peak \in Int
  BY DEF TermRecord
<1>2. lo \in Int /\ hi \in Int
  BY <1>1
<1> HIDE DEF lo, hi
<1>3. peak \in Int
  <2>1. (lo + hi) \div 2 \in Int
    BY <1>2
  <2> QED BY <1>1, <2>1
<1>4. Spanning(t, u) = [u EXCEPT !.lo = lo, !.hi = hi, !.peak = peak]
  <2>1. DOMAIN u = {"id", "kind", "lo", "peak", "hi"}
    BY DEF TermRecord
  <2> QED BY <2>1 DEF Spanning, lo, hi
<1> HIDE DEF peak
<1>5. [u EXCEPT !.lo = lo, !.hi = hi, !.peak = peak] \in TermRecord
  BY <1>2, <1>3 DEF TermRecord
<1>6. [u EXCEPT !.lo = lo, !.hi = hi, !.peak = peak].id = u.id
  BY DEF TermRecord
<1> QED BY <1>4, <1>5, <1>6

\* The terms and the counts before a column leaves them.
LEMMA SpannedMatches ==
    ASSUME NEW ts \in Seq(TermRecord), NEW h \in Seq(HitRecord), NEW w, Matches(ts, h, w),
           NEW p \in 1..Len(ts), p \in 1..Len(h), NEW found
    PROVE  LET ts2 == [ts EXCEPT ![found] = Spanning(ts[p], @)]
               h2  == [h EXCEPT ![found].n = @ + h[p].n]
           IN  /\ ts2 \in Seq(TermRecord) /\ Len(ts2) = Len(ts)
               /\ h2 \in Seq(HitRecord) /\ Len(h2) = Len(h)
               /\ Matches(ts2, h2, w)
<1> DEFINE e == Spanning(ts[p], ts[found])
           g == [h[found] EXCEPT !.n = h[found].n + h[p].n]
           ts2 == [ts EXCEPT ![found] = e]
           h2 == [h EXCEPT ![found] = g]
<1>1. /\ Len(ts) \in Nat /\ Len(h) \in Nat /\ DOMAIN ts = 1..Len(ts) /\ DOMAIN h = 1..Len(h)
      /\ \A n \in 1..Len(ts) : ts[n] \in TermRecord
      /\ \A n \in 1..Len(h) : h[n] \in HitRecord
  BY LenProperties, ElementOfSeq
<1>2. ASSUME found \in 1..Len(ts) PROVE e \in TermRecord /\ e.id = ts[found].id
  BY <1>1, <1>2, SpanningIs
<1>3. ASSUME found \in 1..Len(h) PROVE g \in HitRecord /\ g.term = h[found].term
  <2> DEFINE a == h[found]
             b == h[p]
  <2>1. a \in HitRecord /\ b \in HitRecord
    BY <1>1, <1>3
  <2>2. g = [a EXCEPT !.n = a.n + b.n]
    OBVIOUS
  <2> HIDE DEF a, b
  <2>3. a.n + b.n \in Nat
    BY <2>1 DEF HitRecord
  <2>4. g \in HitRecord /\ g.term = a.term
    BY <2>1, <2>2, <2>3 DEF HitRecord
  <2> QED BY <2>4 DEF a
<1> HIDE DEF e, g
<1>4. /\ ts2 \in Seq(TermRecord) /\ Len(ts2) = Len(ts)
      /\ \A n \in 1..Len(ts) : ts2[n].id = ts[n].id
  <2>1. CASE found \in 1..Len(ts)
    <3>1. ts2 \in Seq(TermRecord) /\ Len(ts2) = Len(ts)
      BY <1>1, <1>2, <2>1, ExceptSeq
    <3>2. \A n \in 1..Len(ts) : ts2[n] = IF n = found THEN e ELSE ts[n]
      BY <1>1
    <3> QED BY <1>2, <2>1, <3>1, <3>2
  <2>2. CASE found \notin 1..Len(ts)
    <3>1. ts2 = ts
      BY <1>1, <2>2
    <3> QED BY <1>1, <3>1
  <2> QED BY <2>1, <2>2
<1>5. /\ h2 \in Seq(HitRecord) /\ Len(h2) = Len(h)
      /\ \A n \in 1..Len(h) : h2[n].term = h[n].term
  <2>1. CASE found \in 1..Len(h)
    <3>1. h2 \in Seq(HitRecord) /\ Len(h2) = Len(h)
      BY <1>1, <1>3, <2>1, ExceptSeq
    <3>2. \A n \in 1..Len(h) : h2[n] = IF n = found THEN g ELSE h[n]
      BY <1>1
    <3> QED BY <1>3, <2>1, <3>1, <3>2
  <2>2. CASE found \notin 1..Len(h)
    <3>1. h2 = h
      BY <1>1, <2>2
    <3> QED BY <1>1, <3>1
  <2> QED BY <2>1, <2>2
<1>6. ts2 = [ts EXCEPT ![found] = Spanning(ts[p], @)] /\ h2 = [h EXCEPT ![found].n = @ + h[p].n]
  BY DEF e, g
<1> HIDE DEF ts2, h2
<1>7. Matches(ts2, h2, w)
  <2>1. \A n \in 1..Len(h) : n \in 1..Len(ts)
    BY <1>1 DEF Matches
  <2>2. Len(w) <= Len(ts) => \A n \in 1..Len(w) : n \in 1..Len(ts)
    BY <1>1
  <2> QED BY <1>4, <1>5, <2>1, <2>2 DEF Matches
<1> QED BY <1>4, <1>5, <1>6, <1>7

\* The term that is merged away takes its count and its weight along, when
\* there is a weight for it.
LEMMA MergedIntoFits ==
    ASSUME NEW s, ReadingFits(s), s.j \in 1..Len(s.var.terms), Len(s.hits) = Len(s.var.terms),
           NEW found, \A n \in DOMAIN s.known : s.j <= Len(s.known[n].out[1])
    PROVE  LET r == MergedInto(s, found)
           IN  /\ ReadingFits(r) /\ r.j = s.j /\ r.len = s.len /\ r.end = s.end
               /\ Len(r.hits) = Len(s.hits) - 1
               /\ Len(r.var.terms) = Len(s.var.terms) - 1
<1> DEFINE ts == s.var.terms
           p == s.j
           ts1 == Spread(ts, found, p)
           h1 == [s.hits EXCEPT ![found].n = @ + s.hits[p].n]
           ts2 == RemoveAt(ts1, p)
           h2 == MergedHits(s.hits, found, p)
           k2 == [n \in DOMAIN s.known |->
                     ObservationMergeTerms(s.known[n], 1, found, p, FALSE, s.junk)]
           w2 == IF s.weighed = <<>> THEN s.weighed ELSE RemoveAt(s.weighed, p)
           u == [s.var EXCEPT !.terms = ts2]
           r == MergedInto(s, found)
<1>1. Reading(s) /\ Fits(s.var, s.hits, s.known, s.weighed)
  BY DEF ReadingFits
<1>2. r = [s EXCEPT !.var = u, !.hits = h2, !.known = k2, !.weighed = w2]
  <2> HIDE DEF ts1, h2, k2, w2
  <2>1. DOMAIN s = {"var", "hits", "measure", "known", "weighed", "j", "len", "junk", "end"}
    BY <1>1 DEF Reading
  <2> QED BY <2>1 DEF MergedInto, ts1, h2, k2, w2
<1> HIDE DEF r
<1>3. VarOK(s.var) /\ s.var \in Variable /\ ts \in Seq(TermRecord) /\ Len(ts) \in Nat
  <2>1. s.var \in Variable
    BY <1>1 DEF Fits, VarOK
  <2> QED BY <1>1, <2>1, TermsAre DEF Fits
<1>4. /\ s.hits \in Seq(HitRecord) /\ s.weighed \in Seq(Nat) /\ Len(s.weighed) \in Nat
      /\ Matches(ts, s.hits, s.weighed) /\ Knows(s.known, s.weighed)
  BY <1>1, LenProperties DEF Fits
<1> HIDE DEF ts
<1>5. p \in 1..Len(ts) /\ p \in 1..Len(s.hits) /\ Len(s.hits) = Len(ts)
  BY DEF ts
<1> HIDE DEF p
<1>6. /\ ts1 \in Seq(TermRecord) /\ Len(ts1) = Len(ts)
      /\ h1 \in Seq(HitRecord) /\ Len(h1) = Len(s.hits)
      /\ Matches(ts1, h1, s.weighed)
  BY <1>3, <1>4, <1>5, SpannedMatches DEF Spread
<1>7. h2 = RemoveAt(h1, p)
  BY DEF MergedHits
<1> HIDE DEF ts1, h1, h2
<1> DEFINE w3 == IF p <= Len(s.weighed) THEN RemoveAt(s.weighed, p) ELSE s.weighed
           h3 == IF p <= Len(h1) THEN RemoveAt(h1, p) ELSE h1
<1>8. p \in 1..Len(ts1) /\ h3 = h2
  BY <1>3, <1>5, <1>6, <1>7
<1>9. /\ ts2 \in Seq(TermRecord) /\ h3 \in Seq(HitRecord) /\ w3 \in Seq(Nat)
      /\ Matches(ts2, h3, w3)
  BY <1>4, <1>6, <1>8, RemovedMatches
<1>10. Len(ts2) = Len(ts) - 1 /\ Len(h2) = Len(s.hits) - 1
  <2>1. Len(ts2) = Len(ts) - 1
    BY <1>6, <1>8, RemoveAtIs
  <2>2. p \in 1..Len(h1)
    BY <1>5, <1>6
  <2>3. Len(h2) = Len(h1) - 1
    BY <1>6, <1>7, <2>2, RemoveAtIs
  <2> QED BY <1>6, <2>1, <2>3
<1>11. w3 = w2 /\ Knows(k2, w2)
  <2>1. CASE s.known = <<>>
    <3>1. s.weighed = <<>>
      BY <1>4, <2>1 DEF Knows
    <3>2. Len(<<>>) = 0 /\ ~(p <= 0)
      BY <1>5
    <3>3. k2 = <<>>
      BY <2>1
    <3> HIDE DEF k2
    <3> QED BY <3>1, <3>2, <3>3 DEF Knows
  <2>2. CASE s.known # <<>>
    <3> DEFINE o == s.known[1]
               x == ObservationMergeTerms(o, 1, found, p, FALSE, s.junk)
    <3>1. /\ DOMAIN s.known = 1..1 /\ s.known = <<o>> /\ OneOutput(o)
          /\ Len(o.out[1]) = Len(s.weighed) /\ \A n \in DOMAIN s.known : n = 1
      BY <1>4, <2>2, KnowsEach
    <3>2. p <= Len(o.out[1])
      <4>1. 1 \in DOMAIN s.known
        BY <3>1
      <4> QED BY <4>1 DEF p
    <3>3. p \in 1..Len(o.out[1]) /\ p \in 1..Len(s.weighed)
      BY <1>3, <1>4, <1>5, <3>1, <3>2
    <3>4. OneOutput(x) /\ Len(x.out[1]) = Len(o.out[1]) - 1
      BY <3>1, <3>3, WeightsMerged
    <3>5. k2 = <<x>>
      <4>1. k2 = [n \in 1..1 |-> x]
        BY <3>1
      <4> HIDE DEF x, k2
      <4>2. <<x>> = [n \in 1..1 |-> x]
        OBVIOUS
      <4> QED BY <4>1, <4>2
    <3> HIDE DEF x, o, k2
    <3>6. s.weighed # <<>> /\ p <= Len(s.weighed)
      <4>1. Len(<<>>) = 0
        OBVIOUS
      <4> QED BY <1>4, <3>3, <4>1
    <3>7. w2 = RemoveAt(s.weighed, p) /\ w3 = w2
      BY <3>6
    <3>8. Len(w2) = Len(s.weighed) - 1
      BY <1>4, <3>3, <3>7, RemoveAtIs
    <3>9. k2[1] = x
      BY <3>5
    <3>10. Knows(k2, w2)
      BY <3>1, <3>4, <3>5, <3>8, <3>9 DEF Knows
    <3> QED BY <3>7, <3>10
  <2> QED BY <2>1, <2>2
<1> HIDE DEF ts2, w2, k2, w3, h3
<1>12. VarOK(u) /\ u.terms = ts2
  BY <1>3, <1>9, ShorterVariable
<1> HIDE DEF u
<1>13. /\ Reading(r) /\ r.var = u /\ r.hits = h2 /\ r.weighed = w2 /\ r.known = k2
       /\ r.j = s.j /\ r.len = s.len /\ r.end = s.end
  BY <1>1, <1>2 DEF Reading
<1>14. Fits(u, h2, k2, w2)
  BY <1>8, <1>9, <1>11, <1>12 DEF Fits
<1> QED BY <1>10, <1>12, <1>13, <1>14 DEF ReadingFits, r, ts

\* The loop visits terms that have a count or are next to get one.
Going(s) == /\ s.j \in Nat \ {0} /\ s.len \in Int
            /\ s.j <= Len(s.hits) + 1 /\ s.len <= Len(s.var.terms)

LEMMA LengthsOf ==
    ASSUME NEW s, ReadingFits(s)
    PROVE  /\ Len(s.hits) \in Nat /\ Len(s.var.terms) \in Nat
           /\ Len(s.hits) <= Len(s.var.terms)
           /\ s.hits \in Seq(HitRecord) /\ s.var.terms \in Seq(TermRecord) /\ s.var \in Variable
<1>1. s.var \in Variable /\ s.hits \in Seq(HitRecord) /\ Len(s.hits) <= Len(s.var.terms)
  BY DEF ReadingFits, Fits, VarOK, Matches
<1> QED BY <1>1, TermsAre, LenProperties

LEMMA CountedFits ==
    ASSUME NEW s, ReadingFits(s), Going(s), s.j <= s.len
    PROVE  LET c == Counted(s)
           IN  /\ ReadingFits(c) /\ c.j = s.j /\ c.len = s.len /\ c.end = s.end
               /\ c.var = s.var /\ c.known = s.known
               /\ s.j <= Len(c.hits) /\ Len(c.hits) \in Nat /\ Len(c.hits) <= Len(s.var.terms)
<1> DEFINE t == s.var.terms[s.j]
           b == Bit(Passes(Measured(s.measure[1], s.j)))
           new == [term |-> t.id, n |-> 0]
           room == IF s.j <= Len(s.hits) THEN s.hits ELSE Append(s.hits, new)
           g == [room[s.j] EXCEPT !.n = room[s.j].n + b]
           h == [room EXCEPT ![s.j] = g]
           c == Counted(s)
<1>1. c = [s EXCEPT !.hits = h]
  BY DEF Counted
<1>2. /\ Len(s.hits) \in Nat /\ Len(s.var.terms) \in Nat /\ Len(s.hits) <= Len(s.var.terms)
      /\ s.hits \in Seq(HitRecord) /\ s.var.terms \in Seq(TermRecord) /\ s.var \in Variable
  BY LengthsOf
<1>3. s.j \in 1..Len(s.var.terms) /\ s.j \in Nat \ {0} /\ s.j <= Len(s.hits) + 1
  BY <1>2 DEF Going
<1>4. t.id \in Nat /\ b \in {0, 1}
  BY <1>2, <1>3, TermsAre DEF Bit
<1> HIDE DEF c, b, t
<1>5. new \in HitRecord /\ new.term = t.id
  BY <1>4 DEF HitRecord
<1> HIDE DEF new
<1>6. \A n \in 1..Len(s.hits) : s.hits[n].term = s.var.terms[n].id
  BY DEF ReadingFits, Fits, Matches
<1>7. /\ room \in Seq(HitRecord) /\ Len(room) \in Nat /\ s.j \in 1..Len(room)
      /\ Len(room) <= Len(s.var.terms)
      /\ \A n \in 1..Len(room) : room[n].term = s.var.terms[n].id
  <2>1. CASE s.j <= Len(s.hits)
    BY <1>2, <1>3, <1>6, <2>1
  <2>2. CASE ~(s.j <= Len(s.hits))
    <3>1. s.j = Len(s.hits) + 1
      BY <1>2, <1>3, <2>2
    <3>2. /\ room \in Seq(HitRecord) /\ Len(room) = Len(s.hits) + 1
          /\ \A n \in 1..Len(s.hits) : room[n] = s.hits[n]
          /\ room[Len(s.hits) + 1] = new
      BY <1>2, <1>5, <2>2, AppendProperties
    <3> HIDE DEF room
    <3>3. ASSUME NEW n \in 1..Len(room) PROVE room[n].term = s.var.terms[n].id
      <4>1. CASE n \in 1..Len(s.hits)
        BY <1>6, <3>2, <4>1
      <4>2. CASE n = Len(s.hits) + 1
        BY <1>5, <3>1, <3>2, <4>2 DEF t
      <4> QED BY <1>2, <3>2, <4>1, <4>2
    <3> QED BY <1>2, <1>3, <3>1, <3>2, <3>3
  <2> QED BY <2>1, <2>2
<1> HIDE DEF room
<1>8. g \in HitRecord /\ g.term = room[s.j].term
  <2> DEFINE a == room[s.j]
  <2>1. a \in HitRecord /\ g = [a EXCEPT !.n = a.n + b]
    BY <1>7, ElementOfSeq
  <2> HIDE DEF a, g
  <2>2. a.n + b \in Nat
    BY <1>4, <2>1 DEF HitRecord
  <2>3. g \in HitRecord /\ g.term = a.term
    BY <2>1, <2>2 DEF HitRecord
  <2> QED BY <2>3 DEF a
<1> HIDE DEF g
<1>9. h \in Seq(HitRecord) /\ Len(h) = Len(room)
  BY <1>7, <1>8, ExceptSeq
<1>10. \A n \in 1..Len(room) : h[n] = IF n = s.j THEN g ELSE room[n]
  BY <1>7, LenProperties
<1> HIDE DEF h
<1>11. \A n \in 1..Len(h) : h[n].term = s.var.terms[n].id
  BY <1>7, <1>8, <1>9, <1>10
<1>12. Fits(s.var, h, s.known, s.weighed)
  BY <1>7, <1>9, <1>11 DEF ReadingFits, Fits, Matches
<1>13. /\ Reading(c) /\ c.var = s.var /\ c.hits = h /\ c.known = s.known /\ c.weighed = s.weighed
       /\ c.j = s.j /\ c.len = s.len /\ c.end = s.end
  <2>1. Reading(s)
    BY DEF ReadingFits
  <2> QED BY <1>1, <2>1 DEF Reading
<1>14. s.j <= Len(h) /\ Len(h) \in Nat /\ Len(h) <= Len(s.var.terms)
  BY <1>3, <1>7, <1>9
<1> QED BY <1>12, <1>13, <1>14 DEF ReadingFits, c

\* One round of the loop: the term visited is counted, and merged away when
\* it was hardly ever hit.
Balancing(s) == ReadingFits(s) /\ (s.end = "ok" => Going(s))

LEMMA MergedFits ==
    ASSUME NEW s, ReadingFits(s), s.end = "ok", Going(s), s.j <= s.len, s.j <= Len(s.hits)
    PROVE  Balancing(Merged(s))
<1> DEFINE found == LeastHit(s)
           lacks == \E n \in DOMAIN s.known : \E i \in {found, s.j} : i > Len(s.known[n].out[1])
           r == Merged(s)
           into == MergedInto(s, found)
           none == Others(s) = {}
<1>1. r = CASE none -> [s EXCEPT !.len = s.len - 1]
            [] ~none /\ (Len(s.hits) < Len(s.var.terms) \/ lacks) -> [s EXCEPT !.end = "crash"]
            [] OTHER -> [into EXCEPT !.len = into.len - 1]
  BY DEF Merged
<1>2. Reading(s) /\ Fits(s.var, s.hits, s.known, s.weighed)
  BY DEF ReadingFits
<1>3. /\ Len(s.hits) \in Nat /\ Len(s.var.terms) \in Nat /\ Len(s.hits) <= Len(s.var.terms)
  BY LengthsOf
<1>4. s.j \in Nat \ {0} /\ s.len \in Int /\ s.j <= Len(s.hits) + 1 /\ s.len <= Len(s.var.terms)
  BY DEF Going
<1> HIDE DEF none, lacks, r
<1>5. CASE r = [s EXCEPT !.len = s.len - 1]
  <2>1. /\ Reading(r) /\ r.var = s.var /\ r.hits = s.hits /\ r.known = s.known
        /\ r.weighed = s.weighed /\ r.j = s.j /\ r.len = s.len - 1
    BY <1>2, <1>5 DEF Reading
  <2>2. Going(r)
    BY <1>3, <1>4, <2>1 DEF Going
  <2> QED BY <1>2, <2>1, <2>2 DEF Balancing, ReadingFits, r
<1>6. CASE r = [s EXCEPT !.end = "crash"]
  <2>1. /\ Reading(r) /\ r.var = s.var /\ r.hits = s.hits /\ r.known = s.known
        /\ r.weighed = s.weighed /\ r.end = "crash"
    BY <1>2, <1>6 DEF Reading
  <2> QED BY <1>2, <2>1 DEF Balancing, ReadingFits, r
<1>7. CASE ~(Len(s.hits) < Len(s.var.terms)) /\ ~lacks /\ r = [into EXCEPT !.len = into.len - 1]
  <2>1. Len(s.hits) = Len(s.var.terms) /\ s.j \in 1..Len(s.var.terms)
    BY <1>3, <1>4, <1>7
  <2>2. ASSUME NEW n \in DOMAIN s.known PROVE s.j <= Len(s.known[n].out[1])
    <3>1. ~(s.j > Len(s.known[n].out[1]))
      BY <1>7 DEF lacks
    <3>2. Len(s.known[n].out[1]) \in Nat
      <4>1. s.known # <<>>
        OBVIOUS
      <4>2. OneOutput(s.known[1]) /\ n = 1
        BY <1>2, <4>1, KnowsEach DEF Fits
      <4> QED BY <4>2, LenProperties DEF OneOutput
    <3> QED BY <1>4, <3>1, <3>2
  <2>3. /\ ReadingFits(into) /\ into.j = s.j /\ into.len = s.len /\ into.end = s.end
        /\ Len(into.hits) = Len(s.hits) - 1
        /\ Len(into.var.terms) = Len(s.var.terms) - 1
    BY <2>1, <2>2, MergedIntoFits
  <2> HIDE DEF into
  <2>4. /\ Reading(r) /\ r.var = into.var /\ r.hits = into.hits /\ r.known = into.known
        /\ r.weighed = into.weighed /\ r.j = into.j /\ r.len = into.len - 1
    BY <1>7, <2>3 DEF Reading, ReadingFits
  <2>5. Going(r)
    BY <1>3, <1>4, <2>1, <2>3, <2>4 DEF Going
  <2> QED BY <2>3, <2>4, <2>5 DEF Balancing, ReadingFits, r
<1> QED BY <1>1, <1>5, <1>6, <1>7

Visiting(rebuild, s, i) == HitTerm(s, rebuild)
VisitingInv(rebuild, s) == Balancing(s)

LEMMA VisitFits ==
    ASSUME NEW s, Balancing(s), NEW rebuild
    PROVE  Balancing(HitTerm(s, rebuild))
<1> DEFINE c == Counted(s)
           n == c.hits[s.j].n
           r == HitTerm(s, rebuild)
           shape == HasRange(s.var.terms[s.j])
           alien == [s EXCEPT !.end = "error"]
           crowded == [c EXCEPT !.end = "error"]
           counted == [c EXCEPT !.j = c.j + 1]
           merged == Merged(c)
<1>1. r = CASE s.end # "ok" \/ s.j > s.len -> s
            [] s.end = "ok" /\ s.j <= s.len /\ ~shape -> alien
            [] OTHER -> CASE rebuild /\ n > MAX_CAP -> crowded
                          [] rebuild /\ n <= MAX_CAP /\ n < MIN_CAP -> merged
                          [] OTHER -> counted
  BY DEF HitTerm
<1>2. CASE s.end # "ok" \/ s.j > s.len
  <2> HIDE DEF alien, crowded, counted, merged, n, shape, r
  <2>2. ~(s.end = "ok" /\ s.j <= s.len)
    BY <1>2 DEF Balancing, Going
  <2>1. r = s
    BY <1>1, <1>2, <2>2
  <2> QED BY <2>1 DEF r
<1>3. CASE ~(s.end # "ok" \/ s.j > s.len)
  <2>1. ReadingFits(s) /\ s.end = "ok" /\ Going(s)
    BY <1>3 DEF Balancing
  <2>2. s.j <= s.len /\ s.j \in Nat \ {0}
    BY <1>3, <2>1 DEF Going
  <2>3. /\ ReadingFits(c) /\ c.j = s.j /\ c.len = s.len /\ c.end = s.end
        /\ c.var = s.var /\ c.known = s.known
        /\ s.j <= Len(c.hits) /\ Len(c.hits) \in Nat /\ Len(c.hits) <= Len(s.var.terms)
    BY <2>1, <2>2, CountedFits
  <2>4. Going(c)
    BY <2>1, <2>3 DEF Going
  <2>5. Balancing(Merged(c))
    BY <2>1, <2>2, <2>3, <2>4, MergedFits
  <2> HIDE DEF c, n, shape, alien, crowded, counted, merged, r
  <2>6. r \in {alien, crowded, counted, merged}
    BY <1>1, <1>3
  <2>7. ASSUME NEW z, ReadingFits(z), NEW e, e # "ok" PROVE Balancing([z EXCEPT !.end = e])
    <3> DEFINE w == [z EXCEPT !.end = e]
    <3>1. Reading(z)
      BY <2>7 DEF ReadingFits
    <3>2. w = [z EXCEPT !.end = e]
      OBVIOUS
    <3> HIDE DEF w
    <3>3. /\ Reading(w) /\ w.var = z.var /\ w.hits = z.hits /\ w.known = z.known
          /\ w.weighed = z.weighed /\ w.end = e
      BY <3>1, <3>2 DEF Reading
    <3> QED BY <2>7, <3>3 DEF Balancing, ReadingFits, w
  <2>8. CASE r = counted
    <3>1. Reading(c)
      BY <2>3 DEF ReadingFits
    <3>2. /\ Reading(r) /\ r.var = c.var /\ r.hits = c.hits /\ r.known = c.known
          /\ r.weighed = c.weighed /\ r.j = c.j + 1 /\ r.len = c.len
      BY <2>8, <3>1 DEF Reading, counted
    <3>3. Going(r)
      BY <2>2, <2>3, <2>4, <3>2 DEF Going
    <3> QED BY <2>3, <3>2, <3>3 DEF Balancing, ReadingFits, r
  <2>9. CASE r = merged
    BY <2>5, <2>9 DEF merged, r
  <2>10. CASE r = alien \/ r = crowded
    <3>1. Balancing(alien) /\ Balancing(crowded)
      BY <2>1, <2>3, <2>7 DEF alien, crowded
    <3>2. Balancing(r)
      BY <2>10, <3>1
    <3> QED BY <3>2 DEF r
  <2> QED BY <2>6, <2>8, <2>9, <2>10
<1> QED BY <1>2, <1>3

VI == INSTANCE SeqLemmas WITH FoldOp <- Visiting, FoldInv <- VisitingInv

\* sml_terms_manager_hit
LEMMA BalancedFits ==
    ASSUME NEW s, ReadingFits(s), Going(s), NEW rebuild
    PROVE  ReadingFits(Balanced(s, rebuild))
<1> DEFINE seq == [i \in DOMAIN s.var.terms |-> i]
           z == FoldLeft(LAMBDA t, i : HitTerm(t, rebuild), s, seq)
           r == Balanced(s, rebuild)
<1>1. Len(s.var.terms) \in Nat /\ DOMAIN s.var.terms = 1..Len(s.var.terms)
  BY LengthsOf, TermsAre
<1>2. seq \in Seq(Nat)
  <2>1. seq \in [1..Len(s.var.terms) -> Nat]
    BY <1>1
  <2> QED BY <1>1, <2>1, IsASeq
<1>4. r = IF rebuild /\ z.end = "ok" THEN [z EXCEPT !.hits = Halved(z.hits)] ELSE z
  BY DEF Balanced
<1> HIDE DEF seq, r
<1>5. z = VI!Folded(rebuild, s, seq)
  BY DEF VI!Folded, VI!IterEq, VI!Largest, Max, Visiting, FoldLeft, MapThenFoldSet
<1> HIDE DEF z
<1>6. VisitingInv(rebuild, s)
  BY DEF VisitingInv, Balancing
<1>7. ASSUME NEW y, NEW n \in 1..Len(seq), VisitingInv(rebuild, y)
      PROVE  VisitingInv(rebuild, Visiting(rebuild, y, seq[n]))
  BY <1>7, VisitFits DEF VisitingInv, Visiting
<1>8. VisitingInv(rebuild, VI!Folded(rebuild, s, seq))
  BY <1>2, <1>6, <1>7, VI!FoldKeeps
<1>9. ReadingFits(z)
  BY <1>5, <1>8 DEF VisitingInv, Balancing
<1>10. CASE r = [z EXCEPT !.hits = Halved(z.hits)]
  <2> DEFINE h == Halved(z.hits)
  <2>1. z.hits \in Seq(HitRecord) /\ Len(z.hits) \in Nat /\ DOMAIN z.hits = 1..Len(z.hits)
    BY <1>9, LengthsOf, LenProperties
  <2>2. \A n \in 1..Len(z.hits) : h[n] = [z.hits[n] EXCEPT !.n = z.hits[n].n \div 2]
    BY <2>1 DEF Halved
  <2>3. DOMAIN h = 1..Len(z.hits) /\ h = [n \in 1..Len(z.hits) |-> h[n]]
    BY <2>1 DEF Halved
  <2> HIDE DEF h
  <2>4. ASSUME NEW n \in 1..Len(z.hits) PROVE h[n] \in HitRecord /\ h[n].term = z.hits[n].term
    <3> DEFINE a == z.hits[n]
    <3>1. a \in HitRecord /\ h[n] = [a EXCEPT !.n = a.n \div 2]
      BY <2>1, <2>2, ElementOfSeq
    <3> HIDE DEF a
    <3>2. a.n \div 2 \in Nat
      BY <3>1 DEF HitRecord
    <3>3. h[n] \in HitRecord /\ h[n].term = a.term
      BY <3>1, <3>2 DEF HitRecord
    <3> QED BY <3>3 DEF a
  <2>5. h \in Seq(HitRecord) /\ Len(h) = Len(z.hits)
    <3>1. h \in [1..Len(z.hits) -> HitRecord]
      BY <2>3, <2>4
    <3>2. h \in Seq(HitRecord)
      BY <2>1, <3>1, IsASeq
    <3> QED BY <2>1, <2>3, <3>2, LenProperties
  <2>6. Fits(z.var, h, z.known, z.weighed)
    BY <1>9, <2>4, <2>5 DEF ReadingFits, Fits, Matches
  <2>7. /\ Reading(r) /\ r.var = z.var /\ r.hits = h /\ r.known = z.known /\ r.weighed = z.weighed
    <3>1. r = [z EXCEPT !.hits = h]
      BY <1>10 DEF h
    <3> QED BY <1>9, <3>1 DEF Reading, ReadingFits
  <2> QED BY <2>6, <2>7 DEF ReadingFits, r
<1>11. CASE r = z
  BY <1>9, <1>11 DEF r
<1> QED BY <1>4, <1>10, <1>11

-----------------------------------------------------------------------------
(* The specification                                                       *)

\* What makes TermsAligned inductive: the types, and that without an
\* observation nothing is weighed.
TermsInv == Fits(var, hits, known, weighed) /\ queue \in Seq(Nat)

LEMMA InvAligned == TermsInv => TermsAligned
<1> SUFFICES ASSUME TermsInv PROVE TermsAligned
  OBVIOUS
<1>1. DOMAIN hits = 1..Len(hits) /\ DOMAIN weighed = 1..Len(weighed)
  BY LenProperties DEF TermsInv, Fits
<1>2. \A n \in DOMAIN known : Len(known[n].out[1]) = Len(weighed)
  <2>1. CASE known = <<>>
    BY <2>1
  <2>2. CASE known # <<>>
    <3>1. (\A n \in DOMAIN known : n = 1) /\ Len(known[1].out[1]) = Len(weighed)
      BY <2>2, KnowsEach DEF TermsInv, Fits
    <3> QED BY <3>1
  <2> QED BY <2>1, <2>2
<1>3. Matches(var.terms, hits, weighed)
  BY DEF TermsInv, Fits
<1> QED BY <1>1, <1>2, <1>3 DEF TermsAligned, Matches

\* The variable alone changes, and its terms at most at the end.
LEMMA VariableChanges ==
    ASSUME TermsInv, NEW u, VarOK(u), Grown(var, u), var' = u,
           UNCHANGED <<hits, known, weighed>>
    PROVE  Fits(var, hits, known, weighed)'
BY GrownFits DEF TermsInv

LEMMA StateFits ==
    ASSUME TermsInv, NEW junk
    PROVE  ReadingFits(State(junk)) /\ State(junk).j = 1
<1> DEFINE s == State(junk)
<1>1. /\ s = [var |-> var, hits |-> hits, measure |-> measure, known |-> known,
              weighed |-> weighed, j |-> 1, len |-> 0, junk |-> junk, end |-> "ok"]
  BY DEF State
<1> HIDE DEF s
<1>2. s.var = var /\ s.hits = hits /\ s.known = known /\ s.weighed = weighed /\ s.j = 1
      /\ s.len = 0 /\ s.junk = junk /\ s.end = "ok" /\ s.measure = measure
  BY <1>1
<1>3. Reading(s)
  BY <1>1, <1>2 DEF Reading
<1> QED BY <1>2, <1>3 DEF TermsInv, ReadingFits, s

LEMMA LeavesKeeps ==
    ASSUME NEW s, ReadingFits(s), queue' \in Seq(Nat), Leaves(s)
    PROVE  TermsInv'
BY DEF Leaves, ReadingFits, TermsInv

\* Before the read callback: queued terms leave, and the queue with them.
LEMMA BeginKeeps == ASSUME TermsInv, Begin PROVE TermsInv'
<1> DEFINE s == FoldLeft(RemoveQueued, State(0), queue)
<1>1. queue \in Seq(Nat) /\ <<>> \in Seq(Nat)
  BY DEF TermsInv
<1>2. ReadingFits(s)
  BY <1>1, StateFits, QueueLeaves
<1>3. Leaves(s) /\ queue' \in {queue, <<>>}
  BY DEF Begin
<1> HIDE DEF s
<1> QED BY <1>1, <1>2, <1>3, LeavesKeeps

\* Terms are laid after those there are, which are none.
LEMMA LaidGrows ==
    ASSUME NEW v, VarOK(v)
    PROVE  VarOK(Laid(v)) /\ Grown(v, Laid(v))
<1>1. v \in Variable /\ v.min \in Int /\ v.max \in Int /\ v.min <= v.max
  BY DEF VarOK, Variable
<1> DEFINE u == Created(v, v.min, v.max, TRUE, TRUE)
<1>2. VarOK(u) /\ Grown(v, u)
  BY <1>1, CreatedGrows
<1>3. Grown(v, v)
  BY <1>1, GrownItself
<1>4. Laid(v) = IF v.terms = <<>> THEN u ELSE v
  BY DEF Laid
<1> HIDE DEF u
<1> QED BY <1>2, <1>3, <1>4

LEMMA PreProcessedFits ==
    ASSUME TermsInv, NEW x, NEW fresh, NEW junk
    PROVE  ReadingFits(PreProcessed(x, fresh, junk)) /\ PreProcessed(x, fresh, junk).j = 1
<1> DEFINE s == State(junk)
           u == Laid(var)
           m == IF fresh THEN <<Measure(Laid(var), x)>> ELSE s.measure
           p == PreProcessed(x, fresh, junk)
<1>1. Reading(s) /\ s.j = 1
  BY StateFits DEF ReadingFits
<1>2. s.var = var /\ s.hits = hits /\ s.known = known /\ s.weighed = weighed
  BY DEF State
<1>3. p = [s EXCEPT !.var = u, !.measure = m]
  BY <1>1 DEF PreProcessed, Reading
<1>4. Fits(var, hits, known, weighed) /\ VarOK(var)
  BY DEF TermsInv, Fits
<1>5. VarOK(u) /\ Grown(var, u)
  BY <1>4, LaidGrows
<1> HIDE DEF s, u, m, p
<1>6. Fits(u, hits, known, weighed)
  BY <1>4, <1>5, GrownFits
<1>7. /\ Reading(p) /\ p.var = u /\ p.hits = s.hits /\ p.known = s.known
      /\ p.weighed = s.weighed /\ p.j = 1
  BY <1>1, <1>3 DEF Reading
<1> QED BY <1>2, <1>6, <1>7 DEF ReadingFits, p

\* Learning and balancing, after either callback.
LEMMA FinishKeeps ==
    ASSUME TermsInv, NEW s, ReadingFits(s), s.j = 1, NEW learns, NEW grows,
           Finish(s, learns, grows)
    PROVE  TermsInv'
<1> DEFINE learnt == IF learns THEN Learnt(s, grows) ELSE s
           newTotal == IF total + 1 = MAX_HIT THEN 0 ELSE total + 1
           start == [learnt EXCEPT !.len = Len(learnt.var.terms)]
           ending == Balanced(start, newTotal = 0)
<1>1. queue' \in Seq(Nat)
  BY DEF TermsInv, Finish
<1>2. Leaves(s) \/ Leaves(learnt) \/ Leaves(ending)
  BY DEF Finish
<1>3. ReadingFits(learnt) /\ learnt.j = 1
  BY LearntFits
<1> HIDE DEF learnt
<1>4. ReadingFits(start) /\ Going(start)
  <2> DEFINE l == Len(learnt.var.terms)
  <2>1. start = [learnt EXCEPT !.len = l]
    OBVIOUS
  <2>2. l \in Nat /\ Len(learnt.hits) \in Nat
    BY <1>3, LengthsOf
  <2>3. Reading(learnt)
    BY <1>3 DEF ReadingFits
  <2> HIDE DEF l, start
  <2>4. /\ Reading(start) /\ start.var = learnt.var /\ start.hits = learnt.hits
        /\ start.known = learnt.known /\ start.weighed = learnt.weighed
        /\ start.j = 1 /\ start.len = l
    BY <1>3, <2>1, <2>3 DEF Reading
  <2>5. Going(start)
    BY <2>2, <2>4 DEF Going, l
  <2> QED BY <1>3, <2>4, <2>5 DEF ReadingFits
<1> HIDE DEF start, newTotal
<1>5. ReadingFits(ending)
  BY <1>4, BalancedFits
<1> HIDE DEF ending
<1> QED BY <1>1, <1>2, <1>3, <1>5, LeavesKeeps

\* Counts and weights stay in the places of their terms: TermsAligned is
\* inductive once the types are known.
THEOREM TermsStayAligned == TermsSpec => []TermsAligned
<1>1. TermsInit => TermsInv
  <2> SUFFICES ASSUME TermsInit PROVE TermsInv
    OBVIOUS
  <2>1. PICK r \in Ranges : var = [terms |-> <<>>, min |-> r[1], max |-> r[2],
                                   width |-> NaN, isId |-> FALSE]
    BY DEF TermsInit
  <2>2. r[1] \in Int /\ r[2] \in Int /\ r[1] <= r[2]
    BY AssumedTerms
  <2> DEFINE a == r[1]
             b == r[2]
  <2>3. var = [terms |-> <<>>, min |-> a, max |-> b, width |-> NaN, isId |-> FALSE]
        /\ a \in Int /\ b \in Int /\ a <= b
    BY <2>1, <2>2
  <2> HIDE DEF a, b
  <2>4. VarOK(var) /\ var.terms = <<>>
    BY <2>3 DEF VarOK, Variable, NaN
  <2>5. hits = <<>> /\ known = <<>> /\ weighed = <<>> /\ queue = <<>>
    BY DEF TermsInit
  <2>6. Matches(<<>>, <<>>, <<>>)
    BY DEF Matches
  <2> QED BY <2>4, <2>5, <2>6 DEF TermsInv, Fits, Knows
<1>2. TermsInv /\ [TermsNext]_termVars => TermsInv'
  <2> SUFFICES ASSUME TermsInv, [TermsNext]_termVars PROVE TermsInv'
    OBVIOUS
  <2>1. CASE UNCHANGED termVars
    BY <2>1 DEF termVars, TermsInv
  <2>2. CASE Begin
    BY <2>2, BeginKeeps
  <2>10. CASE ReadFails
    BY <2>10 DEF ReadFails, TermsInv
  <2>11. ASSUME NEW x, NEW fresh, NEW learns, NEW grows, NEW junk,
                Read(x, fresh, learns, grows, junk)
         PROVE  TermsInv'
    <3> DEFINE s == PreProcessed(x, fresh, junk)
    <3>1. Finish(s, learns, grows)
      BY <2>11 DEF Read
    <3>2. ReadingFits(s) /\ s.j = 1
      BY PreProcessedFits
    <3> HIDE DEF s
    <3> QED BY <3>1, <3>2, FinishKeeps
  <2>12. ASSUME NEW x, Act(x) PROVE TermsInv'
    <3> DEFINE s == PreProcessed(x, TRUE, 0)
    <3>1. Leaves(s) /\ queue' \in Seq(Nat)
      BY <2>12 DEF Act, TermsInv
    <3>2. ReadingFits(s)
      BY PreProcessedFits
    <3> HIDE DEF s
    <3> QED BY <3>1, <3>2, LeavesKeeps
  <2>13. ASSUME NEW learns, NEW grows, NEW junk, Announced(learns, grows, junk)
         PROVE  TermsInv'
    <3>1. Finish(State(junk), learns, grows)
      BY <2>13 DEF Announced
    <3> QED BY <3>1, StateFits, FinishKeeps
  <2>3. ASSUME NEW r \in Ranges, SetRange(r) PROVE TermsInv'
    <3> DEFINE result == Rearranged(var, r[1], r[2])
               u == result[1]
               gone == result[2]
    <3>1. var' = u /\ queue' = queue \o gone /\ UNCHANGED <<hits, known, weighed>>
      BY <2>3 DEF SetRange
    <3>2. r[1] \in Int /\ r[2] \in Int /\ r[1] <= r[2] /\ VarOK(var) /\ queue \in Seq(Nat)
      BY AssumedTerms DEF TermsInv, Fits
    <3>3. VarOK(u) /\ Grown(var, u) /\ gone \in Seq(Nat)
      BY <3>2, RearrangedGrows
    <3> HIDE DEF result, u, gone
    <3>4. queue' \in Seq(Nat)
      BY <3>1, <3>2, <3>3, ConcatProperties
    <3> QED BY <3>1, <3>3, <3>4, VariableChanges DEF TermsInv
  <2>4. ASSUME NEW w \in Widths, SetDefaultTermWidth(w) PROVE TermsInv'
    <3> DEFINE u == [var EXCEPT !.width = w]
    <3>1. var' = u /\ UNCHANGED <<queue, hits, known, weighed>>
      BY <2>4 DEF SetDefaultTermWidth
    <3>2. var \in Variable /\ var.min <= var.max /\ w \in Nat
      BY AssumedTerms DEF TermsInv, Fits, VarOK
    <3>3. /\ u \in Variable /\ u.min = var.min /\ u.max = var.max /\ u.width = w
          /\ u.terms = var.terms
      BY <3>2 DEF Variable
    <3> HIDE DEF u
    <3>4. VarOK(u)
      BY <3>2, <3>3 DEF VarOK
    <3>5. Grown(var, u)
      BY <3>2, <3>3, GrownItself DEF Grown
    <3> QED BY <3>1, <3>4, <3>5, VariableChanges DEF TermsInv
  <2>5. ASSUME NEW b \in BOOLEAN, SetIsId(b) PROVE TermsInv'
    <3> DEFINE u == [var EXCEPT !.isId = b]
    <3>1. var' = u /\ UNCHANGED <<queue, hits, known, weighed>>
      BY <2>5 DEF SetIsId
    <3>2. VarOK(var) /\ var \in Variable
      BY DEF TermsInv, Fits, VarOK
    <3>3. /\ u \in Variable /\ u.min = var.min /\ u.max = var.max /\ u.width = var.width
          /\ u.terms = var.terms
      BY <3>2 DEF Variable
    <3> HIDE DEF u
    <3>4. VarOK(u)
      BY <3>2, <3>3 DEF VarOK
    <3>5. Grown(var, u)
      BY <3>2, <3>3, GrownItself DEF Grown
    <3> QED BY <3>1, <3>4, <3>5, VariableChanges DEF TermsInv
  <2>6. ASSUME NEW t \in ClientTerms, AddTerm(t) PROVE TermsInv'
    <3> DEFINE u == AddTo(var, t)
    <3>1. var' = u /\ UNCHANGED <<queue, hits, known, weighed>>
      BY <2>6 DEF AddTerm
    <3>2. VarOK(var) /\ t \in Shape
      BY TermsAssumption DEF TermsInv, Fits
    <3>3. VarOK(u) /\ Grown(var, u)
      BY <3>2, AddToGrows
    <3> HIDE DEF u
    <3> QED BY <3>1, <3>3, VariableChanges DEF TermsInv
  <2>7. ASSUME NEW p \in DOMAIN var.terms, RemoveTerm(p) PROVE TermsInv'
    <3>1. /\ queue' = Append(queue, var.terms[p].id)
          /\ UNCHANGED <<var, hits, known, weighed>>
      BY <2>7 DEF RemoveTerm
    <3>2. var \in Variable /\ queue \in Seq(Nat)
      BY DEF TermsInv, Fits, VarOK
    <3>3. var.terms[p].id \in Nat
      BY <3>2, TermsAre
    <3>4. queue' \in Seq(Nat)
      BY <3>1, <3>2, <3>3, AppendProperties
    <3> QED BY <3>1, <3>4 DEF TermsInv
  <2>8. ASSUME NEW b \in BOOLEAN, SetAutoBalance(b) PROVE TermsInv'
    <3>1. (hits' = <<>> \/ hits' = hits) /\ UNCHANGED <<var, queue, known, weighed>>
      BY <2>8 DEF SetAutoBalance
    <3>2. CASE hits' = <<>>
      <4>1. Len(<<>>) = 0 /\ 1..0 = {} /\ <<>> \in Seq(HitRecord)
        OBVIOUS
      <4>2. Len(var.terms) \in Nat
        BY TermsAre DEF TermsInv, Fits, VarOK
      <4> QED BY <3>1, <3>2, <4>1, <4>2 DEF TermsInv, Fits, Matches
    <3>3. CASE hits' = hits
      BY <3>1, <3>3 DEF TermsInv
    <3> QED BY <3>1, <3>2, <3>3
  <2>9. CASE EraseKnowledge
    <3>1. known' = <<>> /\ hits' = <<>> /\ weighed' = <<>> /\ UNCHANGED <<var, queue>>
      BY <2>9 DEF EraseKnowledge
    <3>2. Len(<<>>) = 0 /\ 1..0 = {} /\ <<>> \in Seq(HitRecord) /\ <<>> \in Seq(Nat)
      OBVIOUS
    <3>3. Len(var.terms) \in Nat
      BY TermsAre DEF TermsInv, Fits, VarOK
    <3> QED BY <3>1, <3>2, <3>3 DEF TermsInv, Fits, Matches, Knows
  <2> QED BY <2>1, <2>2, <2>3, <2>4, <2>5, <2>6, <2>7, <2>8, <2>9, <2>10, <2>11, <2>12, <2>13
         DEF TermsNext
<1> QED BY <1>1, <1>2, InvAligned, PTL DEF TermsSpec
=============================================================================
