------------------------- MODULE FuzzyEngineProofs -------------------------
(***************************************************************************)
(* What holds of the fuzzy engine's sml_process for all variables, terms,  *)
(* readings and calls: nothing is learnt that is not stable, a scenario is *)
(* announced once, and the counts of terms cover the terms there are.      *)
(***************************************************************************)
EXTENDS FuzzyEngine, SeqLemmas, SequenceTheorems, FiniteSetTheorems, TLAPS

\* What RemoveAt of the community modules leaves.
LEMMA RemoveAtProperties ==
    ASSUME NEW S, NEW s \in Seq(S), NEW i \in 1..Len(s)
    PROVE  /\ RemoveAt(s, i) \in Seq(S)
           /\ Len(RemoveAt(s, i)) = Len(s) - 1
           /\ \A j \in 1..i - 1 : RemoveAt(s, i)[j] = s[j]
           /\ \A j \in i..Len(s) - 1 : RemoveAt(s, i)[j] = s[j + 1]
<1>1. RemoveAt(s, i) = Cut(s, i)
  BY DEF RemoveAt, Cut
<1> QED BY <1>1, CutProperties

Variable == [id : Nat, terms : Seq(Nat), on : BOOLEAN]

Fuzzy == [ins : Seq(Variable), outs : Seq(Variable), inCount : Int, outCount : Int]

List(f, input) == IF input THEN f.ins ELSE f.outs

-----------------------------------------------------------------------------
(* Identities and positions                                                *)

\* There is an identity that is not in use.
LEMMA FreshIdType ==
    ASSUME NEW S, IsFiniteSet(S)
    PROVE  FreshId(S) \in Nat /\ FreshId(S) \notin S
<1> DEFINE n == Cardinality(S) + 1
<1>1. n \in Nat /\ Cardinality(S) \in Nat
  BY FS_CardinalityType
<1>2. Cardinality(1..n) = n
  BY <1>1, FS_Interval
<1>3. ~(1..n \subseteq S)
  <2>1. 1..n \in SUBSET S => Cardinality(1..n) <= Cardinality(S)
    BY FS_Subset
  <2> QED BY <1>1, <1>2, <2>1
<1>4. \E k \in 1..n : k \notin S
  BY <1>3
<1>5. FreshId(S) \in 1..n /\ FreshId(S) \notin S
  BY <1>4 DEF FreshId
<1> QED BY <1>1, <1>5

\* Finitely many positions hold finitely many elements.
LEMMA RangeFinite ==
    ASSUME NEW f, NEW n \in Nat, f = [i \in 1..n |-> f[i]]
    PROVE  IsFiniteSet({f[i] : i \in 1..n})
<1> DEFINE T == {f[i] : i \in 1..n}
<1>1. f \in Surjection(1..n, T)
  BY DEF Surjection
<1>2. IsFiniteSet(1..n)
  BY FS_Interval
<1> QED BY <1>1, <1>2, FS_Surjection

\* A term or a variable that is added gets an identity of its own.
LEMMA FreshTermType ==
    ASSUME NEW ts \in Seq(Nat)
    PROVE  FreshId(Range(ts)) \in Nat
<1>1. Len(ts) \in Nat /\ DOMAIN ts = 1..Len(ts) /\ ts = [i \in 1..Len(ts) |-> ts[i]]
  BY LenProperties
<1>2. Range(ts) = {ts[i] : i \in 1..Len(ts)}
  BY <1>1 DEF Range
<1> QED BY <1>1, <1>2, RangeFinite, FreshIdType

LEMMA FreshVariableType ==
    ASSUME NEW list \in Seq(Variable)
    PROVE  FreshId(Ids(list)) \in Nat
<1> DEFINE f == [i \in 1..Len(list) |-> list[i].id]
<1>1. Len(list) \in Nat /\ DOMAIN list = 1..Len(list)
  BY LenProperties
<1>2. IsFiniteSet({f[i] : i \in 1..Len(list)})
  BY <1>1, RangeFinite
<1>3. Ids(list) = {f[i] : i \in 1..Len(list)}
  BY <1>1 DEF Ids
<1> QED BY <1>2, <1>3, FreshIdType

\* Positions count from 1; 0 says that there is none.
LEMMA PositionType ==
    ASSUME NEW S, NEW list \in Seq(S), NEW id
    PROVE  Position(list, id) = 0 \/ Position(list, id) \in DOMAIN list
<1> DEFINE I == {i \in 1..Len(list) : list[i].id = id}
<1>1. Len(list) \in Nat /\ DOMAIN list = 1..Len(list)
  BY LenProperties
<1>2. Position(list, id) = IF I # {} THEN Min(I) ELSE 0
  BY DEF Position, FirstWhere, SelectInSeq
<1>3. ASSUME I # {} PROVE Min(I) \in I
  <2>1. I \in SUBSET Nat
    BY <1>1
  <2> HIDE DEF I
  <2>2. \E i \in I : \A j \in I : i <= j
    BY <1>3, <2>1, LeastElement
  <2> QED BY <2>2 DEF Min
<1> QED BY <1>1, <1>2, <1>3

TermPosition(ts, term) == FirstWhere(ts, LAMBDA x : x = term)

LEMMA TermPositionType ==
    ASSUME NEW S, NEW ts \in Seq(S), NEW term
    PROVE  TermPosition(ts, term) = 0 \/ TermPosition(ts, term) \in DOMAIN ts
<1> DEFINE t == TermPosition(ts, term)
           I == {i \in 1..Len(ts) : ts[i] = term}
<1>1. Len(ts) \in Nat /\ DOMAIN ts = 1..Len(ts)
  BY LenProperties
<1>2. t = IF I # {} THEN Min(I) ELSE 0
  BY DEF TermPosition, FirstWhere, SelectInSeq
<1>3. ASSUME I # {} PROVE Min(I) \in I
  <2>1. I \in SUBSET Nat
    BY <1>1
  <2> HIDE DEF I
  <2>2. \E i \in I : \A j \in I : i <= j
    BY <1>3, <2>1, LeastElement
  <2> QED BY <2>2 DEF Min
<1> QED BY <1>1, <1>2, <1>3

-----------------------------------------------------------------------------
(* Terms                                                                   *)

TermStep(c, ts, k) == Append(ts, FreshId(Range(ts)))

TermsAreNat(c, ts) == ts \in Seq(Nat)

Growing == INSTANCE SeqLemmas WITH FoldOp <- TermStep, FoldInv <- TermsAreNat

Grown(ts, n) == Growing!Folded(<<>>, ts, [k \in 1..n |-> k])

\* n terms are added.
LEMMA GrownType ==
    ASSUME NEW ts \in Seq(Nat), NEW n \in Nat
    PROVE  Grown(ts, n) \in Seq(Nat) /\ Len(Grown(ts, n)) = Len(ts) + n
<1> DEFINE seq == [k \in 1..n |-> k]
<1>1. seq \in Seq(Nat) /\ Len(seq) = n
  OBVIOUS
<1> HIDE DEF seq
<1>2. PICK h : Growing!Runs(<<>>, ts, seq, h)
  BY <1>1, Growing!FoldRun
<1> DEFINE Q == {k \in Nat : k <= n => h[k] \in Seq(Nat) /\ Len(h[k]) = Len(ts) + k}
<1>3. 0 \in Q
  BY <1>2 DEF Growing!Runs
<1>4. ASSUME NEW k \in Nat, k \in Q PROVE k + 1 \in Q
  <2> SUFFICES ASSUME k + 1 <= n
               PROVE  h[k + 1] \in Seq(Nat) /\ Len(h[k + 1]) = Len(ts) + (k + 1)
    OBVIOUS
  <2>1. h[k] \in Seq(Nat) /\ Len(h[k]) = Len(ts) + k
    BY <1>4
  <2>2. FreshId(Range(h[k])) \in Nat
    BY <2>1, FreshTermType
  <2>3. k + 1 \in 1..Len(seq) /\ (k + 1) - 1 = k
    BY <1>1
  <2>4. h[k + 1] = Append(h[k], FreshId(Range(h[k])))
    BY <1>2, <2>3 DEF Growing!Runs, TermStep
  <2> HIDE DEF Q
  <2> QED BY <2>1, <2>2, <2>4, AppendProperties
<1> HIDE DEF Q
<1>5. Nat \subseteq Q
  BY <1>3, <1>4, SetInduction
<1>6. h[n] \in Seq(Nat) /\ Len(h[n]) = Len(ts) + n
  BY <1>5 DEF Q
<1> QED BY <1>1, <1>2, <1>6 DEF Growing!Runs, Grown, seq

\* What adding terms to a variable does.
MoreTerms(f, input, v, n) ==
    IF input THEN [f EXCEPT !.ins[v].terms = Grown(@, n), !.inCount = @ + n]
             ELSE [f EXCEPT !.outs[v].terms = Grown(@, n), !.outCount = @ + n]

LEMMA WithTermsIs ==
    ASSUME NEW f, NEW input, NEW v, NEW n
    PROVE  WithTerms(f, input, v, n) = MoreTerms(f, input, v, n)
  BY DEF WithTerms, MoreTerms, Grown, Growing!Folded, Growing!IterEq, Growing!Largest, Max,
         TermStep, FoldLeft, MapThenFoldSet

-----------------------------------------------------------------------------
(* How many terms there are                                                *)

SumStep(c, sum, n) == sum + n

SumIsInt(c, sum) == sum \in Int

Summing == INSTANCE SeqLemmas WITH FoldOp <- SumStep, FoldInv <- SumIsInt

LEMMA TotalIs ==
    ASSUME NEW counts
    PROVE  Total(counts) = Summing!Folded(<<>>, 0, counts)
  BY DEF Total, Summing!Folded, Summing!IterEq, Summing!Largest, Max, SumStep,
         FoldLeft, MapThenFoldSet

\* The total of the first n.
LEMMA RunningTotal ==
    ASSUME NEW counts \in Seq(Int)
    PROVE  \E h : /\ h[0] = 0
                  /\ \A n \in 1..Len(counts) : h[n] = h[n - 1] + counts[n]
                  /\ \A n \in 0..Len(counts) : h[n] \in Int
                  /\ Total(counts) = h[Len(counts)]
<1>1. PICK h : Summing!Runs(<<>>, 0, counts, h)
  BY Summing!FoldRun
<1>2. /\ h[0] = 0
      /\ \A n \in 1..Len(counts) : h[n] = h[n - 1] + counts[n]
      /\ Total(counts) = h[Len(counts)]
  BY <1>1, TotalIs DEF Summing!Runs, SumStep
<1> DEFINE Q == {n \in Nat : n <= Len(counts) => h[n] \in Int}
<1>3. Len(counts) \in Nat
  BY LenProperties
<1>4. 0 \in Q
  BY <1>2
<1>5. ASSUME NEW n \in Nat, n \in Q PROVE n + 1 \in Q
  <2> SUFFICES ASSUME n + 1 <= Len(counts) PROVE h[n + 1] \in Int
    OBVIOUS
  <2>1. n + 1 \in 1..Len(counts) /\ (n + 1) - 1 = n /\ h[n] \in Int
    BY <1>3, <1>5
  <2>2. counts[n + 1] \in Int
    BY <2>1, ElementOfSeq
  <2> QED BY <1>2, <2>1, <2>2
<1> HIDE DEF Q
<1>6. Nat \subseteq Q
  BY <1>4, <1>5, SetInduction
<1>7. \A n \in 0..Len(counts) : h[n] \in Int
  BY <1>3, <1>6 DEF Q
<1> QED BY <1>2, <1>7

LEMMA TotalType ==
    ASSUME NEW counts \in Seq(Int)
    PROVE  Total(counts) \in Int
<1>1. Len(counts) \in 0..Len(counts)
  BY LenProperties
<1> QED BY <1>1, RunningTotal

LEMMA TotalAppend ==
    ASSUME NEW counts \in Seq(Int), NEW n \in Int
    PROVE  Total(Append(counts, n)) = Total(counts) + n
<1>1. Total(Append(counts, n)) = SumStep(<<>>, Summing!Folded(<<>>, 0, counts), n)
  BY TotalIs, Summing!FoldAppend
<1> QED BY <1>1, TotalIs DEF SumStep

\* Another count of one variable.
LEMMA TotalReplaced ==
    ASSUME NEW counts \in Seq(Int), NEW v \in 1..Len(counts), NEW n \in Int,
           NEW other \in Seq(Int), Len(other) = Len(counts), other[v] = n,
           \A i \in 1..Len(counts) : i # v => other[i] = counts[i]
    PROVE  Total(other) = Total(counts) + (n - counts[v])
<1>1. PICK h : /\ h[0] = 0
               /\ \A i \in 1..Len(counts) : h[i] = h[i - 1] + counts[i]
               /\ \A i \in 0..Len(counts) : h[i] \in Int
               /\ Total(counts) = h[Len(counts)]
  BY RunningTotal
<1>2. PICK g : /\ g[0] = 0
               /\ \A i \in 1..Len(other) : g[i] = g[i - 1] + other[i]
               /\ \A i \in 0..Len(other) : g[i] \in Int
               /\ Total(other) = g[Len(other)]
  BY RunningTotal
<1>3. Len(counts) \in Nat /\ counts[v] \in Int
  BY LenProperties, ElementOfSeq
<1> DEFINE Shift(i) == IF v <= i THEN n - counts[v] ELSE 0
           Q == {i \in Nat : i <= Len(counts) => g[i] = h[i] + Shift(i)}
<1>4. 0 \in Q
  BY <1>1, <1>2, <1>3
<1>5. ASSUME NEW i \in Nat, i \in Q PROVE i + 1 \in Q
  <2> SUFFICES ASSUME i + 1 <= Len(counts) PROVE g[i + 1] = h[i + 1] + Shift(i + 1)
    OBVIOUS
  <2>1. i + 1 \in 1..Len(counts) /\ (i + 1) - 1 = i /\ i \in 0..Len(counts)
    BY <1>3
  <2>2. g[i] = h[i] + Shift(i) /\ h[i] \in Int
    BY <1>1, <1>5, <2>1
  <2>3. g[i + 1] = g[i] + other[i + 1] /\ h[i + 1] = h[i] + counts[i + 1]
    BY <1>1, <1>2, <2>1
  <2>4. counts[i + 1] \in Int
    BY <2>1, ElementOfSeq
  <2>5. CASE i + 1 = v
    <3>1. Shift(i + 1) = n - counts[v] /\ Shift(i) = 0 /\ other[i + 1] = n
      BY <2>5
    <3> HIDE DEF Shift
    <3>2. g[i] = h[i]
      BY <2>2, <3>1
    <3>3. g[i + 1] = h[i] + n
      BY <2>3, <3>1, <3>2
    <3>4. counts[i + 1] = counts[v]
      BY <2>5
    <3>5. h[i + 1] = h[i] + counts[v]
      BY <2>3, <3>4
    <3> QED BY <1>3, <2>2, <3>1, <3>3, <3>5
  <2>6. CASE i + 1 # v
    <3>1. Shift(i + 1) = Shift(i)
      BY <2>6
    <3>2. Shift(i) \in Int /\ other[i + 1] = counts[i + 1]
      BY <1>3, <2>1, <2>6
    <3> HIDE DEF Shift
    <3> QED BY <2>2, <2>3, <2>4, <3>1, <3>2
  <2> QED BY <2>5, <2>6
<1> HIDE DEF Q
<1>6. Nat \subseteq Q
  BY <1>4, <1>5, SetInduction
<1>7. g[Len(counts)] = h[Len(counts)] + (n - counts[v])
  <2>1. Len(counts) \in Q /\ Shift(Len(counts)) = n - counts[v]
    BY <1>3, <1>6
  <2> HIDE DEF Shift
  <2>2. g[Len(counts)] = h[Len(counts)] + Shift(Len(counts))
    BY <1>3, <2>1 DEF Q
  <2> QED BY <2>1, <2>2
<1> QED BY <1>1, <1>2, <1>7

\* One variable less.
LEMMA TotalRemoved ==
    ASSUME NEW counts \in Seq(Int), NEW v \in 1..Len(counts)
    PROVE  Total(RemoveAt(counts, v)) = Total(counts) - counts[v]
<1> DEFINE other == RemoveAt(counts, v)
<1>1. /\ other \in Seq(Int) /\ Len(other) = Len(counts) - 1
      /\ \A i \in 1..v - 1 : other[i] = counts[i]
      /\ \A i \in v..Len(counts) - 1 : other[i] = counts[i + 1]
  BY RemoveAtProperties
<1> HIDE DEF other
<1>2. PICK h : /\ h[0] = 0
               /\ \A i \in 1..Len(counts) : h[i] = h[i - 1] + counts[i]
               /\ \A i \in 0..Len(counts) : h[i] \in Int
               /\ Total(counts) = h[Len(counts)]
  BY RunningTotal
<1>3. PICK g : /\ g[0] = 0
               /\ \A i \in 1..Len(other) : g[i] = g[i - 1] + other[i]
               /\ \A i \in 0..Len(other) : g[i] \in Int
               /\ Total(other) = g[Len(other)]
  BY <1>1, RunningTotal
<1>4. Len(counts) \in Nat /\ counts[v] \in Int
  BY LenProperties, ElementOfSeq
<1> DEFINE Q == {i \in Nat : i <= Len(other) =>
                    g[i] = IF v <= i THEN h[i + 1] - counts[v] ELSE h[i]}
<1>5. 0 \in Q
  BY <1>2, <1>3, <1>4
<1>6. ASSUME NEW i \in Nat, i \in Q PROVE i + 1 \in Q
  <2> SUFFICES ASSUME i + 1 <= Len(other)
               PROVE  g[i + 1] = IF v <= i + 1 THEN h[(i + 1) + 1] - counts[v] ELSE h[i + 1]
    OBVIOUS
  <2>1. /\ i + 1 \in 1..Len(other) /\ (i + 1) - 1 = i /\ i + 1 \in 1..Len(counts)
        /\ (i + 1) + 1 \in 1..Len(counts) /\ ((i + 1) + 1) - 1 = i + 1
        /\ i \in 0..Len(counts) /\ i + 1 \in 0..Len(counts) /\ i <= Len(other)
    BY <1>1, <1>4
  <2>2. g[i + 1] = g[i] + other[i + 1]
    BY <1>3, <2>1
  <2>3. h[i + 1] = h[i] + counts[i + 1] /\ h[i] \in Int /\ h[i + 1] \in Int
    BY <1>2, <2>1
  <2>4. h[(i + 1) + 1] = h[i + 1] + counts[(i + 1) + 1]
    BY <1>2, <2>1
  <2>5. counts[i + 1] \in Int /\ counts[(i + 1) + 1] \in Int
    BY <2>1, ElementOfSeq
  <2>6. g[i] = IF v <= i THEN h[i + 1] - counts[v] ELSE h[i]
    BY <1>6, <2>1
  <2>7. CASE v <= i
    <3>1. other[i + 1] = counts[(i + 1) + 1]
      BY <1>1, <1>4, <2>1, <2>7
    <3>2. v <= i + 1
      BY <2>7
    <3> DEFINE k == (i + 1) + 1
    <3>3. /\ g[i + 1] = (h[i + 1] - counts[v]) + counts[k] /\ h[k] = h[i + 1] + counts[k]
          /\ counts[k] \in Int
      BY <2>2, <2>4, <2>5, <2>6, <2>7, <3>1
    <3> HIDE DEF k
    <3>4. \A x, y, z \in Int : (x - y) + z = (x + z) - y
      OBVIOUS
    <3>5. h[i + 1] \in Int /\ counts[v] \in Int
      BY <1>4, <2>3, ElementOfSeq
    <3>6. g[i + 1] = h[k] - counts[v]
      BY ONLY <3>3, <3>4, <3>5
    <3> QED BY <3>2, <3>6 DEF k
  <2>8. CASE v = i + 1
    <3>1. other[i + 1] = counts[(i + 1) + 1] /\ ~(v <= i)
      BY <1>1, <1>4, <2>1, <2>8
    <3>2. h[(i + 1) + 1] = (h[i] + counts[v]) + counts[(i + 1) + 1]
      BY <2>3, <2>4, <2>8
    <3> DEFINE k == (i + 1) + 1
    <3>3. g[i + 1] = h[i] + counts[k] /\ h[k] = (h[i] + counts[v]) + counts[k]
      BY <2>2, <2>6, <3>1, <3>2
    <3>4. h[i] \in Int /\ counts[v] \in Int /\ counts[k] \in Int /\ v <= i + 1
      BY <1>4, <2>3, <2>5, <2>8
    <3> HIDE DEF k
    <3>5. g[i + 1] = h[k] - counts[v]
      BY ONLY <3>3, <3>4
    <3> QED BY <3>4, <3>5 DEF k
  <2>9. CASE i + 1 < v
    <3>1. other[i + 1] = counts[i + 1] /\ ~(v <= i) /\ ~(v <= i + 1)
      BY <1>1, <1>4, <2>1, <2>9
    <3> QED BY <2>2, <2>3, <2>6, <3>1
  <2> QED BY <2>7, <2>8, <2>9
<1> HIDE DEF Q
<1>7. Nat \subseteq Q
  BY <1>5, <1>6, SetInduction
<1>8. Len(other) \in Nat /\ Len(other) + 1 = Len(counts)
  BY <1>1, <1>4
<1>9. g[Len(other)] = IF v <= Len(other) THEN h[Len(counts)] - counts[v] ELSE h[Len(other)]
  BY <1>7, <1>8 DEF Q
<1>10. CASE v <= Len(other)
  BY <1>2, <1>3, <1>9, <1>10 DEF other
<1>11. CASE v = Len(counts)
  <2>1. h[Len(counts)] = h[Len(other)] + counts[v] /\ h[Len(other)] \in Int
    <3>1. Len(counts) \in 1..Len(counts) /\ Len(counts) - 1 = Len(other)
          /\ Len(other) \in 0..Len(counts)
      BY <1>4, <1>8, <1>11
    <3> QED BY <1>2, <1>11, <3>1
  <2>2. g[Len(other)] = h[Len(other)]
    BY <1>8, <1>9, <1>11
  <2> QED BY <1>2, <1>3, <1>4, <2>1, <2>2 DEF other
<1> QED BY <1>4, <1>8, <1>10, <1>11

-----------------------------------------------------------------------------
(* Lists of variables                                                      *)

Counts(list) == [i \in DOMAIN list |-> Len(list[i].terms)]

LEMMA CountsType ==
    ASSUME NEW list \in Seq(Variable)
    PROVE  /\ Counts(list) \in Seq(Int) /\ Len(Counts(list)) = Len(list)
           /\ Len(list) \in Nat /\ DOMAIN list = 1..Len(list)
           /\ \A i \in 1..Len(list) : /\ list[i] \in Variable
                                      /\ Len(list[i].terms) \in Nat
                                      /\ Counts(list)[i] = Len(list[i].terms)
           /\ Total(Counts(list)) \in Int
<1>1. Len(list) \in Nat /\ DOMAIN list = 1..Len(list)
  BY LenProperties
<1>2. ASSUME NEW i \in 1..Len(list)
      PROVE  list[i] \in Variable /\ Len(list[i].terms) \in Nat
  <2>1. list[i] \in Variable
    BY <1>1, ElementOfSeq
  <2>2. list[i].terms \in Seq(Nat)
    BY <2>1 DEF Variable
  <2> QED BY <2>1, <2>2, LenProperties
<1>3. Counts(list) \in Seq(Int) /\ Len(Counts(list)) = Len(list)
  BY <1>1, <1>2 DEF Counts
<1> QED BY <1>1, <1>2, <1>3, TotalType DEF Counts

\* A variable gets other terms.
LEMMA ListWithTerms ==
    ASSUME NEW list \in Seq(Variable), NEW v \in DOMAIN list, NEW ts \in Seq(Nat)
    PROVE  LET other == [list EXCEPT ![v].terms = ts]
           IN  /\ other \in Seq(Variable) /\ Len(other) = Len(list)
               /\ Total(Counts(other)) =
                     Total(Counts(list)) + (Len(ts) - Len(list[v].terms))
<1> DEFINE other == [list EXCEPT ![v].terms = ts]
<1>1. /\ Counts(list) \in Seq(Int) /\ Len(Counts(list)) = Len(list)
      /\ Len(list) \in Nat /\ DOMAIN list = 1..Len(list)
      /\ \A i \in 1..Len(list) : /\ list[i] \in Variable
                                 /\ Len(list[i].terms) \in Nat
                                 /\ Counts(list)[i] = Len(list[i].terms)
  BY CountsType
<1>2. [list[v] EXCEPT !.terms = ts] \in Variable
  BY <1>1 DEF Variable
<1>3. /\ other \in Seq(Variable) /\ Len(other) = Len(list)
      /\ other[v] = [list[v] EXCEPT !.terms = ts]
      /\ \A i \in 1..Len(list) : i # v => other[i] = list[i]
  <2> DEFINE w == [list[v] EXCEPT !.terms = ts]
  <2> HIDE DEF w
  <2>1. w \in Variable /\ v \in 1..Len(list)
    BY <1>1, <1>2 DEF w
  <2>2. other = [list EXCEPT ![v] = w]
    BY DEF w
  <2> HIDE DEF other
  <2> QED BY <2>1, <2>2 DEF w
<1>4. other[v].terms = ts
  BY <1>1, <1>3 DEF Variable
<1> HIDE DEF other
<1>5. /\ Counts(other) \in Seq(Int) /\ Len(Counts(other)) = Len(Counts(list))
      /\ \A i \in 1..Len(list) : Counts(other)[i] = Len(other[i].terms)
  BY <1>1, <1>3, CountsType
<1>6. /\ Counts(other)[v] = Len(ts) /\ Counts(list)[v] = Len(list[v].terms)
      /\ \A i \in 1..Len(Counts(list)) : i # v => Counts(other)[i] = Counts(list)[i]
  <2>1. Counts(other)[v] = Len(ts)
    BY <1>1, <1>4, <1>5
  <2>2. Counts(list)[v] = Len(list[v].terms)
    BY <1>1
  <2>3. ASSUME NEW i \in 1..Len(Counts(list)), i # v
        PROVE  Counts(other)[i] = Counts(list)[i]
    <3>1. other[i] = list[i] /\ i \in 1..Len(list)
      BY <1>1, <1>3, <2>3
    <3> QED BY <1>1, <1>5, <3>1
  <2> QED BY <2>1, <2>2, <2>3
<1>7. Len(ts) \in Int /\ v \in 1..Len(Counts(list))
  BY <1>1, LenProperties
<1>8. Total(Counts(other)) = Total(Counts(list)) + (Len(ts) - Counts(list)[v])
  BY <1>1, <1>5, <1>6, <1>7, TotalReplaced
<1> QED BY <1>3, <1>6, <1>8 DEF other

\* A variable leaves.
LEMMA ListWithout ==
    ASSUME NEW list \in Seq(Variable), NEW v \in DOMAIN list
    PROVE  /\ RemoveAt(list, v) \in Seq(Variable)
           /\ Len(RemoveAt(list, v)) = Len(list) - 1
           /\ Total(Counts(RemoveAt(list, v))) =
                 Total(Counts(list)) - Len(list[v].terms)
<1> DEFINE other == RemoveAt(list, v)
           counts == RemoveAt(Counts(list), v)
<1>1. /\ Counts(list) \in Seq(Int) /\ Len(Counts(list)) = Len(list)
      /\ Len(list) \in Nat /\ DOMAIN list = 1..Len(list)
      /\ \A i \in 1..Len(list) : Counts(list)[i] = Len(list[i].terms)
  BY CountsType
<1>2. /\ other \in Seq(Variable) /\ Len(other) = Len(list) - 1
      /\ \A i \in 1..v - 1 : other[i] = list[i]
      /\ \A i \in v..Len(list) - 1 : other[i] = list[i + 1]
  <2>1. v \in 1..Len(list)
    BY <1>1
  <2> QED BY <2>1, RemoveAtProperties
<1>3. /\ counts \in Seq(Int) /\ Len(counts) = Len(list) - 1
      /\ \A i \in 1..v - 1 : counts[i] = Counts(list)[i]
      /\ \A i \in v..Len(list) - 1 : counts[i] = Counts(list)[i + 1]
  <2> DEFINE whole == Counts(list)
  <2>1. whole \in Seq(Int) /\ Len(whole) = Len(list) /\ v \in 1..Len(whole)
    BY <1>1
  <2> HIDE DEF whole
  <2>2. /\ RemoveAt(whole, v) \in Seq(Int) /\ Len(RemoveAt(whole, v)) = Len(whole) - 1
        /\ \A i \in 1..v - 1 : RemoveAt(whole, v)[i] = whole[i]
        /\ \A i \in v..Len(whole) - 1 : RemoveAt(whole, v)[i] = whole[i + 1]
    BY <2>1, RemoveAtProperties
  <2> QED BY <2>1, <2>2 DEF whole
<1>4. Total(counts) = Total(Counts(list)) - Len(list[v].terms)
  BY <1>1, TotalRemoved
<1> HIDE DEF other, counts
<1>5. /\ Counts(other) \in Seq(Int) /\ Len(Counts(other)) = Len(list) - 1
      /\ \A i \in 1..Len(other) : Counts(other)[i] = Len(other[i].terms)
  BY <1>2, CountsType
<1>6. ASSUME NEW i \in 1..Len(list) - 1 PROVE Counts(other)[i] = counts[i]
  <2>1. i + 1 \in 1..Len(list) /\ i \in 1..Len(list) /\ i \in 1..Len(other)
    BY <1>1, <1>2
  <2>2. CASE i \in 1..v - 1
    BY <1>1, <1>2, <1>3, <1>5, <2>1, <2>2
  <2>3. CASE i \in v..Len(list) - 1
    BY <1>1, <1>2, <1>3, <1>5, <2>1, <2>3
  <2> QED BY <1>1, <2>2, <2>3
<1>7. Counts(other) = counts
  BY <1>3, <1>5, <1>6, SeqEqual
<1> QED BY <1>2, <1>4, <1>7 DEF other

\* A variable without terms is added.
LEMMA ListAppended ==
    ASSUME NEW list \in Seq(Variable), NEW id \in Nat
    PROVE  LET other == Append(list, NewVariable(id, 0))
           IN  /\ other \in Seq(Variable) /\ Len(other) = Len(list) + 1
               /\ Total(Counts(other)) = Total(Counts(list))
<1> DEFINE x == NewVariable(id, 0)
           other == Append(list, x)
           counts == Append(Counts(list), 0)
<1>1. x \in Variable /\ Len(x.terms) = 0
  <2>1. [t \in 1..0 |-> t] = <<>>
    OBVIOUS
  <2> QED BY <2>1 DEF NewVariable, Variable
<1> HIDE DEF x
<1>2. /\ Counts(list) \in Seq(Int) /\ Len(Counts(list)) = Len(list) /\ Len(list) \in Nat
      /\ \A i \in 1..Len(list) : Counts(list)[i] = Len(list[i].terms)
      /\ Total(Counts(list)) \in Int
  BY CountsType
<1>3. /\ other \in Seq(Variable) /\ Len(other) = Len(list) + 1
      /\ other[Len(list) + 1] = x
      /\ \A i \in 1..Len(list) : other[i] = list[i]
  BY <1>1, <1>2
<1>4. /\ counts \in Seq(Int) /\ Len(counts) = Len(list) + 1
      /\ counts[Len(list) + 1] = 0
      /\ \A i \in 1..Len(list) : counts[i] = Counts(list)[i]
  BY <1>2
<1>5. Total(counts) = Total(Counts(list))
  BY <1>2, TotalAppend
<1> HIDE DEF other, counts
<1>6. /\ Counts(other) \in Seq(Int) /\ Len(Counts(other)) = Len(list) + 1
      /\ \A i \in 1..Len(list) + 1 : Counts(other)[i] = Len(other[i].terms)
  BY <1>3, CountsType
<1>7. ASSUME NEW i \in 1..Len(list) + 1 PROVE Counts(other)[i] = counts[i]
  <2>1. CASE i = Len(list) + 1
    BY <1>1, <1>3, <1>4, <1>6, <2>1
  <2>2. CASE i \in 1..Len(list)
    BY <1>2, <1>3, <1>4, <1>6, <2>2
  <2> QED BY <1>2, <2>1, <2>2
<1>8. Counts(other) = counts
  BY <1>4, <1>6, <1>7, SeqEqual
<1> QED BY <1>3, <1>5, <1>8 DEF other, x

-----------------------------------------------------------------------------
(* The variables of the engine                                             *)

\* The counts of struct sml_fuzzy are large enough for these variables.
Covers(f) == /\ Total(Counts(f.ins)) <= f.inCount
             /\ Total(Counts(f.outs)) <= f.outCount

SameLists(f, g) == Len(g.ins) = Len(f.ins) /\ Len(g.outs) = Len(f.outs)

\* Terms are added to a variable, and counted.
LEMMA WithTermsKeeps ==
    ASSUME NEW f \in Fuzzy, NEW input \in BOOLEAN, NEW v \in DOMAIN List(f, input),
           NEW n \in Nat
    PROVE  /\ WithTerms(f, input, v, n) \in Fuzzy
           /\ SameLists(f, WithTerms(f, input, v, n))
           /\ Covers(f) => Covers(WithTerms(f, input, v, n))
<1> DEFINE list == List(f, input)
           ts == Grown(list[v].terms, n)
           other == [list EXCEPT ![v].terms = ts]
<1>1. /\ f.ins \in Seq(Variable) /\ f.outs \in Seq(Variable) /\ list \in Seq(Variable)
      /\ f.inCount \in Int /\ f.outCount \in Int
  BY DEF Fuzzy, List
<1>2. /\ list[v] \in Variable /\ Len(list[v].terms) \in Nat
      /\ Total(Counts(f.ins)) \in Int /\ Total(Counts(f.outs)) \in Int
  BY <1>1, CountsType
<1>3. list[v].terms \in Seq(Nat)
  BY <1>2 DEF Variable
<1>4. ts \in Seq(Nat) /\ Len(ts) = Len(list[v].terms) + n
  BY <1>3, GrownType
<1>5. /\ other \in Seq(Variable) /\ Len(other) = Len(list)
      /\ Total(Counts(other)) = Total(Counts(list)) + (Len(ts) - Len(list[v].terms))
  <2> HIDE DEF ts
  <2> QED BY <1>1, <1>4, ListWithTerms
<1>6. Total(Counts(other)) = Total(Counts(list)) + n
  <2>1. Total(Counts(list)) \in Int
    BY <1>1, CountsType
  <2> HIDE DEF list, ts, other
  <2> QED BY <1>2, <1>4, <1>5, <2>1
<1>7. CASE input
  <2> DEFINE g == WithTerms(f, input, v, n)
  <2>1. list = f.ins /\ input = TRUE
    BY <1>7 DEF List
  <2>2. g = MoreTerms(f, input, v, n)
    BY WithTermsIs
  <2>3. g = [ins |-> other, outs |-> f.outs, inCount |-> f.inCount + n,
              outCount |-> f.outCount]
    BY <2>1, <2>2 DEF MoreTerms, Fuzzy
  <2> HIDE DEF list, ts, other, g
  <2>4. f.inCount + n \in Int
    BY <1>1
  <2>5. /\ g \in Fuzzy /\ g.ins = other /\ g.outs = f.outs
        /\ g.inCount = f.inCount + n /\ g.outCount = f.outCount
    BY <1>1, <1>5, <2>3, <2>4 DEF Fuzzy
  <2>6. SameLists(f, g)
    BY <1>5, <2>1, <2>5 DEF SameLists
  <2>7. Covers(f) => Covers(g)
    BY <1>1, <1>2, <1>6, <2>1, <2>5 DEF Covers
  <2> QED BY <2>5, <2>6, <2>7 DEF g
<1>8. CASE ~input
  <2> DEFINE g == WithTerms(f, input, v, n)
  <2>1. list = f.outs /\ input = FALSE
    BY <1>8 DEF List
  <2>2. g = MoreTerms(f, input, v, n)
    BY WithTermsIs
  <2>3. g = [ins |-> f.ins, outs |-> other, inCount |-> f.inCount,
              outCount |-> f.outCount + n]
    BY <2>1, <2>2 DEF MoreTerms, Fuzzy
  <2> HIDE DEF list, ts, other, g
  <2>4. f.outCount + n \in Int
    BY <1>1
  <2>5. /\ g \in Fuzzy /\ g.outs = other /\ g.ins = f.ins
        /\ g.outCount = f.outCount + n /\ g.inCount = f.inCount
    BY <1>1, <1>5, <2>3, <2>4 DEF Fuzzy
  <2>6. SameLists(f, g)
    BY <1>5, <2>1, <2>5 DEF SameLists
  <2>7. Covers(f) => Covers(g)
    BY <1>1, <1>2, <1>6, <2>1, <2>5 DEF Covers
  <2> QED BY <2>5, <2>6, <2>7 DEF g
<1> QED BY <1>7, <1>8

\* A variable is removed, with the count of its terms.
LEMMA VariableDroppedKeeps ==
    ASSUME NEW f \in Fuzzy, NEW input \in BOOLEAN, NEW v \in DOMAIN List(f, input)
    PROVE  LET g == VariableDropped(f, input, v)
           IN  /\ g \in Fuzzy
               /\ Len(g.ins) = Len(f.ins) - (IF input THEN 1 ELSE 0)
               /\ Len(g.outs) = Len(f.outs) - (IF input THEN 0 ELSE 1)
               /\ Covers(f) => Covers(g)
<1> DEFINE list == List(f, input)
           other == RemoveAt(list, v)
           n == Len(list[v].terms)
<1>1. /\ f.ins \in Seq(Variable) /\ f.outs \in Seq(Variable) /\ list \in Seq(Variable)
      /\ f.inCount \in Int /\ f.outCount \in Int
  BY DEF Fuzzy, List
<1>2. /\ n \in Nat /\ Len(f.ins) \in Nat /\ Len(f.outs) \in Nat
      /\ Total(Counts(f.ins)) \in Int /\ Total(Counts(f.outs)) \in Int
  BY <1>1, CountsType
<1>3. /\ other \in Seq(Variable) /\ Len(other) = Len(list) - 1
      /\ Total(Counts(other)) = Total(Counts(list)) - n
  BY <1>1, ListWithout
<1>4. CASE input
  <2> DEFINE g == VariableDropped(f, input, v)
  <2>1. list = f.ins /\ input = TRUE
    BY <1>4 DEF List
  <2>2. g = [ins |-> other, outs |-> f.outs, inCount |-> f.inCount - n,
              outCount |-> f.outCount]
    BY <2>1 DEF VariableDropped, Fuzzy
  <2> HIDE DEF list, other, n, g
  <2>3. f.inCount - n \in Int
    BY <1>1, <1>2
  <2>4. /\ g \in Fuzzy /\ g.ins = other /\ g.outs = f.outs
        /\ g.inCount = f.inCount - n /\ g.outCount = f.outCount
    BY <1>1, <1>3, <2>2, <2>3 DEF Fuzzy
  <2>5. Len(g.ins) = Len(f.ins) - 1 /\ Len(g.outs) = Len(f.outs) - 0
    BY <1>2, <1>3, <2>1, <2>4
  <2>6. Covers(f) => Covers(g)
    BY <1>1, <1>2, <1>3, <2>1, <2>4 DEF Covers
  <2> QED BY <2>1, <2>4, <2>5, <2>6 DEF g
<1>5. CASE ~input
  <2> DEFINE g == VariableDropped(f, input, v)
  <2>1. list = f.outs /\ input = FALSE
    BY <1>5 DEF List
  <2>2. g = [ins |-> f.ins, outs |-> other, inCount |-> f.inCount,
              outCount |-> f.outCount - n]
    BY <2>1 DEF VariableDropped, Fuzzy
  <2> HIDE DEF list, other, n, g
  <2>3. f.outCount - n \in Int
    BY <1>1, <1>2
  <2>4. /\ g \in Fuzzy /\ g.outs = other /\ g.ins = f.ins
        /\ g.outCount = f.outCount - n /\ g.inCount = f.inCount
    BY <1>1, <1>3, <2>2, <2>3 DEF Fuzzy
  <2>5. Len(g.outs) = Len(f.outs) - 1 /\ Len(g.ins) = Len(f.ins) - 0
    BY <1>2, <1>3, <2>1, <2>4
  <2>6. Covers(f) => Covers(g)
    BY <1>1, <1>2, <1>3, <2>1, <2>4 DEF Covers
  <2> QED BY <2>1, <2>4, <2>5, <2>6 DEF g
<1> QED BY <1>4, <1>5

\* A term is removed, and stays counted.
LEMMA TermDroppedKeeps ==
    ASSUME NEW f \in Fuzzy, NEW input \in BOOLEAN, NEW v \in DOMAIN List(f, input),
           NEW t \in DOMAIN List(f, input)[v].terms
    PROVE  /\ TermDropped(f, input, v, t) \in Fuzzy
           /\ SameLists(f, TermDropped(f, input, v, t))
           /\ Covers(f) => Covers(TermDropped(f, input, v, t))
<1> DEFINE list == List(f, input)
           ts == RemoveAt(list[v].terms, t)
           other == [list EXCEPT ![v].terms = ts]
<1>1. /\ f.ins \in Seq(Variable) /\ f.outs \in Seq(Variable) /\ list \in Seq(Variable)
      /\ f.inCount \in Int /\ f.outCount \in Int
  BY DEF Fuzzy, List
<1>2. /\ list[v] \in Variable /\ Len(list[v].terms) \in Nat
      /\ Total(Counts(f.ins)) \in Int /\ Total(Counts(f.outs)) \in Int
      /\ Total(Counts(list)) \in Int
  BY <1>1, CountsType
<1>3. list[v].terms \in Seq(Nat) /\ t \in 1..Len(list[v].terms)
  BY <1>2, LenProperties DEF Variable
<1>4. ts \in Seq(Nat) /\ Len(ts) = Len(list[v].terms) - 1
  BY <1>3, RemoveAtProperties
<1>5. /\ other \in Seq(Variable) /\ Len(other) = Len(list)
      /\ Total(Counts(other)) = Total(Counts(list)) + (Len(ts) - Len(list[v].terms))
  <2> HIDE DEF ts
  <2> QED BY <1>1, <1>4, ListWithTerms
<1>6. Total(Counts(other)) = Total(Counts(list)) - 1
  <2> HIDE DEF list, ts, other
  <2> QED BY <1>2, <1>4, <1>5
<1>7. CASE input
  <2> DEFINE g == TermDropped(f, input, v, t)
  <2>1. list = f.ins /\ input = TRUE
    BY <1>7 DEF List
  <2>2. g = [ins |-> other, outs |-> f.outs, inCount |-> f.inCount,
              outCount |-> f.outCount]
    BY <2>1 DEF TermDropped, Fuzzy
  <2> HIDE DEF list, ts, other, g
  <2>3. /\ g \in Fuzzy /\ g.ins = other /\ g.outs = f.outs
        /\ g.inCount = f.inCount /\ g.outCount = f.outCount
    BY <1>1, <1>5, <2>2 DEF Fuzzy
  <2>4. SameLists(f, g)
    BY <1>5, <2>1, <2>3 DEF SameLists
  <2>5. Covers(f) => Covers(g)
    BY <1>1, <1>2, <1>6, <2>1, <2>3 DEF Covers
  <2> QED BY <2>3, <2>4, <2>5 DEF g
<1>8. CASE ~input
  <2> DEFINE g == TermDropped(f, input, v, t)
  <2>1. list = f.outs /\ input = FALSE
    BY <1>8 DEF List
  <2>2. g = [ins |-> f.ins, outs |-> other, inCount |-> f.inCount,
              outCount |-> f.outCount]
    BY <2>1 DEF TermDropped, Fuzzy
  <2> HIDE DEF list, ts, other, g
  <2>3. /\ g \in Fuzzy /\ g.outs = other /\ g.ins = f.ins
        /\ g.outCount = f.outCount /\ g.inCount = f.inCount
    BY <1>1, <1>5, <2>2 DEF Fuzzy
  <2>4. SameLists(f, g)
    BY <1>5, <2>1, <2>3 DEF SameLists
  <2>5. Covers(f) => Covers(g)
    BY <1>1, <1>2, <1>6, <2>1, <2>3 DEF Covers
  <2> QED BY <2>3, <2>4, <2>5 DEF g
<1> QED BY <1>7, <1>8

-----------------------------------------------------------------------------
(* Terms laid over the variables that have none                            *)

Places(list, input) == {input} \X DOMAIN list

FindStep(c, found, i) == IF c[1][i].terms = <<>> THEN Append(found, <<c[2], i>>) ELSE found

FoundPlaces(c, found) == found \in Seq(Places(c[1], c[2]))

Finding == INSTANCE SeqLemmas WITH FoldOp <- FindStep, FoldInv <- FoundPlaces

LEMMA TermlessInType ==
    ASSUME NEW list \in Seq(Variable), NEW input
    PROVE  TermlessIn(list, input) \in Seq(Places(list, input))
<1> DEFINE c == <<list, input>>
           seq == [i \in DOMAIN list |-> i]
<1>1. TermlessIn(list, input) = Finding!Folded(c, <<>>, seq)
  BY DEF TermlessIn, Finding!Folded, Finding!IterEq, Finding!Largest, Max, FindStep,
         FoldLeft, MapThenFoldSet
<1>2. c[1] = list /\ c[2] = input
  OBVIOUS
<1>3. Len(list) \in Nat /\ DOMAIN list = 1..Len(list)
  BY LenProperties
<1>4. seq \in Seq(DOMAIN list) /\ Len(seq) = Len(list) /\ \A i \in 1..Len(list) : seq[i] = i
  BY <1>3
<1> HIDE DEF c, seq
<1>5. FoundPlaces(c, <<>>)
  BY DEF FoundPlaces
<1>6. ASSUME NEW found, NEW i \in 1..Len(seq), FoundPlaces(c, found)
      PROVE  FoundPlaces(c, FindStep(c, found, seq[i]))
  <2>1. <<input, i>> \in Places(list, input) /\ seq[i] = i
    BY <1>3, <1>4 DEF Places
  <2>2. found \in Seq(Places(list, input))
    BY <1>2, <1>6 DEF FoundPlaces
  <2>3. Append(found, <<input, i>>) \in Seq(Places(list, input))
    BY <2>1, <2>2, AppendProperties
  <2> QED BY <1>2, <2>1, <2>2, <2>3 DEF FoundPlaces, FindStep
<1>7. FoundPlaces(c, Finding!Folded(c, <<>>, seq))
  BY <1>4, <1>5, <1>6, Finding!FoldKeeps
<1> QED BY <1>1, <1>2, <1>7 DEF FoundPlaces

\* The places of all variables.
AllPlaces(f) == Places(f.ins, TRUE) \cup Places(f.outs, FALSE)

LEMMA TermlessType ==
    ASSUME NEW f \in Fuzzy
    PROVE  Termless(f) \in Seq(AllPlaces(f)) /\ Len(Termless(f)) \in Nat
<1>1. f.ins \in Seq(Variable) /\ f.outs \in Seq(Variable)
  BY DEF Fuzzy
<1>2. TermlessIn(f.ins, TRUE) \in Seq(Places(f.ins, TRUE))
  BY <1>1, TermlessInType
<1>3. TermlessIn(f.outs, FALSE) \in Seq(Places(f.outs, FALSE))
  BY <1>1, TermlessInType
<1>4. /\ Seq(Places(f.ins, TRUE)) \subseteq Seq(AllPlaces(f))
      /\ Seq(Places(f.outs, FALSE)) \subseteq Seq(AllPlaces(f))
  <2>1. Places(f.ins, TRUE) \subseteq AllPlaces(f) /\ Places(f.outs, FALSE) \subseteq AllPlaces(f)
    BY DEF AllPlaces
  <2> QED BY <2>1, SeqMonotonic
<1> DEFINE a == TermlessIn(f.ins, TRUE)
           b == TermlessIn(f.outs, FALSE)
<1>5. a \in Seq(AllPlaces(f)) /\ b \in Seq(AllPlaces(f))
  BY <1>2, <1>3, <1>4
<1> HIDE DEF a, b
<1>6. a \o b \in Seq(AllPlaces(f))
  BY <1>5, ConcatProperties
<1>7. Termless(f) \in Seq(AllPlaces(f))
  BY <1>6 DEF Termless, a, b
<1> QED BY <1>7, LenProperties

\* c is what the variables were at the start.
LayStep(c, g, p) == WithTerms(g, p[1], p[2], DefaultTerms)

LaidOver(c, g) == g \in Fuzzy /\ SameLists(c, g) /\ (Covers(c) => Covers(g))

Laying == INSTANCE SeqLemmas WITH FoldOp <- LayStep, FoldInv <- LaidOver

\* Laying terms over variables neither adds nor removes one, and counts them.
LEMMA TermsInitializedKeeps ==
    ASSUME NEW f \in Fuzzy, NEW n \in 0..Len(Termless(f))
    PROVE  LaidOver(f, TermsInitialized(f, n))
<1> DEFINE seq == SubSeq(Termless(f), 1, n)
<1>1. TermsInitialized(f, n) = Laying!Folded(f, f, seq)
  BY DEF TermsInitialized, Laying!Folded, Laying!IterEq, Laying!Largest, Max, LayStep,
         FoldLeft, MapThenFoldSet
<1>2. seq \in Seq(AllPlaces(f))
  <2>1. Termless(f) \in Seq(AllPlaces(f)) /\ Len(Termless(f)) \in Nat
    BY TermlessType
  <2> DEFINE t == Termless(f)
  <2>2. t \in Seq(AllPlaces(f)) /\ Len(t) \in Nat /\ n \in 0..Len(t)
    BY <2>1
  <2> HIDE DEF t
  <2>3. SubSeq(t, 1, n) \in Seq(AllPlaces(f))
    BY <2>2, SubSeqProperties
  <2> QED BY <2>3 DEF t
<1> HIDE DEF seq
<1>3. LaidOver(f, f)
  BY DEF LaidOver, SameLists
<1>4. ASSUME NEW g, NEW i \in 1..Len(seq), LaidOver(f, g)
      PROVE  LaidOver(f, LayStep(f, g, seq[i]))
  <2>1. g \in Fuzzy /\ SameLists(f, g) /\ (Covers(f) => Covers(g))
    BY <1>4 DEF LaidOver
  <2> DEFINE p == seq[i]
  <2>2. p \in AllPlaces(f)
    BY <1>2, ElementOfSeq
  <2> HIDE DEF p
  <2>3. DOMAIN g.ins = DOMAIN f.ins /\ DOMAIN g.outs = DOMAIN f.outs
    <3>1. /\ f.ins \in Seq(Variable) /\ f.outs \in Seq(Variable)
          /\ g.ins \in Seq(Variable) /\ g.outs \in Seq(Variable)
      BY <2>1 DEF Fuzzy
    <3>2. /\ DOMAIN f.ins = 1..Len(f.ins) /\ DOMAIN g.ins = 1..Len(g.ins)
          /\ DOMAIN f.outs = 1..Len(f.outs) /\ DOMAIN g.outs = 1..Len(g.outs)
      BY <3>1, CountsType
    <3> QED BY <2>1, <3>2 DEF SameLists
  <2>4. p[1] \in BOOLEAN /\ p[2] \in DOMAIN List(g, p[1])
    BY <2>2, <2>3 DEF AllPlaces, Places, List
  <2> DEFINE h == WithTerms(g, p[1], p[2], DefaultTerms)
  <2>5. DefaultTerms \in Nat
    BY EngineAssumption
  <2>6. h \in Fuzzy /\ SameLists(g, h) /\ (Covers(g) => Covers(h))
    BY <2>1, <2>4, <2>5, WithTermsKeeps
  <2>7. LayStep(f, g, p) = h
    BY DEF LayStep
  <2> HIDE DEF h
  <2> QED BY <2>1, <2>6, <2>7 DEF LaidOver, SameLists, p
<1>5. LaidOver(f, Laying!Folded(f, f, seq))
  BY <1>2, <1>3, <1>4, Laying!FoldKeeps
<1> QED BY <1>1, <1>5

-----------------------------------------------------------------------------
(* Removals                                                                *)

Shaped(s) ==
    /\ s = [fuzzy |-> s.fuzzy, know |-> s.know, last |-> s.last, end |-> s.end,
            removed |-> s.removed]
    /\ s.fuzzy \in Fuzzy

\* What handling the queues does to the variables and to the last measure:
\* variables can only leave, and unless one does the measure stays.
Reduced(r, s) ==
    /\ Shaped(s)
    /\ Len(s.fuzzy.ins) <= Len(r.fuzzy.ins) /\ Len(s.fuzzy.outs) <= Len(r.fuzzy.outs)
    /\ SameLists(r.fuzzy, s.fuzzy) => s.last = r.last
    /\ Covers(r.fuzzy) => Covers(s.fuzzy)

LEMMA LengthsType ==
    ASSUME NEW f \in Fuzzy
    PROVE  /\ f.ins \in Seq(Variable) /\ f.outs \in Seq(Variable)
           /\ Len(f.ins) \in Nat /\ Len(f.outs) \in Nat
           /\ DOMAIN f.ins = 1..Len(f.ins) /\ DOMAIN f.outs = 1..Len(f.outs)
<1>1. f.ins \in Seq(Variable) /\ f.outs \in Seq(Variable)
  BY DEF Fuzzy
<1> QED BY <1>1, CountsType

LEMMA ReducedTwice ==
    ASSUME NEW r, NEW s, NEW t, Shaped(r), Reduced(r, s), Reduced(s, t)
    PROVE  Reduced(r, t)
<1>1. /\ Len(r.fuzzy.ins) \in Nat /\ Len(r.fuzzy.outs) \in Nat
      /\ Len(s.fuzzy.ins) \in Nat /\ Len(s.fuzzy.outs) \in Nat
      /\ Len(t.fuzzy.ins) \in Nat /\ Len(t.fuzzy.outs) \in Nat
  <2>1. r.fuzzy \in Fuzzy /\ s.fuzzy \in Fuzzy /\ t.fuzzy \in Fuzzy
    BY DEF Reduced, Shaped
  <2> QED BY <2>1, LengthsType
<1> DEFINE Fewer(f, g) == Len(g.ins) <= Len(f.ins) /\ Len(g.outs) <= Len(f.outs)
<1>2. /\ Fewer(r.fuzzy, t.fuzzy)
      /\ SameLists(r.fuzzy, t.fuzzy) =>
            (SameLists(r.fuzzy, s.fuzzy) /\ SameLists(s.fuzzy, t.fuzzy))
  <2>1. Fewer(r.fuzzy, s.fuzzy) /\ Fewer(s.fuzzy, t.fuzzy)
    BY DEF Reduced
  <2>2. ASSUME NEW i \in Nat, NEW j \in Nat, NEW k \in Nat, j <= i, k <= j
        PROVE  k <= i /\ (k = i => (j = i /\ k = j))
    BY <2>2
  <2>3. Fewer(r.fuzzy, t.fuzzy)
    <3>1. Len(t.fuzzy.ins) <= Len(r.fuzzy.ins)
      BY ONLY <1>1, <2>1
    <3>2. Len(t.fuzzy.outs) <= Len(r.fuzzy.outs)
      BY ONLY <1>1, <2>1
    <3> QED BY <3>1, <3>2
  <2>4. ASSUME SameLists(r.fuzzy, t.fuzzy)
        PROVE  SameLists(r.fuzzy, s.fuzzy) /\ SameLists(s.fuzzy, t.fuzzy)
    BY <1>1, <2>1, <2>2, <2>4 DEF SameLists
  <2> QED BY <2>3, <2>4
<1>3. SameLists(r.fuzzy, t.fuzzy) => t.last = r.last
  BY <1>2 DEF Reduced
<1> QED BY <1>2, <1>3 DEF Reduced

\* One variable: its terms are no longer counted, and its line leaves the
\* measure.
LEMMA VariableGoneReduces ==
    ASSUME NEW s, Shaped(s), NEW input \in BOOLEAN, NEW id
    PROVE  Reduced(s, VariableGone(s, input, id))
<1> DEFINE list == List(s.fuzzy, input)
           v == Position(list, id)
<1>1. /\ s.fuzzy \in Fuzzy /\ list \in Seq(Variable)
      /\ Len(s.fuzzy.ins) \in Nat /\ Len(s.fuzzy.outs) \in Nat
  BY LengthsType DEF Shaped, List
<1>2. v = 0 \/ v \in DOMAIN list
  BY <1>1, PositionType
<1>3. CASE v = 0
  <2>1. VariableGone(s, input, id) = s
    BY <1>3 DEF VariableGone, List
  <2>2. Reduced(s, s)
    BY <1>1 DEF Reduced, SameLists
  <2> QED BY <2>1, <2>2
<1>4. CASE v \in DOMAIN list /\ v # 0
  <2> DEFINE g == VariableDropped(s.fuzzy, input, v)
             t == VariableGone(s, input, id)
  <2>1. /\ g \in Fuzzy
        /\ Len(g.ins) = Len(s.fuzzy.ins) - (IF input THEN 1 ELSE 0)
        /\ Len(g.outs) = Len(s.fuzzy.outs) - (IF input THEN 0 ELSE 1)
        /\ Covers(s.fuzzy) => Covers(g)
    BY <1>1, <1>4, VariableDroppedKeeps
  <2>2. t = [fuzzy |-> g, know |-> VariableRemoved(s.know, v, input),
             last |-> WithoutLine(s.last, input, v), end |-> s.end, removed |-> s.removed]
    BY <1>4 DEF VariableGone, List, Shaped
  <2> HIDE DEF g, t
  <2>3. Shaped(t) /\ t.fuzzy = g
    BY <2>1, <2>2 DEF Shaped
  <2>4. /\ Len(g.ins) <= Len(s.fuzzy.ins) /\ Len(g.outs) <= Len(s.fuzzy.outs)
        /\ ~SameLists(s.fuzzy, g)
    <3>1. CASE input
      <4>1. Len(g.ins) = Len(s.fuzzy.ins) - 1 /\ Len(g.outs) = Len(s.fuzzy.outs)
        BY <1>1, <2>1, <3>1
      <4> QED BY <1>1, <4>1 DEF SameLists
    <3>2. CASE ~input
      <4>1. Len(g.ins) = Len(s.fuzzy.ins) /\ Len(g.outs) = Len(s.fuzzy.outs) - 1
        BY <1>1, <2>1, <3>2
      <4> QED BY <1>1, <4>1 DEF SameLists
    <3> QED BY <3>1, <3>2
  <2> QED BY <2>1, <2>3, <2>4 DEF Reduced, t
<1> QED BY <1>2, <1>3, <1>4

TermQueued == [input : BOOLEAN, var : Nat, term : Nat]

\* One term: it stays counted.
LEMMA TermGoneReduces ==
    ASSUME NEW s, Shaped(s), NEW q \in TermQueued
    PROVE  Reduced(s, TermGone(s, q))
<1> DEFINE list == List(s.fuzzy, q.input)
           v == Position(list, q.var)
           ts == IF v = 0 THEN 0 ELSE TermPosition(list[v].terms, q.term)
<1>1. /\ s.fuzzy \in Fuzzy /\ list \in Seq(Variable) /\ q.input \in BOOLEAN
      /\ Len(s.fuzzy.ins) \in Nat /\ Len(s.fuzzy.outs) \in Nat
  BY LengthsType DEF Shaped, List, TermQueued
<1>2. v = 0 \/ v \in DOMAIN list
  BY <1>1, PositionType
<1>3. Reduced(s, s)
  BY <1>1 DEF Reduced, SameLists
<1>4. CASE s.end # "ok" \/ ts = 0
  <2>1. TermGone(s, q) = s
    BY <1>4 DEF TermGone, List, TermPosition
  <2> QED BY <1>3, <2>1
<1>5. CASE s.end = "ok" /\ ts # 0
  <2>1. v # 0 /\ v \in DOMAIN list
    BY <1>2, <1>5
  <2> DEFINE x == list[v].terms
             result == TermRemoved(s.know, v, ts, q.input)
             r == TermGone(s, q)
             g == TermDropped(s.fuzzy, q.input, v, ts)
  <2>2. ts \in DOMAIN x
    <3>1. x \in Seq(Nat)
      <4>1. list[v] \in Variable
        BY <1>1, <2>1, CountsType
      <4> QED BY <4>1 DEF Variable
    <3>2. ts = TermPosition(x, q.term) /\ ts # 0
      BY <1>5, <2>1
    <3> HIDE DEF x, ts
    <3> QED BY <3>1, <3>2, TermPositionType
  <2>3. r = TermGoneFrom(s, q.input, v, ts, result)
    BY <1>5 DEF TermGone, List, TermPosition
  <2>4. g \in Fuzzy /\ SameLists(s.fuzzy, g) /\ (Covers(s.fuzzy) => Covers(g))
    <3> HIDE DEF v, ts
    <3> QED BY <1>1, <2>1, <2>2, TermDroppedKeeps
  <2> HIDE DEF result, r, v, ts
  <2>5. CASE result[2] = "ok"
    <3>1. r = [fuzzy |-> g, know |-> result[1], last |-> s.last, end |-> s.end, removed |-> TRUE]
      BY <2>3, <2>5 DEF TermGoneFrom, Shaped
    <3> HIDE DEF g
    <3>2. Shaped(r) /\ r.fuzzy = g /\ r.last = s.last
      BY <2>4, <3>1 DEF Shaped
    <3>3. Len(g.ins) <= Len(s.fuzzy.ins) /\ Len(g.outs) <= Len(s.fuzzy.outs)
      BY <1>1, <2>4 DEF SameLists
    <3> QED BY <2>4, <3>2, <3>3 DEF Reduced, r
  <2>6. CASE result[2] # "ok"
    <3>1. r = [fuzzy |-> s.fuzzy, know |-> result[1], last |-> s.last, end |-> result[2],
               removed |-> s.removed]
      BY <2>3, <2>6 DEF TermGoneFrom, Shaped
    <3>2. Shaped(r) /\ r.fuzzy = s.fuzzy /\ r.last = s.last
      BY <1>1, <3>1 DEF Shaped
    <3> QED BY <1>3, <3>2 DEF Reduced, r
  <2> QED BY <2>5, <2>6
<1> QED BY <1>4, <1>5

\* The three queues, in turn; c is <<whether of inputs, what it was at first>>.
VariableStep(c, s, id) == VariableGone(s, c[1], id)

TermGoneStep(c, s, q) == TermGone(s, q)

ReducedSince(c, s) == Reduced(c[2], s)

Dropping == INSTANCE SeqLemmas WITH FoldOp <- VariableStep, FoldInv <- ReducedSince

Pruning == INSTANCE SeqLemmas WITH FoldOp <- TermGoneStep, FoldInv <- ReducedSince

LEMMA DroppingReduces ==
    ASSUME NEW s, Shaped(s), NEW queue \in Seq(Nat), NEW input \in BOOLEAN
    PROVE  Reduced(s, Dropping!Folded(<<input, s>>, s, queue))
<1> DEFINE c == <<input, s>>
<1>1. c[1] = input /\ c[2] = s
  OBVIOUS
<1> HIDE DEF c
<1>2. ReducedSince(c, s)
  <2>1. s.fuzzy \in Fuzzy
    BY DEF Shaped
  <2>2. Len(s.fuzzy.ins) \in Nat /\ Len(s.fuzzy.outs) \in Nat
    BY <2>1, LengthsType
  <2> QED BY <1>1, <2>2 DEF ReducedSince, Reduced
<1>3. ASSUME NEW r, NEW n \in 1..Len(queue), ReducedSince(c, r)
      PROVE  ReducedSince(c, VariableStep(c, r, queue[n]))
  <2>1. Reduced(s, r) /\ Shaped(r)
    BY <1>1, <1>3 DEF ReducedSince, Reduced
  <2>2. Reduced(r, VariableGone(r, input, queue[n]))
    BY <2>1, VariableGoneReduces
  <2>3. Reduced(s, VariableGone(r, input, queue[n]))
    BY <2>1, <2>2, ReducedTwice
  <2> QED BY <1>1, <2>3 DEF ReducedSince, VariableStep
<1>4. ReducedSince(c, Dropping!Folded(c, s, queue))
  BY <1>2, <1>3, Dropping!FoldKeeps
<1> QED BY <1>1, <1>4 DEF ReducedSince, c

LEMMA PruningReduces ==
    ASSUME NEW s, Shaped(s), NEW queue \in Seq(TermQueued)
    PROVE  Reduced(s, FoldLeft(TermGone, s, queue))
<1> DEFINE c == <<TRUE, s>>
<1>1. FoldLeft(TermGone, s, queue) = Pruning!Folded(c, s, queue)
  BY DEF Pruning!Folded, Pruning!IterEq, Pruning!Largest, Max, TermGoneStep,
         FoldLeft, MapThenFoldSet
<1>2. c[2] = s
  OBVIOUS
<1> HIDE DEF c
<1>3. ReducedSince(c, s)
  <2>1. s.fuzzy \in Fuzzy
    BY DEF Shaped
  <2>2. Len(s.fuzzy.ins) \in Nat /\ Len(s.fuzzy.outs) \in Nat
    BY <2>1, LengthsType
  <2> QED BY <1>2, <2>2 DEF ReducedSince, Reduced
<1>4. ASSUME NEW r, NEW n \in 1..Len(queue), ReducedSince(c, r)
      PROVE  ReducedSince(c, TermGoneStep(c, r, queue[n]))
  <2>1. Reduced(s, r) /\ Shaped(r)
    BY <1>2, <1>4 DEF ReducedSince, Reduced
  <2>2. queue[n] \in TermQueued
    BY ElementOfSeq
  <2>3. Reduced(r, TermGone(r, queue[n]))
    BY <2>1, <2>2, TermGoneReduces
  <2>4. Reduced(s, TermGone(r, queue[n]))
    BY <2>1, <2>3, ReducedTwice
  <2> QED BY <1>2, <2>4 DEF ReducedSince, TermGoneStep
<1>5. ReducedSince(c, Pruning!Folded(c, s, queue))
  BY <1>3, <1>4, Pruning!FoldKeeps
<1> QED BY <1>1, <1>2, <1>5 DEF ReducedSince

GoneType == [ins : Seq(Nat), outs : Seq(Nat), terms : Seq(TermQueued)]

\* Handling all queues before a reading.
LEMMA RemovalsReduce ==
    ASSUME fuzzy \in Fuzzy, gone \in GoneType, NEW max
    PROVE  LET s == RemovalsHandled(max)
           IN  /\ s.fuzzy \in Fuzzy
               /\ SameLists(fuzzy, s.fuzzy) => s.last = eng.last
               /\ Covers(fuzzy) => Covers(s.fuzzy)
<1> DEFINE r == [fuzzy |-> fuzzy, know |-> CacheResized(know, max), last |-> eng.last,
                 end |-> "ok", removed |-> gone.ins \o gone.outs # <<>>]
<1>1. Shaped(r) /\ r.fuzzy = fuzzy /\ r.last = eng.last
  BY DEF Shaped
<1>2. gone.ins \in Seq(Nat) /\ gone.outs \in Seq(Nat) /\ gone.terms \in Seq(TermQueued)
  BY DEF GoneType
<1> HIDE DEF r
<1> DEFINE a == Dropping!Folded(<<TRUE, r>>, r, gone.ins)
           b == Dropping!Folded(<<FALSE, a>>, a, gone.outs)
<1>3. Reduced(r, a)
  BY <1>1, <1>2, DroppingReduces
<1>4. a = FoldLeft(LAMBDA y, id : VariableGone(y, TRUE, id), r, gone.ins)
  BY DEF Dropping!Folded, Dropping!IterEq, Dropping!Largest, Max, VariableStep,
         FoldLeft, MapThenFoldSet
<1> HIDE DEF a
<1>5. Reduced(a, b)
  <2>1. Shaped(a)
    BY <1>3 DEF Reduced
  <2> QED BY <1>2, <2>1, DroppingReduces
<1>6. b = FoldLeft(LAMBDA y, id : VariableGone(y, FALSE, id), a, gone.outs)
  BY DEF Dropping!Folded, Dropping!IterEq, Dropping!Largest, Max, VariableStep,
         FoldLeft, MapThenFoldSet
<1> HIDE DEF b
<1>7. VariablesGone(r) = b
  BY <1>4, <1>6 DEF VariablesGone
<1> DEFINE d == FoldLeft(TermGone, b, gone.terms)
<1>8. Reduced(b, d)
  <2>1. Shaped(b)
    BY <1>5 DEF Reduced
  <2> QED BY <1>2, <2>1, PruningReduces
<1>9. RemovalsHandled(max) = RulesMadeAgain(d)
  BY <1>7 DEF RemovalsHandled, r
<1> HIDE DEF d
<1>10. Reduced(r, d)
  BY <1>1, <1>3, <1>5, <1>8, ReducedTwice
<1> DEFINE s == RulesMadeAgain(d)
<1>11. s.fuzzy = d.fuzzy /\ s.last = d.last
  <2>1. d = [fuzzy |-> d.fuzzy, know |-> d.know, last |-> d.last, end |-> d.end,
             removed |-> d.removed]
    BY <1>10 DEF Reduced, Shaped
  <2> QED BY <2>1 DEF RulesMadeAgain
<1> HIDE DEF s
<1> QED BY <1>1, <1>9, <1>10, <1>11 DEF Reduced, Shaped, s

-----------------------------------------------------------------------------
(* The other changes of the variables                                      *)

\* A file, or the start.
LEMMA LoadedList ==
    ASSUME NEW layout \in Seq(Nat)
    PROVE  LET list == [i \in DOMAIN layout |-> NewVariable(i, layout[i])]
           IN  /\ list \in Seq(Variable) /\ Total(Counts(list)) = Total(layout)
               /\ Total(layout) \in Int
<1> DEFINE list == [i \in DOMAIN layout |-> NewVariable(i, layout[i])]
<1>1. Len(layout) \in Nat /\ DOMAIN layout = 1..Len(layout)
  BY LenProperties
<1>2. ASSUME NEW i \in 1..Len(layout)
      PROVE  NewVariable(i, layout[i]) \in Variable
             /\ Len(NewVariable(i, layout[i]).terms) = layout[i]
  <2> DEFINE n == layout[i]
             ts == [t \in 1..n |-> t]
  <2>1. n \in Nat
    BY ElementOfSeq
  <2> HIDE DEF n
  <2>2. ts \in Seq(Nat) /\ Len(ts) = n
    BY <2>1
  <2> HIDE DEF ts
  <2>3. NewVariable(i, n) = [id |-> i, terms |-> ts, on |-> TRUE]
    BY DEF NewVariable, ts
  <2>4. i \in Nat
    BY <1>1
  <2> QED BY <2>2, <2>3, <2>4 DEF Variable, n
<1>3. list \in Seq(Variable) /\ Len(list) = Len(layout)
  BY <1>1, <1>2
<1>4. \A i \in 1..Len(layout) : Len(list[i].terms) = layout[i]
  BY <1>1, <1>2
<1> HIDE DEF list
<1>5. /\ Counts(list) \in Seq(Int) /\ Len(Counts(list)) = Len(layout)
      /\ \A i \in 1..Len(layout) : Counts(list)[i] = layout[i]
  BY <1>3, <1>4, CountsType
<1>6. layout \in Seq(Int)
  <2>1. Nat \subseteq Int
    OBVIOUS
  <2> QED BY <2>1, SeqMonotonic
<1>7. Counts(list) = layout
  BY <1>5, <1>6, SeqEqual
<1> QED BY <1>3, <1>6, <1>7, TotalType DEF list

LEMMA LoadedKeeps ==
    /\ Loaded(InLayout, OutLayout) \in Fuzzy
    /\ Covers(Loaded(InLayout, OutLayout))
<1> DEFINE ins == [i \in DOMAIN InLayout |-> NewVariable(i, InLayout[i])]
           outs == [o \in DOMAIN OutLayout |-> NewVariable(o, OutLayout[o])]
           f == Loaded(InLayout, OutLayout)
<1>1. f = [ins |-> ins, outs |-> outs, inCount |-> Total(InLayout),
           outCount |-> Total(OutLayout)]
  BY DEF Loaded
<1>2. /\ ins \in Seq(Variable) /\ Total(Counts(ins)) = Total(InLayout)
      /\ Total(InLayout) \in Int
  BY EngineAssumption, LoadedList
<1>3. /\ outs \in Seq(Variable) /\ Total(Counts(outs)) = Total(OutLayout)
      /\ Total(OutLayout) \in Int
  BY EngineAssumption, LoadedList
<1> HIDE DEF ins, outs, f
<1>4. f \in Fuzzy /\ Covers(f)
  <2>1. f \in Fuzzy
    BY <1>1, <1>2, <1>3 DEF Fuzzy
  <2>2. /\ f.ins = ins /\ f.outs = outs
        /\ f.inCount = Total(InLayout) /\ f.outCount = Total(OutLayout)
    BY <1>1
  <2> QED BY <1>2, <1>3, <2>1, <2>2 DEF Covers
<1> QED BY <1>4 DEF f

\* A variable is added.
LEMMA InputAdded ==
    ASSUME NEW f \in Fuzzy
    PROVE  LET g == [f EXCEPT !.ins = Append(@, NewVariable(FreshId(Ids(@)), 0))]
           IN  g \in Fuzzy /\ (Covers(f) => Covers(g))
<1> DEFINE id == FreshId(Ids(f.ins))
           list == Append(f.ins, NewVariable(id, 0))
           g == [f EXCEPT !.ins = Append(@, NewVariable(FreshId(Ids(@)), 0))]
<1>1. f.ins \in Seq(Variable)
  BY DEF Fuzzy
<1>2. id \in Nat
  BY <1>1, FreshVariableType
<1>3. list \in Seq(Variable) /\ Total(Counts(list)) = Total(Counts(f.ins))
  <2> HIDE DEF id
  <2> QED BY <1>1, <1>2, ListAppended
<1>4. g = [ins |-> list, outs |-> f.outs, inCount |-> f.inCount, outCount |-> f.outCount]
  <2>1. g = [f EXCEPT !.ins = list]
    OBVIOUS
  <2> HIDE DEF list, id, g
  <2> QED BY <2>1 DEF Fuzzy
<1> HIDE DEF list, g
<1>5. g \in Fuzzy
  BY <1>3, <1>4 DEF Fuzzy
<1>6. Covers(f) => Covers(g)
  BY <1>3, <1>4 DEF Covers
<1> QED BY <1>5, <1>6 DEF g

LEMMA OutputAdded ==
    ASSUME NEW f \in Fuzzy
    PROVE  LET g == [f EXCEPT !.outs = Append(@, NewVariable(FreshId(Ids(@)), 0))]
           IN  g \in Fuzzy /\ (Covers(f) => Covers(g))
<1> DEFINE id == FreshId(Ids(f.outs))
           list == Append(f.outs, NewVariable(id, 0))
           g == [f EXCEPT !.outs = Append(@, NewVariable(FreshId(Ids(@)), 0))]
<1>1. f.outs \in Seq(Variable)
  BY DEF Fuzzy
<1>2. id \in Nat
  BY <1>1, FreshVariableType
<1>3. list \in Seq(Variable) /\ Total(Counts(list)) = Total(Counts(f.outs))
  <2> HIDE DEF id
  <2> QED BY <1>1, <1>2, ListAppended
<1>4. g = [ins |-> f.ins, outs |-> list, inCount |-> f.inCount, outCount |-> f.outCount]
  <2>1. g = [f EXCEPT !.outs = list]
    OBVIOUS
  <2> HIDE DEF list, id, g
  <2> QED BY <2>1 DEF Fuzzy
<1> HIDE DEF list, g
<1>5. g \in Fuzzy
  BY <1>3, <1>4 DEF Fuzzy
<1>6. Covers(f) => Covers(g)
  BY <1>3, <1>4 DEF Covers
<1> QED BY <1>5, <1>6 DEF g

\* An input is switched on or off.
LEMMA InputSwitched ==
    ASSUME NEW f \in Fuzzy, NEW v \in DOMAIN f.ins
    PROVE  LET g == [f EXCEPT !.ins[v].on = ~@]
           IN  /\ g \in Fuzzy /\ SameLists(f, g)
               /\ Covers(f) => Covers(g)
<1> DEFINE x == [f.ins[v] EXCEPT !.on = ~@]
           list == [f.ins EXCEPT ![v] = x]
           g == [f EXCEPT !.ins[v].on = ~@]
<1>1. /\ f.ins \in Seq(Variable) /\ Len(f.ins) \in Nat /\ DOMAIN f.ins = 1..Len(f.ins)
      /\ f.ins[v] \in Variable
  <2>1. f.ins \in Seq(Variable)
    BY DEF Fuzzy
  <2> QED BY <2>1, CountsType
<1>2. x \in Variable /\ x.terms = f.ins[v].terms
  BY <1>1 DEF Variable
<1>3. g = [ins |-> list, outs |-> f.outs, inCount |-> f.inCount, outCount |-> f.outCount]
  <2>1. g = [f EXCEPT !.ins = list]
    OBVIOUS
  <2> HIDE DEF list, g
  <2> QED BY <2>1 DEF Fuzzy
<1> HIDE DEF x, g
<1>4. /\ list \in Seq(Variable) /\ Len(list) = Len(f.ins)
      /\ DOMAIN list = DOMAIN f.ins
      /\ \A i \in DOMAIN f.ins : list[i].terms = f.ins[i].terms
  BY <1>1, <1>2
<1> HIDE DEF list
<1>5. Counts(list) = Counts(f.ins)
  BY <1>4 DEF Counts
<1>6. g \in Fuzzy
  BY <1>3, <1>4 DEF Fuzzy
<1>7. SameLists(f, g)
  BY <1>3, <1>4 DEF SameLists
<1>8. Covers(f) => Covers(g)
  BY <1>3, <1>5 DEF Covers
<1> QED BY <1>6, <1>7, <1>8 DEF g

-----------------------------------------------------------------------------
(* The invariant                                                           *)

EngineShape(e) ==
    /\ e = [hits |-> e.hits, stab |-> e.stab, called |-> e.called, last |-> e.last,
            learn |-> e.learn, listens |-> e.listens, auto |-> e.auto, max |-> e.max]
    /\ e.hits \in 0..HitsRange - 1 /\ e.stab \in Hits \cup {0} /\ e.called \in BOOLEAN

HistoryShape(h) ==
    /\ h = [prev |-> h.prev, same |-> h.same, sure |-> h.sure, told |-> h.told,
            rash |-> h.rash]
    /\ h.same \in 0..HitsRange
    /\ h.sure \in BOOLEAN /\ h.told \in BOOLEAN /\ h.rash \in BOOLEAN

EngineTypeOK ==
    /\ fuzzy \in Fuzzy /\ gone \in GoneType
    /\ EngineShape(eng) /\ HistoryShape(hist)
    /\ pc \in {"idle", "reading", "announcing", "crash"}

\* A reading of these variables.
ReadingOf(f, m) == m \in [in   : [DOMAIN f.ins -> InPatterns],
                          out  : [DOMAIN f.outs -> OutPatterns],
                          none : {FALSE}]

\* The measure says what the reading says.
Agrees(last, m) == last # None /\ ~Differ(last.in, m.in) /\ ~Differ(last.out, m.out)

\* The last measure is the last reading as long as that one is comparable; and
\* the engine has not counted more readings than came.
Steady(f, e, h) ==
    /\ ~h.rash
    /\ h.prev # None => ReadingOf(f, h.prev) /\ Agrees(e.last, h.prev)
    /\ h.prev = None /\ h.sure => e.last = None
    /\ h.sure => e.hits <= h.same

\* What was told is remembered, or will be when the callback returns.
Remembered(e, h, p) == h.told => h.prev # None /\ (e.called \/ p = "announcing")

EngineInv ==
    /\ EngineTypeOK
    /\ Covers(fuzzy)
    /\ Steady(fuzzy, eng, hist)
    /\ Remembered(eng, hist, pc)

LEMMA ReadingIsSome ==
    ASSUME NEW f, NEW m, ReadingOf(f, m)
    PROVE  m # None
<1>1. m.none = FALSE
  BY DEF ReadingOf
<1>2. None.none = TRUE
  BY DEF None
<1> QED BY <1>1, <1>2

LEMMA SameDomains ==
    ASSUME NEW f \in Fuzzy, NEW g \in Fuzzy, SameLists(f, g)
    PROVE  /\ DOMAIN f.ins = DOMAIN g.ins /\ DOMAIN f.outs = DOMAIN g.outs
           /\ \A m : ReadingOf(f, m) => ReadingOf(g, m)
<1>1. DOMAIN f.ins = DOMAIN g.ins /\ DOMAIN f.outs = DOMAIN g.outs
  BY LengthsType DEF SameLists
<1> QED BY <1>1 DEF ReadingOf

\* Readings of the same variables that the measure agrees with are the same.
LEMMA AgreeingReadings ==
    ASSUME NEW f, NEW m, NEW n, NEW last, ReadingOf(f, m), ReadingOf(f, n),
           Agrees(last, m), Agrees(last, n)
    PROVE  m = n
<1>1. ASSUME NEW old, NEW a, NEW b, NEW D, NEW S, a \in [D -> S], b \in [D -> S],
             ~Differ(old, a), ~Differ(old, b)
      PROVE  a = b
  <2>1. ASSUME NEW v \in D PROVE a[v] = b[v]
    <3>1. v \in DOMAIN a /\ v \in DOMAIN b
      BY <1>1
    <3>2. Line(old, v) = Line(a, v) /\ Line(old, v) = Line(b, v)
      BY <1>1, <3>1 DEF Differ
    <3>3. Line(a, v) = a[v] /\ Line(b, v) = b[v]
      BY <3>1 DEF Line
    <3> QED BY <3>2, <3>3
  <2> QED BY <1>1, <2>1
<1>2. /\ m.in \in [DOMAIN f.ins -> InPatterns] /\ n.in \in [DOMAIN f.ins -> InPatterns]
      /\ m.out \in [DOMAIN f.outs -> OutPatterns] /\ n.out \in [DOMAIN f.outs -> OutPatterns]
      /\ m = [in |-> m.in, out |-> m.out, none |-> FALSE]
      /\ n = [in |-> n.in, out |-> n.out, none |-> FALSE]
  BY DEF ReadingOf
<1>3. m.in = n.in
  BY <1>1, <1>2 DEF Agrees
<1>4. m.out = n.out
  BY <1>1, <1>2 DEF Agrees
<1> QED BY <1>2, <1>3, <1>4

LEMMA AgreesWithItself ==
    ASSUME NEW f, NEW m, ReadingOf(f, m)
    PROVE  Agrees(m, m)
  BY ReadingIsSome DEF Agrees, Differ

LEMMA ReadingsOf ==
    ASSUME NEW f, NEW m \in Readings(View(f))
    PROVE  ReadingOf(f, m)
<1>1. DOMAIN View(f).inTerms = DOMAIN f.ins /\ DOMAIN View(f).outTerms = DOMAIN f.outs
  BY DEF View
<1> QED BY <1>1 DEF Readings, ReadingOf

-----------------------------------------------------------------------------
(* What the history keeps                                                  *)

\* Unless the terms changed the variables are as many as before.
LEMMA ShapeHeardIs ==
    ASSUME fuzzy \in Fuzzy, NEW f \in Fuzzy
    PROVE  \/ ShapeHeard(hist, f) = hist /\ SameLists(fuzzy, f)
           \/ ShapeHeard(hist, f) = Reshaped(hist)
<1>1. CASE View(f).inTerms = View(fuzzy).inTerms /\ f.outs = fuzzy.outs
           /\ \A i \in DOMAIN f.ins : f.ins[i].id = fuzzy.ins[i].id
  <2>1. ShapeHeard(hist, f) = hist
    BY <1>1 DEF ShapeHeard
  <2>2. DOMAIN f.ins = DOMAIN fuzzy.ins
    <3>1. DOMAIN View(f).inTerms = DOMAIN f.ins /\ DOMAIN View(fuzzy).inTerms = DOMAIN fuzzy.ins
      BY DEF View
    <3> QED BY <1>1, <3>1
  <2>3. Len(f.ins) = Len(fuzzy.ins)
    <3>1. /\ Len(f.ins) \in Nat /\ Len(fuzzy.ins) \in Nat
          /\ DOMAIN f.ins = 1..Len(f.ins) /\ DOMAIN fuzzy.ins = 1..Len(fuzzy.ins)
      BY LengthsType
    <3>2. ASSUME NEW i \in Nat, NEW j \in Nat, 1..i = 1..j PROVE i = j
      <4>1. i > 0 => i \in 1..j
        BY <3>2
      <4>2. j > 0 => j \in 1..i
        BY <3>2
      <4> QED BY <4>1, <4>2
    <3> QED BY <2>2, <3>1, <3>2
  <2> QED BY <1>1, <2>1, <2>3 DEF SameLists
<1>2. CASE ~(View(f).inTerms = View(fuzzy).inTerms /\ f.outs = fuzzy.outs
           /\ \A i \in DOMAIN f.ins : f.ins[i].id = fuzzy.ins[i].id)
  BY <1>2 DEF ShapeHeard
<1> QED BY <1>1, <1>2

LEMMA ReshapedIs ==
    ASSUME HistoryShape(hist)
    PROVE  LET h == Reshaped(hist)
           IN  /\ HistoryShape(h) /\ h.prev = None /\ h.same = 0
               /\ ~h.sure /\ ~h.told /\ h.rash = hist.rash
<1> DEFINE h == Reshaped(hist)
<1>1. h = [prev |-> None, same |-> 0, sure |-> FALSE, told |-> FALSE, rash |-> hist.rash]
  <2>1. hist = [prev |-> hist.prev, same |-> hist.same, sure |-> hist.sure,
                told |-> hist.told, rash |-> hist.rash]
    BY DEF HistoryShape
  <2>2. h = [hist EXCEPT !.prev = None, !.same = 0, !.sure = FALSE, !.told = FALSE]
    BY DEF Reshaped
  <2> HIDE DEF h
  <2> QED BY <2>1, <2>2
<1>2. 0 \in 0..HitsRange
  BY EngineAssumption
<1> HIDE DEF h
<1> QED BY <1>1, <1>2 DEF HistoryShape, h

\* The variables changed, and the measure is as it was unless some left.
LEMMA ShapeSteady ==
    ASSUME fuzzy \in Fuzzy, HistoryShape(hist), Steady(fuzzy, eng, hist),
           Remembered(eng, hist, pc),
           NEW f \in Fuzzy, NEW e, SameLists(fuzzy, f) => e.last = eng.last,
           e.hits = eng.hits, NEW p,
           (eng.called \/ pc = "announcing") => (e.called \/ p = "announcing")
    PROVE  LET h == ShapeHeard(hist, f)
           IN  HistoryShape(h) /\ Steady(f, e, h) /\ Remembered(e, h, p)
<1> DEFINE h == ShapeHeard(hist, f)
<1>1. CASE h = hist /\ SameLists(fuzzy, f)
  <2>1. \A m : ReadingOf(fuzzy, m) => ReadingOf(f, m)
    BY <1>1, SameDomains
  <2>2. e.last = eng.last
    BY <1>1
  <2>3. Steady(f, e, hist)
    BY <2>1, <2>2 DEF Steady
  <2>4. Remembered(e, hist, p)
    BY DEF Remembered
  <2> QED BY <1>1, <2>3, <2>4
<1>2. CASE h = Reshaped(hist)
  <2> HIDE DEF h
  <2>1. /\ HistoryShape(h) /\ h.prev = None /\ h.same = 0
        /\ ~h.sure /\ ~h.told /\ h.rash = hist.rash
    BY <1>2, ReshapedIs
  <2>2. Steady(f, e, h)
    BY <2>1 DEF Steady
  <2>3. Remembered(e, h, p)
    BY <2>1 DEF Remembered
  <2> QED BY <2>1, <2>2, <2>3 DEF h
<1> QED BY <1>1, <1>2, ShapeHeardIs

LEMMA MeasuredIs ==
    ASSUME NEW e, EngineShape(e), NEW m
    PROVE  LET x == Measured(e, m)
           IN  /\ EngineShape(x)
               /\ x.last = IF Agrees(e.last, m) THEN e.last ELSE m
               /\ x.hits = IF Agrees(e.last, m) THEN e.hits ELSE 0
               /\ x.called <=> e.called /\ e.last # None /\ ~Differ(e.last.in, m.in)
               /\ x.stab = e.stab
<1> DEFINE x == Measured(e, m)
           changed == e.last = None \/ Differ(e.last.in, m.in) \/ Differ(e.last.out, m.out)
           called == e.called /\ e.last # None /\ ~Differ(e.last.in, m.in)
           last == IF changed THEN m ELSE e.last
           hits == IF changed THEN 0 ELSE e.hits
<1>1. x = [hits |-> hits, stab |-> e.stab, called |-> called, last |-> last,
           learn |-> e.learn, listens |-> e.listens, auto |-> e.auto, max |-> e.max]
  <2>1. e = [hits |-> e.hits, stab |-> e.stab, called |-> e.called, last |-> e.last,
             learn |-> e.learn, listens |-> e.listens, auto |-> e.auto, max |-> e.max]
    BY DEF EngineShape
  <2>2. x = [e EXCEPT !.last = last, !.hits = hits, !.called = called]
    BY DEF Measured
  <2> HIDE DEF x, last, hits, called
  <2> QED BY <2>1, <2>2
<1>2. changed <=> ~Agrees(e.last, m)
  BY DEF Agrees
<1>3. called \in BOOLEAN
  OBVIOUS
<1>4. 0 \in 0..HitsRange - 1
  BY EngineAssumption
<1>5. hits \in 0..HitsRange - 1
  BY <1>4 DEF EngineShape
<1>6. /\ last = IF Agrees(e.last, m) THEN e.last ELSE m
      /\ hits = IF Agrees(e.last, m) THEN e.hits ELSE 0
  BY <1>2
<1> HIDE DEF x, changed, called, last, hits
<1>7. EngineShape(x)
  BY <1>1, <1>3, <1>5 DEF EngineShape
<1>8. x.last = last /\ x.hits = hits /\ x.called = called /\ x.stab = e.stab
  BY <1>1
<1> QED BY <1>6, <1>7, <1>8 DEF x, called

LEMMA HeardIs ==
    ASSUME NEW h, HistoryShape(h), NEW m
    PROVE  LET x == Heard(h, m)
           IN  /\ HistoryShape(x) /\ x.prev = m
               /\ x.same = IF h.prev # m THEN 1
                           ELSE IF h.same < HitsRange THEN h.same + 1 ELSE h.same
               /\ x.sure <=> h.sure \/ h.prev \notin {None, m}
               /\ x.told <=> h.told /\ h.prev.in = m.in
               /\ x.rash = h.rash
<1> DEFINE x == Heard(h, m)
           same == IF h.prev # m THEN 1 ELSE IF h.same < HitsRange THEN h.same + 1 ELSE h.same
           sure == h.sure \/ h.prev \notin {None, m}
           told == h.told /\ h.prev.in = m.in
<1>1. x = [prev |-> m, same |-> same, sure |-> sure, told |-> told, rash |-> h.rash]
  <2>1. h = [prev |-> h.prev, same |-> h.same, sure |-> h.sure, told |-> h.told,
             rash |-> h.rash]
    BY DEF HistoryShape
  <2>2. x = [h EXCEPT !.prev = m, !.same = same, !.sure = sure, !.told = told]
    BY DEF Heard
  <2> HIDE DEF x, same, sure, told
  <2> QED BY <2>1, <2>2
<1>2. same \in 0..HitsRange
  BY EngineAssumption DEF HistoryShape
<1>3. sure \in BOOLEAN /\ told \in BOOLEAN
  BY DEF HistoryShape
<1> HIDE DEF x, same, sure, told
<1>4. HistoryShape(x)
  BY <1>1, <1>2, <1>3 DEF HistoryShape
<1>5. x.prev = m /\ x.same = same /\ x.sure = sure /\ x.told = told /\ x.rash = h.rash
  BY <1>1
<1> QED BY <1>4, <1>5 DEF x, same, sure, told

LEMMA CountedIs ==
    ASSUME HistoryShape(hist), NEW h, HistoryShape(h)
    PROVE  LET x == Counted(h)
           IN  /\ HistoryShape(x) /\ x.prev = h.prev /\ x.same = 0 /\ x.sure
               /\ x.told = h.told
               /\ x.rash <=> h.rash \/ (h.sure /\ h.same <= eng.stab)
<1> DEFINE x == Counted(h)
           rash == h.rash \/ (h.sure /\ h.same <= eng.stab)
<1>1. x = [prev |-> h.prev, same |-> 0, sure |-> TRUE, told |-> h.told, rash |-> rash]
  <2>1. h = [prev |-> h.prev, same |-> h.same, sure |-> h.sure, told |-> h.told,
             rash |-> h.rash]
    BY DEF HistoryShape
  <2>2. x = [h EXCEPT !.rash = rash, !.same = 0, !.sure = TRUE]
    BY DEF Counted
  <2> HIDE DEF x, rash
  <2> QED BY <2>1, <2>2
<1>2. 0 \in 0..HitsRange
  BY EngineAssumption
<1>3. rash \in BOOLEAN
  BY DEF HistoryShape
<1> HIDE DEF x, rash
<1>4. HistoryShape(x)
  BY <1>1, <1>2, <1>3 DEF HistoryShape
<1>5. x.prev = h.prev /\ x.same = 0 /\ x.sure /\ x.told = h.told /\ x.rash = rash
  BY <1>1
<1> QED BY <1>4, <1>5 DEF x, rash

\* What a reading is compared with, and what is counted: the engine counts
\* fewer equal readings than came in a row.
LEMMA ReadingHeard ==
    ASSUME EngineInv, pc = "reading", NEW f \in Fuzzy, NEW m, ReadingOf(f, m)
    PROVE  LET e == Measured(eng, m)
               h == Heard(ShapeHeard(hist, f), m)
           IN  /\ EngineShape(e) /\ e.stab = eng.stab /\ Agrees(e.last, m)
               /\ HistoryShape(h) /\ h.prev = m /\ ~h.rash
               /\ h.sure => e.hits < h.same
               /\ h.told => e.called
               /\ Heard(hist, m).told => e.called
<1> DEFINE e == Measured(eng, m)
           g == ShapeHeard(hist, f)
           h == Heard(g, m)
           sames == IF g.prev # m THEN 1 ELSE IF g.same < HitsRange THEN g.same + 1 ELSE g.same
<1>1. /\ fuzzy \in Fuzzy /\ EngineShape(eng) /\ HistoryShape(hist)
      /\ Steady(fuzzy, eng, hist) /\ Remembered(eng, hist, pc)
  BY DEF EngineInv, EngineTypeOK
<1>2. /\ EngineShape(e) /\ e.stab = eng.stab
      /\ e.last = IF Agrees(eng.last, m) THEN eng.last ELSE m
      /\ e.hits = IF Agrees(eng.last, m) THEN eng.hits ELSE 0
      /\ e.called <=> eng.called /\ eng.last # None /\ ~Differ(eng.last.in, m.in)
  BY <1>1, MeasuredIs
<1>3. Agrees(e.last, m)
  BY <1>2, AgreesWithItself
<1>4. g = Reshaped(hist) \/ (g = hist /\ SameLists(fuzzy, f))
  BY <1>1, ShapeHeardIs
<1>5. /\ HistoryShape(Reshaped(hist)) /\ Reshaped(hist).prev = None
      /\ ~Reshaped(hist).sure /\ ~Reshaped(hist).told /\ Reshaped(hist).rash = hist.rash
  BY <1>1, ReshapedIs
<1>6. HistoryShape(g) /\ ~g.rash
  BY <1>1, <1>4, <1>5 DEF Steady
<1> HIDE DEF g
<1>7. /\ HistoryShape(h) /\ h.prev = m /\ h.rash = g.rash
      /\ h.same = sames
      /\ h.sure <=> g.sure \/ g.prev \notin {None, m}
      /\ h.told <=> g.told /\ g.prev.in = m.in
  BY <1>6, HeardIs
<1>8. m # None
  BY ReadingIsSome
<1>9. eng.hits \in Nat /\ eng.hits < HitsRange /\ HitsRange \in Nat
  BY <1>1, EngineAssumption DEF EngineShape
<1>10. h.sure => e.hits < h.same
  <2>1. CASE g = Reshaped(hist)
    BY <1>5, <1>7, <2>1
  <2>2. CASE g = hist /\ hist.prev = m
    <3>1. eng.hits = e.hits /\ (hist.sure => eng.hits <= hist.same)
      BY <1>1, <1>2, <1>8, <2>2 DEF Steady
    <3>2. /\ h.sure <=> hist.sure
          /\ h.same = IF hist.same < HitsRange THEN hist.same + 1 ELSE hist.same
      BY <1>7, <2>2
    <3>3. hist.same \in Nat /\ hist.same <= HitsRange
      BY <1>1, <1>9 DEF HistoryShape
    <3> QED BY <1>9, <3>1, <3>2, <3>3
  <2>3. CASE g = hist /\ hist.prev = None
    <3>1. hist.sure => eng.last = None
      BY <1>1, <2>3 DEF Steady
    <3>2. (h.sure <=> hist.sure) /\ h.same = 1
      BY <1>7, <1>8, <2>3
    <3>3. hist.sure => e.hits = 0
      BY <1>2, <3>1 DEF Agrees
    <3> QED BY <3>2, <3>3
  <2>4. CASE g = hist /\ SameLists(fuzzy, f) /\ hist.prev \notin {None, m}
    <3>1. ReadingOf(fuzzy, hist.prev) /\ Agrees(eng.last, hist.prev)
      BY <1>1, <2>4 DEF Steady
    <3>2. ReadingOf(f, hist.prev)
      BY <1>1, <2>4, <3>1, SameDomains
    <3>3. ~Agrees(eng.last, m)
      BY <2>4, <3>1, <3>2, AgreeingReadings
    <3>4. e.hits = 0 /\ h.same = 1
      BY <1>2, <1>7, <2>4, <3>3
    <3> QED BY <3>4
  <2> QED BY <1>4, <2>1, <2>2, <2>3, <2>4
<1>11. hist.told /\ hist.prev.in = m.in => e.called
  <2> SUFFICES ASSUME hist.told, hist.prev.in = m.in PROVE e.called
    OBVIOUS
  <2>1. hist.prev # None /\ eng.called
    BY <1>1 DEF Remembered
  <2>2. Agrees(eng.last, hist.prev)
    BY <1>1, <2>1 DEF Steady
  <2>3. eng.last # None /\ ~Differ(eng.last.in, m.in)
    BY <2>2 DEF Agrees
  <2> QED BY <1>2, <2>1, <2>3
<1>12. h.told => e.called
  BY <1>4, <1>5, <1>7, <1>11
<1>13. Heard(hist, m).told => e.called
  <2> HIDE DEF e, h, sames
  <2>1. HistoryShape(hist)
    BY <1>1
  <2> DEFINE x == Heard(hist, m)
             n == IF hist.prev # m THEN 1
                  ELSE IF hist.same < HitsRange THEN hist.same + 1 ELSE hist.same
  <2>2. /\ HistoryShape(x) /\ x.prev = m /\ x.same = n
        /\ x.sure <=> hist.sure \/ hist.prev \notin {None, m}
        /\ x.told <=> hist.told /\ hist.prev.in = m.in
        /\ x.rash = hist.rash
    BY <2>1, HeardIs
  <2> QED BY <1>11, <2>2
<1> QED BY <1>2, <1>3, <1>6, <1>7, <1>10, <1>12, <1>13 DEF g

-----------------------------------------------------------------------------
(* The steps                                                               *)

\* Learning ends in the idle state or in a crash.
LEMMA FinishEnds ==
    ASSUME NEW f, NEW learns \in BOOLEAN, NEW grows, Finish(f, learns, grows)
    PROVE  pc' \in {"idle", "crash"}
<1>1. CASE learns /\ eng.learn /\ eng'.last = None
  BY <1>1 DEF Finish
<1>2. CASE learns /\ eng.learn /\ eng'.last # None
  BY <1>2 DEF Finish
<1>3. CASE ~(learns /\ eng.learn)
  BY <1>3 DEF Finish
<1> QED BY <1>1, <1>2, <1>3

LEMMA ReshapeKeeps ==
    ASSUME EngineInv, NEW f \in Fuzzy, Covers(fuzzy) => Covers(f), Reshape(f)
    PROVE  EngineInv'
<1> DEFINE h == ShapeHeard(hist, f)
<1>1. /\ fuzzy \in Fuzzy /\ HistoryShape(hist) /\ Steady(fuzzy, eng, hist)
      /\ Remembered(eng, hist, pc) /\ gone \in GoneType /\ EngineShape(eng)
      /\ pc \in {"idle", "reading", "announcing", "crash"}
  BY DEF EngineInv, EngineTypeOK
<1>2. HistoryShape(h) /\ Steady(f, eng, h) /\ Remembered(eng, h, pc)
  BY <1>1, ShapeSteady
<1>3. Covers(f)
  BY DEF EngineInv
<1>4. fuzzy' = f /\ hist' = h /\ eng' = eng /\ gone' = gone /\ pc' = pc
  BY DEF Reshape
<1> HIDE DEF h
<1> QED BY <1>1, <1>2, <1>3, <1>4 DEF EngineInv, EngineTypeOK

LEMMA ConfigureKeeps ==
    ASSUME EngineInv, NEW e, EngineShape(e), e.last = eng.last, e.hits = eng.hits,
           e.called = eng.called, Configure(e)
    PROVE  EngineInv'
<1>1. Steady(fuzzy, e, hist) /\ Remembered(e, hist, pc)
  BY DEF EngineInv, Steady, Remembered
<1>2. fuzzy' = fuzzy /\ hist' = hist /\ eng' = e /\ gone' = gone /\ pc' = pc
  BY DEF Configure
<1> QED BY <1>1, <1>2 DEF EngineInv, EngineTypeOK

LEMMA EnqueueKeeps ==
    ASSUME EngineInv, NEW q \in GoneType, Enqueue(q)
    PROVE  EngineInv'
<1>1. fuzzy' = fuzzy /\ hist' = hist /\ eng' = eng /\ gone' = q /\ pc' = pc
  BY DEF Enqueue
<1> QED BY <1>1 DEF EngineInv, EngineTypeOK

LEMMA StartKeeps ==
    ASSUME EngineInv, Start
    PROVE  EngineInv'
<1> DEFINE s == RemovalsHandled(CacheLimit)
           h == ShapeHeard(hist, s.fuzzy)
           e == [eng EXCEPT !.last = s.last]
<1>1. /\ pc = "idle" /\ fuzzy' = s.fuzzy /\ eng' = e
      /\ gone' = IF s.end = "ok" THEN [ins |-> <<>>, outs |-> <<>>, terms |-> <<>>]
                                 ELSE [gone EXCEPT !.ins = <<>>, !.outs = <<>>]
      /\ hist' = h
      /\ pc' = CASE s.end = "crash" -> "crash"
                 [] s.end = "ok" /\ ~(eng.auto /\ Termless(s.fuzzy) # <<>>) -> "reading"
                 [] OTHER -> "idle"
  BY DEF Start
<1>2. /\ fuzzy \in Fuzzy /\ HistoryShape(hist) /\ Steady(fuzzy, eng, hist)
      /\ Remembered(eng, hist, pc) /\ gone \in GoneType /\ EngineShape(eng) /\ Covers(fuzzy)
  BY DEF EngineInv, EngineTypeOK
<1>3. /\ s.fuzzy \in Fuzzy
      /\ SameLists(fuzzy, s.fuzzy) => s.last = eng.last
      /\ Covers(fuzzy) => Covers(s.fuzzy)
  BY <1>2, RemovalsReduce
<1> HIDE DEF s
<1>4. /\ EngineShape(e) /\ e.last = s.last /\ e.hits = eng.hits /\ e.called = eng.called
  <2>1. eng = [hits |-> eng.hits, stab |-> eng.stab, called |-> eng.called,
               last |-> eng.last, learn |-> eng.learn, listens |-> eng.listens,
               auto |-> eng.auto, max |-> eng.max]
    BY <1>2 DEF EngineShape
  <2>2. e = [hits |-> eng.hits, stab |-> eng.stab, called |-> eng.called,
             last |-> s.last, learn |-> eng.learn, listens |-> eng.listens,
             auto |-> eng.auto, max |-> eng.max]
    BY <2>1
  <2> HIDE DEF e
  <2> QED BY <1>2, <2>2 DEF EngineShape
<1>5. pc' \in {"idle", "reading", "announcing", "crash"}
  <2>1. CASE s.end = "crash"
    BY <1>1, <2>1
  <2>2. CASE s.end # "crash"
    BY <1>1, <2>2
  <2> QED BY <2>1, <2>2
<1>6. gone' \in GoneType
  <2>1. ASSUME NEW q \in GoneType, NEW none \in Seq(Nat)
        PROVE  [q EXCEPT !.ins = none, !.outs = none] \in GoneType
    BY DEF GoneType
  <2>2. [ins |-> <<>>, outs |-> <<>>, terms |-> <<>>] \in GoneType
    BY DEF GoneType
  <2>3. [gone EXCEPT !.ins = <<>>, !.outs = <<>>] \in GoneType
    <3> DEFINE none == <<>>
    <3>1. none \in Seq(Nat)
      OBVIOUS
    <3> HIDE DEF none
    <3>2. [gone EXCEPT !.ins = none, !.outs = none] \in GoneType
      BY <1>2, <2>1, <3>1
    <3> QED BY <3>2 DEF none
  <2> QED BY <1>1, <2>2, <2>3
<1> HIDE DEF e
<1>7. HistoryShape(h) /\ Steady(s.fuzzy, e, h) /\ Remembered(e, h, pc')
  <2>1. \A p : Remembered(e, h, p) /\ HistoryShape(h) /\ Steady(s.fuzzy, e, h)
    <3> TAKE p
    <3>1. (eng.called \/ pc = "announcing") => (e.called \/ p = "announcing")
      BY <1>1, <1>4
    <3> QED BY <1>2, <1>3, <1>4, <3>1, ShapeSteady
  <2> QED BY <2>1
<1> HIDE DEF h
<1> QED BY <1>1, <1>2, <1>3, <1>4, <1>5, <1>6, <1>7 DEF EngineInv, EngineTypeOK

LEMMA InitializeFailsKeeps ==
    ASSUME EngineInv, NEW n \in Nat, InitializeFails(n)
    PROVE  EngineInv'
<1> DEFINE f == TermsInitialized(fuzzy, n)
           h == ShapeHeard(hist, f)
<1>1. /\ n < Len(Termless(fuzzy)) /\ pc = "reading" /\ pc' = "idle"
      /\ fuzzy' = f /\ hist' = h /\ eng' = eng /\ gone' = gone
  BY DEF InitializeFails, Ends
<1>2. /\ fuzzy \in Fuzzy /\ HistoryShape(hist) /\ Steady(fuzzy, eng, hist)
      /\ Remembered(eng, hist, pc) /\ gone \in GoneType /\ EngineShape(eng) /\ Covers(fuzzy)
  BY DEF EngineInv, EngineTypeOK
<1>3. n \in 0..Len(Termless(fuzzy))
  BY <1>1, <1>2, TermlessType
<1>4. LaidOver(fuzzy, f)
  BY <1>2, <1>3, TermsInitializedKeeps
<1> HIDE DEF f
<1>5. f \in Fuzzy /\ Covers(f)
  BY <1>2, <1>4 DEF LaidOver
<1>6. HistoryShape(h) /\ Steady(f, eng, h) /\ Remembered(eng, h, "idle")
  <2>1. (eng.called \/ pc = "announcing") => (eng.called \/ "idle" = "announcing")
    BY <1>1
  <2> QED BY <1>2, <1>5, <2>1, ShapeSteady
<1> HIDE DEF h
<1> QED BY <1>1, <1>2, <1>5, <1>6 DEF EngineInv, EngineTypeOK

\* The step to a reading, whatever terms were laid over the variables.
LEMMA TermsLaid ==
    ASSUME EngineInv
    PROVE  LaidOver(fuzzy, TermsInitialized(fuzzy, Len(Termless(fuzzy))))
<1>1. fuzzy \in Fuzzy
  BY DEF EngineInv, EngineTypeOK
<1>2. Len(Termless(fuzzy)) \in 0..Len(Termless(fuzzy))
  BY <1>1, TermlessType
<1> QED BY <1>1, <1>2, TermsInitializedKeeps

LEMMA ReadNothingKeeps ==
    ASSUME EngineInv, NEW f, LaidOver(fuzzy, f), ReadNothing(f)
    PROVE  EngineInv'
<1> DEFINE h == ShapeHeard(hist, f)
<1>1. /\ pc = "reading" /\ fuzzy' = f /\ hist' = h /\ eng' = eng /\ gone' = gone
      /\ Finish(f, FALSE, TRUE)
  BY DEF ReadNothing
<1>2. pc' \in {"idle", "crash"}
  BY <1>1, FinishEnds
<1>3. /\ fuzzy \in Fuzzy /\ HistoryShape(hist) /\ Steady(fuzzy, eng, hist)
      /\ Remembered(eng, hist, pc) /\ gone \in GoneType /\ EngineShape(eng) /\ Covers(fuzzy)
  BY DEF EngineInv, EngineTypeOK
<1>4. f \in Fuzzy /\ Covers(f)
  BY <1>3 DEF LaidOver
<1>5. HistoryShape(h) /\ Steady(f, eng, h) /\ Remembered(eng, h, "idle")
  <2>1. (eng.called \/ pc = "announcing") => (eng.called \/ "idle" = "announcing")
    BY <1>1
  <2> QED BY <1>3, <1>4, <2>1, ShapeSteady
<1> HIDE DEF h
<1>6. Remembered(eng, h, pc')
  BY <1>5 DEF Remembered
<1> QED BY <1>1, <1>2, <1>3, <1>4, <1>5, <1>6 DEF EngineInv, EngineTypeOK

LEMMA ReadUnstableKeeps ==
    ASSUME EngineInv, NEW f, LaidOver(fuzzy, f), NEW m, ReadingOf(f, m), ReadUnstable(m, f)
    PROVE  EngineInv'
<1> DEFINE e == Measured(eng, m)
           h == Heard(ShapeHeard(hist, f), m)
           d == [e EXCEPT !.hits = (@ + 1) % HitsRange]
<1>1. /\ pc = "reading" /\ fuzzy' = f /\ hist' = h /\ gone' = gone /\ eng' = d
      /\ Finish(f, FALSE, TRUE)
  BY DEF ReadUnstable, Reads
<1>2. pc' \in {"idle", "crash"}
  BY <1>1, FinishEnds
<1>3. f \in Fuzzy /\ Covers(f) /\ gone \in GoneType
  BY DEF EngineInv, EngineTypeOK, LaidOver
<1>4. /\ EngineShape(e) /\ e.stab = eng.stab /\ Agrees(e.last, m)
      /\ HistoryShape(h) /\ h.prev = m /\ ~h.rash
      /\ h.sure => e.hits < h.same
      /\ h.told => e.called
  BY <1>1, <1>3, ReadingHeard
<1>5. m # None
  BY ReadingIsSome
<1> HIDE DEF e, h
<1>6. HitsRange \in Nat \ {0} /\ e.hits \in 0..HitsRange - 1 /\ h.same \in 0..HitsRange
  BY <1>4, EngineAssumption DEF EngineShape, HistoryShape
<1> DEFINE n == (e.hits + 1) % HitsRange
<1>7. n \in 0..HitsRange - 1 /\ n <= e.hits + 1
  <2>1. CASE e.hits = HitsRange - 1
    BY <1>6, <2>1
  <2>2. CASE e.hits # HitsRange - 1
    BY <1>6, <2>2
  <2> QED BY <2>1, <2>2
<1>8. d = [hits |-> n, stab |-> e.stab, called |-> e.called, last |-> e.last,
           learn |-> e.learn, listens |-> e.listens, auto |-> e.auto, max |-> e.max]
  <2>1. e = [hits |-> e.hits, stab |-> e.stab, called |-> e.called, last |-> e.last,
             learn |-> e.learn, listens |-> e.listens, auto |-> e.auto, max |-> e.max]
    BY <1>4 DEF EngineShape
  <2>2. d = [e EXCEPT !.hits = n]
    OBVIOUS
  <2> HIDE DEF d, n
  <2> QED BY <2>1, <2>2
<1> HIDE DEF d, n
<1>9. EngineShape(d) /\ d.hits = n /\ d.last = e.last /\ d.called = e.called
  <2>1. d.hits = n /\ d.last = e.last /\ d.called = e.called
    BY <1>8
  <2>2. EngineShape(d)
    BY <1>4, <1>7, <1>8 DEF EngineShape
  <2> QED BY <2>1, <2>2
<1>10. h.sure => d.hits <= h.same
  BY <1>4, <1>6, <1>7, <1>9
<1>11. Steady(f, d, h)
  BY <1>4, <1>5, <1>9, <1>10 DEF Steady
<1>12. Remembered(d, h, pc')
  BY <1>4, <1>5, <1>9 DEF Remembered
<1> QED BY <1>1, <1>2, <1>3, <1>4, <1>9, <1>11, <1>12 DEF EngineInv, EngineTypeOK

\* A reading taken for stable, learnt or acted on.
LEMMA SettledKeeps ==
    ASSUME EngineInv, NEW f, LaidOver(fuzzy, f), NEW m, ReadingOf(f, m), Reads(m, f),
           Stable(m), eng' = Settled(m), pc' \in {"idle", "crash", "announcing"},
           LET h == Counted(Heard(ShapeHeard(hist, f), m))
           IN  hist' = h \/ (hist' = [h EXCEPT !.told = TRUE] /\ pc' = "announcing")
    PROVE  EngineInv'
<1> DEFINE e == Measured(eng, m)
           g == Heard(ShapeHeard(hist, f), m)
           h == Counted(g)
           t == [h EXCEPT !.told = TRUE]
           d == Settled(m)
<1>1. /\ pc = "reading" /\ fuzzy' = f /\ gone' = gone /\ eng' = d
      /\ hist' = h \/ (hist' = t /\ pc' = "announcing")
      /\ e.hits = eng.stab
  BY DEF Reads, Stable
<1>2. f \in Fuzzy /\ Covers(f) /\ gone \in GoneType /\ HistoryShape(hist)
  BY DEF EngineInv, EngineTypeOK, LaidOver
<1>3. /\ EngineShape(e) /\ e.stab = eng.stab
      /\ HistoryShape(g) /\ g.prev = m /\ ~g.rash
      /\ g.sure => e.hits < g.same
      /\ g.told => e.called
  BY <1>1, <1>2, ReadingHeard
<1>4. m # None /\ Agrees(m, m)
  BY ReadingIsSome, AgreesWithItself
<1>5. d = [e EXCEPT !.hits = 0, !.last = m]
  BY DEF Settled
<1> HIDE DEF e, g, d
<1>6. /\ HistoryShape(h) /\ h.prev = g.prev /\ h.same = 0 /\ h.sure /\ h.told = g.told
      /\ h.rash <=> g.rash \/ (g.sure /\ g.same <= eng.stab)
  BY <1>2, <1>3, CountedIs
<1> HIDE DEF h
<1>7. HitsRange \in Nat \ {0} /\ e.hits \in 0..HitsRange - 1 /\ g.same \in 0..HitsRange
  BY <1>3, EngineAssumption DEF EngineShape, HistoryShape
<1>8. ~h.rash
  BY <1>1, <1>3, <1>6, <1>7
<1>9. EngineShape(d) /\ d.hits = 0 /\ d.last = m /\ d.called = e.called
  <2>1. e = [hits |-> e.hits, stab |-> e.stab, called |-> e.called, last |-> e.last,
             learn |-> e.learn, listens |-> e.listens, auto |-> e.auto, max |-> e.max]
    BY <1>3 DEF EngineShape
  <2>2. d = [hits |-> 0, stab |-> e.stab, called |-> e.called, last |-> m,
             learn |-> e.learn, listens |-> e.listens, auto |-> e.auto, max |-> e.max]
    BY <1>5, <2>1
  <2>3. d.hits = 0 /\ d.last = m /\ d.called = e.called
    BY <2>2
  <2>4. EngineShape(d)
    BY <1>3, <1>7, <2>2 DEF EngineShape
  <2> QED BY <2>3, <2>4
<1>10. Steady(f, d, h) /\ Remembered(d, h, pc')
  <2>1. Steady(f, d, h)
    BY <1>3, <1>4, <1>6, <1>8, <1>9 DEF Steady
  <2>2. Remembered(d, h, pc')
    BY <1>3, <1>4, <1>6, <1>9 DEF Remembered
  <2> QED BY <2>1, <2>2
<1>11. /\ HistoryShape(t) /\ Steady(f, d, t)
       /\ pc' = "announcing" => Remembered(d, t, pc')
  <2>1. h = [prev |-> h.prev, same |-> h.same, sure |-> h.sure, told |-> h.told,
             rash |-> h.rash]
    BY <1>6 DEF HistoryShape
  <2>2. t = [prev |-> h.prev, same |-> h.same, sure |-> h.sure, told |-> TRUE,
             rash |-> h.rash]
    <3>1. t = [h EXCEPT !.told = TRUE]
      OBVIOUS
    <3> HIDE DEF t
    <3> QED BY <2>1, <3>1
  <2> HIDE DEF t
  <2>3. HistoryShape(t)
    BY <1>6, <2>2 DEF HistoryShape
  <2>4. t.prev = h.prev /\ t.same = h.same /\ t.sure = h.sure /\ t.rash = h.rash
    BY <2>2
  <2>5. Steady(f, d, t)
    BY <1>10, <2>4 DEF Steady
  <2>6. pc' = "announcing" => Remembered(d, t, pc')
    BY <1>3, <1>4, <1>6, <2>4 DEF Remembered
  <2> QED BY <2>3, <2>5, <2>6
<1> HIDE DEF t
<1>12. HistoryShape(hist') /\ Steady(f, d, hist') /\ Remembered(d, hist', pc')
  BY <1>1, <1>6, <1>10, <1>11
<1> QED BY <1>1, <1>2, <1>9, <1>12 DEF EngineInv, EngineTypeOK

\* The counts start again after both callbacks.
LEMMA StableReadKeeps ==
    ASSUME EngineInv, NEW f, LaidOver(fuzzy, f), NEW m, ReadingOf(f, m), NEW grows,
           ReadLearns(m, f, grows) \/ ActFails(m, f) \/ Announces(m, f)
    PROVE  EngineInv'
<1>1. CASE ReadLearns(m, f, grows)
  <2>1. /\ Reads(m, f) /\ Stable(m) /\ eng' = Settled(m)
        /\ hist' = Counted(Heard(ShapeHeard(hist, f), m)) /\ Finish(f, TRUE, grows)
    BY <1>1 DEF ReadLearns
  <2>2. pc' \in {"idle", "crash"}
    BY <2>1, FinishEnds
  <2> QED BY <2>1, <2>2, SettledKeeps
<1>2. CASE ActFails(m, f)
  BY <1>2, SettledKeeps DEF ActFails
<1>3. CASE Announces(m, f)
  BY <1>3, SettledKeeps DEF Announces
<1> QED BY <1>1, <1>2, <1>3

LEMMA AnnouncedKeeps ==
    ASSUME EngineInv, NEW grows, Announced(grows)
    PROVE  EngineInv'
<1> DEFINE e == [eng EXCEPT !.called = TRUE]
<1>1. /\ eng' = e /\ fuzzy' = fuzzy /\ gone' = gone /\ hist' = hist
      /\ Finish(fuzzy, TRUE, grows)
  BY DEF Announced
<1>2. pc' \in {"idle", "crash"}
  BY <1>1, FinishEnds
<1>3. EngineShape(e) /\ e.last = eng.last /\ e.hits = eng.hits /\ e.called
  <2>1. eng = [hits |-> eng.hits, stab |-> eng.stab, called |-> eng.called,
               last |-> eng.last, learn |-> eng.learn, listens |-> eng.listens,
               auto |-> eng.auto, max |-> eng.max] /\ EngineShape(eng)
    BY DEF EngineInv, EngineTypeOK, EngineShape
  <2>2. e = [hits |-> eng.hits, stab |-> eng.stab, called |-> TRUE,
             last |-> eng.last, learn |-> eng.learn, listens |-> eng.listens,
             auto |-> eng.auto, max |-> eng.max]
    <3>1. e = [eng EXCEPT !.called = TRUE]
      OBVIOUS
    <3> HIDE DEF e
    <3> QED BY <2>1, <3>1
  <2> HIDE DEF e
  <2> QED BY <2>1, <2>2 DEF EngineShape
<1> HIDE DEF e
<1>4. Steady(fuzzy, e, hist) /\ Remembered(e, hist, pc')
  BY <1>3 DEF EngineInv, Steady, Remembered
<1> QED BY <1>1, <1>2, <1>3, <1>4 DEF EngineInv, EngineTypeOK

LEMMA ProcessKeeps ==
    ASSUME EngineInv, Process
    PROVE  EngineInv'
<1> DEFINE f == TermsInitialized(fuzzy, Len(Termless(fuzzy)))
<1>1. CASE Start
  BY <1>1, StartKeeps
<1>2. CASE ReadFails
  <2>1. fuzzy' = fuzzy /\ eng' = eng /\ gone' = gone /\ hist' = hist /\ pc' = "idle"
        /\ pc = "reading"
    BY <1>2 DEF ReadFails, Ends
  <2>2. Remembered(eng, hist, pc')
    BY <2>1 DEF EngineInv, Remembered
  <2> QED BY <2>1, <2>2 DEF EngineInv, EngineTypeOK
<1>3. CASE \E n \in 0..(Len(fuzzy.ins) + Len(fuzzy.outs)) : InitializeFails(n)
  <2>1. Len(fuzzy.ins) \in Nat /\ Len(fuzzy.outs) \in Nat
    BY LengthsType DEF EngineInv, EngineTypeOK
  <2>2. PICK n \in Nat : InitializeFails(n)
    BY <1>3, <2>1
  <2> QED BY <2>2, InitializeFailsKeeps
<1>4. LaidOver(fuzzy, f)
  BY TermsLaid
<1>5. CASE ReadNothing(f)
  BY <1>4, <1>5, ReadNothingKeeps
<1>6. ASSUME NEW m \in Readings(View(f)), ReadUnstable(m, f)
      PROVE  EngineInv'
  <2> HIDE DEF f
  <2>1. ReadingOf(f, m)
    BY <1>6, ReadingsOf
  <2> QED BY <1>4, <1>6, <2>1, ReadUnstableKeeps
<1>7. ASSUME NEW m \in Readings(View(f)), NEW grows,
             ReadLearns(m, f, grows) \/ ActFails(m, f) \/ Announces(m, f)
      PROVE  EngineInv'
  <2> HIDE DEF f
  <2>1. ReadingOf(f, m)
    BY <1>7, ReadingsOf
  <2> QED BY <1>4, <1>7, <2>1, StableReadKeeps
<1>8. ASSUME NEW grows, Announced(grows) PROVE EngineInv'
  BY <1>8, AnnouncedKeeps
<1> HIDE DEF f
<1> QED BY <1>1, <1>2, <1>3, <1>5, <1>6, <1>7, <1>8 DEF Process, f

LEMMA VariableCallsKeep ==
    ASSUME EngineInv, AddInput \/ AddOutput
    PROVE  EngineInv'
<1>1. fuzzy \in Fuzzy
  BY DEF EngineInv, EngineTypeOK
<1>2. CASE AddInput
  <2> DEFINE g == [fuzzy EXCEPT !.ins = Append(@, NewVariable(FreshId(Ids(@)), 0))]
  <2>1. g \in Fuzzy /\ (Covers(fuzzy) => Covers(g))
    BY <1>1, InputAdded
  <2>2. Reshape(g)
    BY <1>2 DEF AddInput
  <2> HIDE DEF g
  <2> QED BY <2>1, <2>2, ReshapeKeeps
<1>3. CASE AddOutput
  <2> DEFINE g == [fuzzy EXCEPT !.outs = Append(@, NewVariable(FreshId(Ids(@)), 0))]
  <2>1. g \in Fuzzy /\ (Covers(fuzzy) => Covers(g))
    BY <1>1, OutputAdded
  <2>2. Reshape(g)
    BY <1>3 DEF AddOutput
  <2> HIDE DEF g
  <2> QED BY <2>1, <2>2, ReshapeKeeps
<1> QED BY <1>2, <1>3

LEMMA AddTermKeeps ==
    ASSUME EngineInv, NEW input \in BOOLEAN, NEW v \in DOMAIN List(fuzzy, input),
           AddTerm(input, v)
    PROVE  EngineInv'
<1> DEFINE g == WithTerms(fuzzy, input, v, 1)
<1>1. fuzzy \in Fuzzy
  BY DEF EngineInv, EngineTypeOK
<1>2. g \in Fuzzy /\ (Covers(fuzzy) => Covers(g))
  BY <1>1, WithTermsKeeps
<1>3. Reshape(g)
  BY DEF AddTerm
<1> HIDE DEF g
<1> QED BY <1>2, <1>3, ReshapeKeeps

LEMMA SetEnabledKeeps ==
    ASSUME EngineInv, NEW v \in DOMAIN fuzzy.ins, SetEnabled(v)
    PROVE  EngineInv'
<1> DEFINE g == [fuzzy EXCEPT !.ins[v].on = ~@]
<1>1. fuzzy' = g /\ eng' = eng /\ gone' = gone /\ pc' = pc /\ hist' = hist
  BY DEF SetEnabled
<1>2. fuzzy \in Fuzzy /\ Covers(fuzzy) /\ Steady(fuzzy, eng, hist)
  BY DEF EngineInv, EngineTypeOK
<1>3. g \in Fuzzy /\ SameLists(fuzzy, g) /\ Covers(g)
  BY <1>2, InputSwitched
<1> HIDE DEF g
<1>4. Steady(g, eng, hist)
  <2>1. \A m : ReadingOf(fuzzy, m) => ReadingOf(g, m)
    BY <1>2, <1>3, SameDomains
  <2> QED BY <1>2, <2>1 DEF Steady
<1> QED BY <1>1, <1>3, <1>4 DEF EngineInv, EngineTypeOK

\* What is queued refers to variables and terms there are.
LEMMA RemovalCallsKeep ==
    ASSUME EngineInv,
           \/ \E v \in DOMAIN fuzzy.ins : RemoveInput(v)
           \/ \E v \in DOMAIN fuzzy.outs : RemoveOutput(v)
           \/ \E input \in BOOLEAN : \E v \in DOMAIN List(fuzzy, input) :
                 \E t \in DOMAIN List(fuzzy, input)[v].terms : RemoveTerm(input, v, t)
    PROVE  EngineInv'
<1>1. /\ fuzzy.ins \in Seq(Variable) /\ fuzzy.outs \in Seq(Variable)
      /\ gone \in GoneType
  BY LengthsType DEF EngineInv, EngineTypeOK
<1>2. gone.ins \in Seq(Nat) /\ gone.outs \in Seq(Nat) /\ gone.terms \in Seq(TermQueued)
  BY <1>1 DEF GoneType
<1> DEFINE Queued(q) == q \in GoneType
<1>3. /\ \A a \in Seq(Nat) : Queued([gone EXCEPT !.ins = a])
      /\ \A a \in Seq(Nat) : Queued([gone EXCEPT !.outs = a])
      /\ \A b \in Seq(TermQueued) : Queued([gone EXCEPT !.terms = b])
  <2>1. ASSUME NEW q \in GoneType, NEW a \in Seq(Nat), NEW b \in Seq(TermQueued)
        PROVE  /\ [q EXCEPT !.ins = a] \in GoneType /\ [q EXCEPT !.outs = a] \in GoneType
               /\ [q EXCEPT !.terms = b] \in GoneType
    BY DEF GoneType
  <2>2. ASSUME NEW a \in Seq(Nat)
        PROVE  Queued([gone EXCEPT !.ins = a]) /\ Queued([gone EXCEPT !.outs = a])
    BY <1>1, <1>2, <2>1
  <2>3. ASSUME NEW b \in Seq(TermQueued) PROVE Queued([gone EXCEPT !.terms = b])
    BY <1>1, <1>2, <2>1
  <2> QED BY <2>2, <2>3
<1>4. ASSUME NEW v \in DOMAIN fuzzy.ins, RemoveInput(v) PROVE EngineInv'
  <2> DEFINE a == Append(gone.ins, fuzzy.ins[v].id)
  <2>1. fuzzy.ins[v] \in Variable
    BY <1>1, CountsType
  <2>2. fuzzy.ins[v].id \in Nat
    BY <2>1 DEF Variable
  <2>3. a \in Seq(Nat)
    BY <1>2, <2>2, AppendProperties
  <2>4. Enqueue([gone EXCEPT !.ins = a])
    BY <1>4 DEF RemoveInput
  <2> HIDE DEF a
  <2>5. [gone EXCEPT !.ins = a] \in GoneType
    BY <1>1, <1>3, <2>3
  <2> QED BY <2>4, <2>5, EnqueueKeeps
<1>5. ASSUME NEW v \in DOMAIN fuzzy.outs, RemoveOutput(v) PROVE EngineInv'
  <2> DEFINE a == Append(gone.outs, fuzzy.outs[v].id)
  <2>1. fuzzy.outs[v] \in Variable
    BY <1>1, CountsType
  <2>2. fuzzy.outs[v].id \in Nat
    BY <2>1 DEF Variable
  <2>3. a \in Seq(Nat)
    BY <1>2, <2>2, AppendProperties
  <2>4. Enqueue([gone EXCEPT !.outs = a])
    BY <1>5 DEF RemoveOutput
  <2> HIDE DEF a
  <2>5. [gone EXCEPT !.outs = a] \in GoneType
    BY <1>1, <1>3, <2>3
  <2> QED BY <2>4, <2>5, EnqueueKeeps
<1>6. ASSUME NEW input \in BOOLEAN, NEW v \in DOMAIN List(fuzzy, input),
             NEW t \in DOMAIN List(fuzzy, input)[v].terms, RemoveTerm(input, v, t)
      PROVE  EngineInv'
  <2> DEFINE x == List(fuzzy, input)[v]
             q == [input |-> input, var |-> x.id, term |-> x.terms[t]]
             b == Append(gone.terms, q)
  <2>1. List(fuzzy, input) \in Seq(Variable)
    BY <1>1 DEF List
  <2>2. x \in Variable
    BY <2>1, CountsType
  <2>3. Enqueue([gone EXCEPT !.terms = b])
    BY <1>6 DEF RemoveTerm, List
  <2>4. t \in DOMAIN x.terms
    OBVIOUS
  <2> HIDE DEF x
  <2>5. x.id \in Nat /\ x.terms \in Seq(Nat)
    BY <2>2 DEF Variable
  <2>6. x.terms[t] \in Nat
    BY <2>4, <2>5, ElementOfSeq, LenProperties
  <2>7. q \in TermQueued
    BY <2>5, <2>6 DEF TermQueued
  <2> HIDE DEF q
  <2>8. b \in Seq(TermQueued)
    BY <1>2, <2>7, AppendProperties
  <2> HIDE DEF b
  <2>9. [gone EXCEPT !.terms = b] \in GoneType
    BY <1>1, <1>3, <2>8
  <2> QED BY <2>3, <2>9, EnqueueKeeps
<1> QED BY <1>4, <1>5, <1>6

LEMMA SettingsKeep ==
    ASSUME EngineInv,
           \/ \E n \in Hits : SetStabilizationHits(n)
           \/ SetLearnDisabled \/ SetChangeCallback \/ SetAutoBalance
           \/ \E n \in Sizes : SetMaxMemory(n)
    PROVE  EngineInv'
<1>1. EngineShape(eng)
  BY DEF EngineInv, EngineTypeOK
<1>2. ASSUME NEW e, NEW n \in Hits, NEW learn, NEW listens, NEW auto, NEW max, NEW stab,
             stab = eng.stab \/ stab = n,
             e = [hits |-> eng.hits, stab |-> stab, called |-> eng.called,
                  last |-> eng.last, learn |-> learn, listens |-> listens,
                  auto |-> auto, max |-> max]
      PROVE  /\ EngineShape(e) /\ e.last = eng.last /\ e.hits = eng.hits
             /\ e.called = eng.called
  <2>1. /\ e.last = eng.last /\ e.hits = eng.hits /\ e.called = eng.called /\ e.stab = stab
        /\ e.learn = learn /\ e.listens = listens /\ e.auto = auto /\ e.max = max
    BY <1>2
  <2>2. stab \in Hits \cup {0}
    BY <1>1, <1>2 DEF EngineShape
  <2> QED BY <1>1, <1>2, <2>1, <2>2 DEF EngineShape
<1>3. ASSUME NEW e, NEW learn, NEW listens, NEW auto, NEW max,
             e = [hits |-> eng.hits, stab |-> eng.stab, called |-> eng.called,
                  last |-> eng.last, learn |-> learn, listens |-> listens,
                  auto |-> auto, max |-> max]
      PROVE  /\ EngineShape(e) /\ e.last = eng.last /\ e.hits = eng.hits
             /\ e.called = eng.called
  <2>1. /\ e.last = eng.last /\ e.hits = eng.hits /\ e.called = eng.called
        /\ e.stab = eng.stab /\ e.learn = learn /\ e.listens = listens /\ e.auto = auto
        /\ e.max = max
    BY <1>3
  <2> QED BY <1>1, <1>3, <2>1 DEF EngineShape
<1>4. eng = [hits |-> eng.hits, stab |-> eng.stab, called |-> eng.called,
             last |-> eng.last, learn |-> eng.learn, listens |-> eng.listens,
             auto |-> eng.auto, max |-> eng.max]
  BY <1>1 DEF EngineShape
<1>5. ASSUME NEW n \in Hits, SetStabilizationHits(n) PROVE EngineInv'
  <2> DEFINE e == [eng EXCEPT !.stab = n]
  <2>1. Configure(e)
    BY <1>5 DEF SetStabilizationHits
  <2>2. e = [hits |-> eng.hits, stab |-> n, called |-> eng.called,
             last |-> eng.last, learn |-> eng.learn, listens |-> eng.listens,
             auto |-> eng.auto, max |-> eng.max]
    BY <1>4
  <2> HIDE DEF e
  <2>3. /\ EngineShape(e) /\ e.last = eng.last /\ e.hits = eng.hits
        /\ e.called = eng.called
    BY <1>2, <2>2
  <2> QED BY <2>1, <2>3, ConfigureKeeps
<1>6. CASE SetLearnDisabled
  <2> DEFINE e == [eng EXCEPT !.learn = ~@]
  <2>1. Configure(e)
    BY <1>6 DEF SetLearnDisabled
  <2>2. e = [hits |-> eng.hits, stab |-> eng.stab, called |-> eng.called,
             last |-> eng.last, learn |-> ~eng.learn, listens |-> eng.listens,
             auto |-> eng.auto, max |-> eng.max]
    BY <1>4
  <2> HIDE DEF e
  <2>3. EngineShape(e) /\ e.last = eng.last /\ e.hits = eng.hits /\ e.called = eng.called
    BY <1>3, <2>2
  <2> QED BY <2>1, <2>3, ConfigureKeeps
<1>7. CASE SetChangeCallback
  <2> DEFINE e == [eng EXCEPT !.listens = ~@]
  <2>1. Configure(e)
    BY <1>7 DEF SetChangeCallback
  <2>2. e = [hits |-> eng.hits, stab |-> eng.stab, called |-> eng.called,
             last |-> eng.last, learn |-> eng.learn, listens |-> ~eng.listens,
             auto |-> eng.auto, max |-> eng.max]
    BY <1>4
  <2> HIDE DEF e
  <2>3. EngineShape(e) /\ e.last = eng.last /\ e.hits = eng.hits /\ e.called = eng.called
    BY <1>3, <2>2
  <2> QED BY <2>1, <2>3, ConfigureKeeps
<1>8. CASE SetAutoBalance
  <2> DEFINE e == [eng EXCEPT !.auto = ~@]
  <2>1. Configure(e)
    BY <1>8 DEF SetAutoBalance
  <2>2. e = [hits |-> eng.hits, stab |-> eng.stab, called |-> eng.called,
             last |-> eng.last, learn |-> eng.learn, listens |-> eng.listens,
             auto |-> ~eng.auto, max |-> eng.max]
    BY <1>4
  <2> HIDE DEF e
  <2>3. EngineShape(e) /\ e.last = eng.last /\ e.hits = eng.hits /\ e.called = eng.called
    BY <1>3, <2>2
  <2> QED BY <2>1, <2>3, ConfigureKeeps
<1>9. ASSUME NEW n \in Sizes, SetMaxMemory(n) PROVE EngineInv'
  <2> DEFINE e == [eng EXCEPT !.max = n]
  <2>1. Configure(e)
    BY <1>9 DEF SetMaxMemory
  <2>2. e = [hits |-> eng.hits, stab |-> eng.stab, called |-> eng.called,
             last |-> eng.last, learn |-> eng.learn, listens |-> eng.listens,
             auto |-> eng.auto, max |-> n]
    BY <1>4
  <2> HIDE DEF e
  <2>3. EngineShape(e) /\ e.last = eng.last /\ e.hits = eng.hits /\ e.called = eng.called
    BY <1>3, <2>2
  <2> QED BY <2>1, <2>3, ConfigureKeeps
<1> QED BY <1>5, <1>6, <1>7, <1>8, <1>9

\* Nothing is compared with what was read before.
LEMMA FreshStartsKeep ==
    ASSUME EngineInv, EraseKnowledge \/ LoadFllFile \/ SaveFails
    PROVE  EngineInv'
<1>1. /\ fuzzy \in Fuzzy /\ gone \in GoneType /\ EngineShape(eng) /\ HistoryShape(hist)
      /\ pc \in {"idle", "reading", "announcing", "crash"} /\ Covers(fuzzy)
      /\ Steady(fuzzy, eng, hist) /\ Remembered(eng, hist, pc)
  BY DEF EngineInv, EngineTypeOK
<1>2. CASE EraseKnowledge
  <2> DEFINE e == [eng EXCEPT !.last = None, !.hits = 0]
             h == [hist EXCEPT !.prev = None, !.same = 0, !.told = FALSE]
  <2>1. eng' = e /\ hist' = h /\ fuzzy' = fuzzy /\ gone' = gone /\ pc' = pc
    BY <1>2 DEF EraseKnowledge
  <2>2. eng = [hits |-> eng.hits, stab |-> eng.stab, called |-> eng.called,
               last |-> eng.last, learn |-> eng.learn, listens |-> eng.listens,
               auto |-> eng.auto, max |-> eng.max]
    BY <1>1 DEF EngineShape
  <2>3. e = [hits |-> 0, stab |-> eng.stab, called |-> eng.called,
             last |-> None, learn |-> eng.learn, listens |-> eng.listens,
             auto |-> eng.auto, max |-> eng.max]
    <3>1. e = [eng EXCEPT !.last = None, !.hits = 0]
      OBVIOUS
    <3> HIDE DEF e, h
    <3> QED BY <2>2, <3>1
  <2>4. hist = [prev |-> hist.prev, same |-> hist.same, sure |-> hist.sure,
                told |-> hist.told, rash |-> hist.rash]
    BY <1>1 DEF HistoryShape
  <2>5. h = [prev |-> None, same |-> 0, sure |-> hist.sure, told |-> FALSE,
             rash |-> hist.rash]
    <3>1. h = [hist EXCEPT !.prev = None, !.same = 0, !.told = FALSE]
      OBVIOUS
    <3> HIDE DEF e, h
    <3> QED BY <2>4, <3>1
  <2> HIDE DEF e, h
  <2>6. HitsRange \in Nat \ {0}
    BY EngineAssumption
  <2>7. EngineShape(e) /\ e.last = None /\ e.hits = 0
    BY <1>1, <2>3, <2>6 DEF EngineShape
  <2>8. /\ HistoryShape(h) /\ h.prev = None /\ h.same = 0 /\ ~h.told /\ h.rash = hist.rash
    BY <1>1, <2>5, <2>6 DEF HistoryShape
  <2>9. Steady(fuzzy, e, h) /\ Remembered(e, h, pc)
    BY <1>1, <2>7, <2>8 DEF Steady, Remembered
  <2> QED BY <1>1, <2>1, <2>7, <2>8, <2>9 DEF EngineInv, EngineTypeOK
<1>3. CASE LoadFllFile
  <2> DEFINE f == Loaded(InLayout, OutLayout)
             h == Reshaped(hist)
             q == [ins |-> <<>>, outs |-> <<>>, terms |-> <<>>]
  <2>1. eng' = eng /\ hist' = h /\ fuzzy' = f /\ gone' = q /\ pc' = pc
    BY <1>3 DEF LoadFllFile
  <2>2. f \in Fuzzy /\ Covers(f)
    BY LoadedKeeps
  <2>3. q \in GoneType
    BY DEF GoneType
  <2>4. /\ HistoryShape(h) /\ h.prev = None /\ h.same = 0
        /\ ~h.sure /\ ~h.told /\ h.rash = hist.rash
    BY <1>1, ReshapedIs
  <2> HIDE DEF f, h, q
  <2>5. Steady(f, eng, h) /\ Remembered(eng, h, pc)
    BY <1>1, <2>4 DEF Steady, Remembered
  <2> QED BY <1>1, <2>1, <2>2, <2>3, <2>4, <2>5 DEF EngineInv, EngineTypeOK
<1>4. CASE SaveFails
  <2>1. UNCHANGED <<fuzzy, eng, gone, pc, hist>>
    BY <1>4 DEF SaveFails
  <2> QED BY <2>1 DEF EngineInv, EngineTypeOK
<1> QED BY <1>2, <1>3, <1>4

LEMMA ClientKeeps ==
    ASSUME EngineInv, Client
    PROVE  EngineInv'
<1>1. List(fuzzy, TRUE) = fuzzy.ins /\ List(fuzzy, FALSE) = fuzzy.outs
  BY DEF List
<1>2. ASSUME NEW v \in DOMAIN fuzzy.ins, AddTerm(TRUE, v) PROVE EngineInv'
  BY <1>1, <1>2, AddTermKeeps
<1>3. ASSUME NEW v \in DOMAIN fuzzy.outs, AddTerm(FALSE, v) PROVE EngineInv'
  BY <1>1, <1>3, AddTermKeeps
<1>4. ASSUME NEW v \in DOMAIN fuzzy.ins, NEW t \in DOMAIN fuzzy.ins[v].terms,
             RemoveTerm(TRUE, v, t)
      PROVE  EngineInv'
  BY <1>1, <1>4, RemovalCallsKeep
<1>5. ASSUME NEW v \in DOMAIN fuzzy.outs, NEW t \in DOMAIN fuzzy.outs[v].terms,
             RemoveTerm(FALSE, v, t)
      PROVE  EngineInv'
  BY <1>1, <1>5, RemovalCallsKeep
<1>6. CASE AddInput \/ AddOutput
  BY <1>6, VariableCallsKeep
<1>7. ASSUME NEW v \in DOMAIN fuzzy.ins, AddTerm(TRUE, v) \/ RemoveInput(v) \/ SetEnabled(v)
      PROVE  EngineInv'
  BY <1>2, <1>7, RemovalCallsKeep, SetEnabledKeeps
<1>8. ASSUME NEW v \in DOMAIN fuzzy.outs, AddTerm(FALSE, v) \/ RemoveOutput(v)
      PROVE  EngineInv'
  BY <1>3, <1>8, RemovalCallsKeep
<1>9. CASE \/ \E n \in Hits : SetStabilizationHits(n)
           \/ SetLearnDisabled \/ SetChangeCallback \/ SetAutoBalance
           \/ \E n \in Sizes : SetMaxMemory(n)
  BY <1>9, SettingsKeep
<1>10. CASE EraseKnowledge \/ LoadFllFile \/ SaveFails
  BY <1>10, FreshStartsKeep
<1> QED BY <1>4, <1>5, <1>6, <1>7, <1>8, <1>9, <1>10 DEF Client

-----------------------------------------------------------------------------
(* Theorems                                                                *)

THEOREM EngineStarts == EngineInit => EngineInv
<1> SUFFICES ASSUME EngineInit PROVE EngineInv
  OBVIOUS
<1>1. HitsRange \in Nat \ {0}
  BY EngineAssumption
<1>2. fuzzy \in Fuzzy /\ Covers(fuzzy)
  BY LoadedKeeps DEF EngineInit
<1>3. gone \in GoneType
  BY DEF EngineInit, GoneType
<1>4. EngineShape(eng) /\ eng.last = None /\ eng.hits = 0
  BY <1>1 DEF EngineInit, EngineShape
<1>5. /\ HistoryShape(hist) /\ hist.prev = None /\ hist.same = 0 /\ ~hist.told /\ ~hist.rash
  BY <1>1 DEF EngineInit, HistoryShape
<1>6. Steady(fuzzy, eng, hist) /\ Remembered(eng, hist, pc)
  BY <1>4, <1>5 DEF Steady, Remembered
<1>7. pc = "idle"
  BY DEF EngineInit
<1> QED BY <1>2, <1>3, <1>4, <1>5, <1>6, <1>7 DEF EngineInv, EngineTypeOK

\* The invariant holds always.
THEOREM EngineSteady == EngineSpec => []EngineInv
<1>1. EngineInv /\ [EngineNext]_engineVars => EngineInv'
  <2> SUFFICES ASSUME EngineInv, [EngineNext]_engineVars PROVE EngineInv'
    OBVIOUS
  <2>1. CASE Process
    BY <2>1, ProcessKeeps
  <2>2. CASE Client
    BY <2>2, ClientKeeps
  <2>3. CASE UNCHANGED engineVars
    BY <2>3 DEF engineVars, EngineInv, EngineTypeOK
  <2> QED BY <2>1, <2>2, <2>3 DEF EngineNext
<1> QED BY <1>1, EngineStarts, PTL DEF EngineSpec

\* Whatever variables and terms come and go, and however the removals fail:
\* the counts that arrays are sized by cover the terms there are
\* (sml_rule_group.c:sml_rule_group_rule_generate).
THEOREM EngineCountsCover == EngineSpec => []CountsCover
<1>1. EngineInv => CountsCover
  <2>1. View(fuzzy).inTerms = Counts(fuzzy.ins) /\ View(fuzzy).outTerms = Counts(fuzzy.outs)
    BY DEF View, Counts
  <2> QED BY <2>1 DEF EngineInv, Covers, CountsCover
<1> QED BY <1>1, EngineSteady, PTL

\* Nothing is learnt or acted on that was not read stabilization_hits + 1
\* times in a row, for any number of hits and any calls in between
\* (sml_fuzzy.c:_pre_process).
THEOREM EngineLearnsStable == EngineSpec => []LearnsStable
<1>1. EngineInv => LearnsStable
  BY DEF EngineInv, Steady, LearnsStable
<1> QED BY <1>1, EngineSteady, PTL

\* The client is told once of a scenario (sml_fuzzy.c:_pre_process, where
\* output_state_changed_called is kept).
THEOREM EngineNeverNags == EngineSpec => NoNagging
<1> DEFINE A == pc = "reading" /\ pc' = "announcing" => ~Heard(hist, eng'.last).told
<1>1. EngineInv /\ [EngineNext]_engineVars => [A]_engineVars
  <2> SUFFICES ASSUME EngineInv, EngineNext, pc = "reading", pc' = "announcing"
               PROVE  ~Heard(hist, eng'.last).told
    OBVIOUS
  <2> DEFINE f == TermsInitialized(fuzzy, Len(Termless(fuzzy)))
  <2>1. PICK m \in Readings(View(f)) : Announces(m, f)
    <3>1. ~Client
      BY DEF Client, AddInput, AddOutput, AddTerm, RemoveInput, RemoveOutput, RemoveTerm,
             SetEnabled, SetStabilizationHits, SetLearnDisabled, SetChangeCallback,
             SetAutoBalance, SetMaxMemory, EraseKnowledge, LoadFllFile, SaveFails,
             Reshape, Configure, Enqueue
    <3>2. ~Start /\ ~ReadFails /\ \A n : ~InitializeFails(n)
      BY DEF Start, ReadFails, InitializeFails, Ends
    <3>3. ~ReadNothing(f)
      BY FinishEnds DEF ReadNothing
    <3>4. ASSUME NEW m, NEW grows
          PROVE  ~ReadUnstable(m, f) /\ ~ReadLearns(m, f, grows) /\ ~ActFails(m, f)
                 /\ ~Announced(grows)
      <4>1. ~ReadUnstable(m, f)
        BY FinishEnds DEF ReadUnstable
      <4>2. ~ReadLearns(m, f, grows)
        BY FinishEnds DEF ReadLearns
      <4>3. ~ActFails(m, f) /\ ~Announced(grows)
        BY DEF ActFails, Announced
      <4> QED BY <4>1, <4>2, <4>3
    <3> HIDE DEF f
    <3> QED BY <3>1, <3>2, <3>3, <3>4 DEF EngineNext, Process, f
  <2>2. /\ eng' = Settled(m) /\ ~MustLearn(m)
    BY <2>1 DEF Announces
  <2>3. f \in Fuzzy
    BY TermsLaid DEF LaidOver
  <2>4. ReadingOf(f, m)
    BY <2>1, ReadingsOf
  <2> HIDE DEF f
  <2>5. EngineShape(Measured(eng, m)) /\ (Heard(hist, m).told => Measured(eng, m).called)
    BY <2>3, <2>4, ReadingHeard
  <2>6. ~Measured(eng, m).called
    BY <2>2 DEF MustLearn
  <2>7. eng'.last = m
    <3> DEFINE e == Measured(eng, m)
    <3>1. eng' = [e EXCEPT !.hits = 0, !.last = m]
      BY <2>2 DEF Settled
    <3>2. e = [hits |-> e.hits, stab |-> e.stab, called |-> e.called, last |-> e.last,
               learn |-> e.learn, listens |-> e.listens, auto |-> e.auto, max |-> e.max]
      BY <2>5 DEF EngineShape
    <3> HIDE DEF e
    <3>3. eng' = [hits |-> 0, stab |-> e.stab, called |-> e.called, last |-> m,
                  learn |-> e.learn, listens |-> e.listens, auto |-> e.auto, max |-> e.max]
      BY <3>1, <3>2
    <3> QED BY <3>3
  <2> QED BY <2>5, <2>6, <2>7
<1> QED BY <1>1, EngineSteady, PTL DEF EngineSpec, NoNagging
=============================================================================
