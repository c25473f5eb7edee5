----------------------------- MODULE SeqLemmas -----------------------------
(***************************************************************************)
(* Facts about sequences the proofs of several components rest on: what    *)
(* the vectors of the code look like after an element was taken out, which *)
(* elements they hold, and what comes of running through them.             *)
(***************************************************************************)
EXTENDS Integers, Sequences, WellFoundedInduction, TLAPS

CONSTANTS FoldOp(_, _, _),   \* the step of a fold: context, value, element
          FoldInv(_, _),     \* what it keeps of the value, in that context
          FoldAt(_, _, _)    \* what holds of the value after so many steps

\* The elements of a sequence are of its set.
LEMMA LengthIs ==
    ASSUME NEW S, NEW s \in Seq(S)
    PROVE  Len(s) \in Nat /\ DOMAIN s = 1..Len(s) /\ \A n \in 1..Len(s) : s[n] \in S
OBVIOUS

LEMMA ConcatIs ==
    ASSUME NEW S, NEW s \in Seq(S), NEW t \in Seq(S)
    PROVE  /\ s \o t \in Seq(S)
           /\ Len(s \o t) = Len(s) + Len(t)
           /\ \A j \in 1..Len(s) + Len(t) :
                 (s \o t)[j] = IF j <= Len(s) THEN s[j] ELSE t[j - Len(s)]
OBVIOUS

\* RemoveAt of the community modules, under a name of its own.
Cut(s, i) == SubSeq(s, 1, i - 1) \o SubSeq(s, i + 1, Len(s))

\* Taking one element out of a sequence keeps the others in order.
LEMMA CutProperties ==
    ASSUME NEW S, NEW s \in Seq(S), NEW i \in 1..Len(s)
    PROVE  /\ Cut(s, i) \in Seq(S)
           /\ Len(Cut(s, i)) = Len(s) - 1
           /\ \A j \in 1..i - 1 : Cut(s, i)[j] = s[j]
           /\ \A j \in i..Len(s) - 1 : Cut(s, i)[j] = s[j + 1]
<1> DEFINE front == SubSeq(s, 1, i - 1)
           back == SubSeq(s, i + 1, Len(s))
<1>1. Len(s) \in Nat
  OBVIOUS
<1>2. /\ front \in Seq(S)
      /\ Len(front) = i - 1
      /\ \A j \in 1..i - 1 : front[j] = s[j]
  BY <1>1
<1>3. /\ back \in Seq(S)
      /\ Len(back) = Len(s) - i
      /\ \A j \in 1..Len(s) - i : back[j] = s[i + j]
  BY <1>1
<1>4. Cut(s, i) = front \o back
  BY DEF Cut
<1> HIDE DEF front, back
<1>5. /\ front \o back \in Seq(S)
      /\ Len(front \o back) = Len(front) + Len(back)
      /\ \A j \in 1..Len(front) + Len(back) :
            (front \o back)[j] = IF j <= Len(front) THEN front[j]
                                                   ELSE back[j - Len(front)]
  BY ConcatIs, <1>2, <1>3
<1> DEFINE both == front \o back
<1> HIDE DEF both
<1>6. Len(both) = Len(s) - 1
  BY <1>1, <1>2, <1>3, <1>5 DEF both
<1>7. ASSUME NEW j \in 1..i - 1 PROVE both[j] = s[j]
  BY <1>1, <1>2, <1>3, <1>5 DEF both
<1>8. ASSUME NEW j \in i..Len(s) - 1 PROVE both[j] = s[j + 1]
  <2>1. /\ j - (i - 1) \in 1..Len(s) - i
        /\ i + (j - (i - 1)) = j + 1
        /\ j \in 1..Len(front) + Len(back)
        /\ ~(j <= Len(front))
        /\ j - Len(front) = j - (i - 1)
    BY <1>1, <1>2, <1>3
  <2>2. both[j] = back[j - (i - 1)]
    BY <2>1, <1>5 DEF both
  <2> QED BY <2>1, <2>2, <1>3
<1> QED BY <1>4, <1>5, <1>6, <1>7, <1>8 DEF both

\* What a sequence holds, ToSet of the community modules.
Held(s) == {s[i] : i \in DOMAIN s}

\* A sequence is empty exactly when it holds nothing.
LEMMA HeldEmpty ==
    ASSUME NEW S, NEW s \in Seq(S)
    PROVE  /\ Held(s) \subseteq S
           /\ Held(s) = {} <=> s = <<>>
           /\ s # <<>> => s[1] \in Held(s)
<1>1. DOMAIN s = 1..Len(s) /\ Len(s) \in Nat
  BY LengthIs
<1>2. s # <<>> => Len(s) \in Nat \ {0}
  OBVIOUS
<1>3. s # <<>> => 1 \in DOMAIN s
  BY <1>1, <1>2
<1>4. s = <<>> => Held(s) = {}
  BY DEF Held
<1>5. \A i \in DOMAIN s : s[i] \in S
  BY <1>1, LengthIs
<1> QED BY <1>3, <1>4, <1>5 DEF Held

\* Appending adds one element.
LEMMA HeldAppend ==
    ASSUME NEW S, NEW s \in Seq(S), NEW e \in S
    PROVE  Held(Append(s, e)) = Held(s) \cup {e}
<1>1. /\ DOMAIN s = 1..Len(s) /\ Len(s) \in Nat
      /\ DOMAIN Append(s, e) = 1..Len(s) + 1
      /\ \A i \in 1..Len(s) : Append(s, e)[i] = s[i]
      /\ Append(s, e)[Len(s) + 1] = e
  OBVIOUS
<1>2. 1..Len(s) + 1 = 1..Len(s) \cup {Len(s) + 1}
  BY <1>1
<1> QED BY <1>1, <1>2 DEF Held

-----------------------------------------------------------------------------
(* Folds.  The models run through vectors and queues with FoldLeft, whose  *)
(* definition is a recursive function on the sets of positions.  FoldOp    *)
(* stands for the step, with a context c that the step does not change,    *)
(* and FoldInv for what the step keeps; a module about a fold of its own   *)
(* instantiates this one with both.  Folded is FoldLeft, spelled out.      *)

Largest(s) == CHOOSE m \in s : \A n \in s : m >= n

IterEq(f, c, base, seq, D) ==
    f = [s \in SUBSET D |->
            IF s = {} THEN base ELSE FoldOp(c, f[s \ {Largest(s)}], seq[Largest(s)])]

Folded(c, base, seq) == (CHOOSE f : IterEq(f, c, base, seq, DOMAIN seq))[DOMAIN seq]

\* A set of naturals that holds something has a least element.
LEMMA LeastElement ==
    \A T \in SUBSET Nat : T # {} => \E x \in T : \A y \in T : x <= y
<1> SUFFICES ASSUME NEW T \in SUBSET Nat, T # {} PROVE \E x \in T : \A y \in T : x <= y
  OBVIOUS
<1> DEFINE R == OpToRel(<, Nat)
<1>1. \E x \in T : \A y \in T : ~(<<y, x>> \in R)
  <2>1. IsWellFoundedOn(R, Nat)
    BY NatLessThanWellFounded
  <2> HIDE DEF R
  <2> QED BY <2>1, WFMin
<1>2. \A x \in Nat, y \in Nat : y < x => <<y, x>> \in R
  BY DEF OpToRel
<1> HIDE DEF R
<1>3. PICK x \in T : \A y \in T : ~(<<y, x>> \in R)
  BY <1>1
<1>4. ASSUME NEW y \in T PROVE x <= y
  <2>1. x \in Nat /\ y \in Nat /\ ~(y < x)
    BY <1>2, <1>3
  <2> QED BY <2>1
<1> QED BY <1>4

\* Induction, over a set instead of a predicate: from the least element of
\* what is not in it.
LEMMA SetInduction ==
    ASSUME NEW S, 0 \in S, \A n \in Nat : n \in S => n + 1 \in S
    PROVE  Nat \subseteq S
<1> DEFINE T == Nat \ S
<1> SUFFICES ASSUME T # {} PROVE FALSE
  OBVIOUS
<1>1. PICK x \in T : \A y \in T : x <= y
  BY LeastElement
<1>2. x \in Nat \ {0} /\ x \notin S
  OBVIOUS
<1>3. x - 1 \in Nat /\ ~(x <= x - 1) /\ (x - 1) + 1 = x
  BY <1>2
<1>4. x - 1 \in S
  BY <1>1, <1>3
<1> QED BY <1>2, <1>3, <1>4

\* A set of positions has a largest one.
LEMMA LargestExists ==
    \A n \in Nat : \A s \in SUBSET (1..n) :
        s # {} => Largest(s) \in s /\ \A y \in s : y <= Largest(s)
<1> DEFINE Q == {n \in Nat : \A s \in SUBSET (1..n) : s # {} => \E x \in s : \A y \in s : y <= x}
<1>1. 0 \in Q
  <2>1. 1..0 = {}
    OBVIOUS
  <2> QED BY <2>1
<1>2. ASSUME NEW n \in Nat, n \in Q PROVE n + 1 \in Q
  <2> SUFFICES ASSUME NEW s \in SUBSET (1..n+1), s # {} PROVE \E x \in s : \A y \in s : y <= x
    OBVIOUS
  <2>1. CASE n + 1 \in s
    BY <2>1
  <2>2. CASE n + 1 \notin s
    <3>1. s \in SUBSET (1..n)
      BY <2>2
    <3> QED BY <1>2, <3>1
  <2> QED BY <2>1, <2>2
<1> HIDE DEF Q
<1>3. Nat \subseteq Q
  BY <1>1, <1>2, SetInduction
<1>4. ASSUME NEW n \in Nat, NEW s \in SUBSET (1..n), s # {}
      PROVE  Largest(s) \in s /\ \A y \in s : y <= Largest(s)
  <2>1. PICK x \in s : \A y \in s : y <= x
    BY <1>3, <1>4 DEF Q
  <2>2. \A y \in s : x >= y
    <3>1. \A y \in s : y \in Int
      OBVIOUS
    <3> QED BY <2>1, <3>1
  <2>3. Largest(s) \in s /\ \A y \in s : Largest(s) >= y
    BY <2>2 DEF Largest
  <2>4. \A y \in s : y \in Int
    OBVIOUS
  <2> QED BY <2>3, <2>4
<1> QED BY <1>4


LEMMA LargestLast ==
    ASSUME NEW n \in Nat, NEW s \in SUBSET (1..n + 1), n + 1 \in s
    PROVE  Largest(s) = n + 1
<1>1. Largest(s) \in s /\ n + 1 <= Largest(s)
  <2>1. n + 1 \in Nat /\ s # {}
    OBVIOUS
  <2> QED BY <2>1, LargestExists
<1>2. Largest(s) \in 1..n+1
  BY <1>1
<1> QED BY <1>1, <1>2

\* There is a function that satisfies the equation.
LEMMA IterExists ==
    ASSUME NEW c, NEW base, NEW seq
    PROVE  \A n \in Nat : \E f : IterEq(f, c, base, seq, 1..n)
<1> DEFINE Q == {n \in Nat : \E f : IterEq(f, c, base, seq, 1..n)}
<1>1. 0 \in Q
  <2> DEFINE f == [s \in SUBSET (1..0) |-> base]
  <2>1. 1..0 = {} /\ SUBSET (1..0) = {{}}
    OBVIOUS
  <2>2. IterEq(f, c, base, seq, 1..0)
    BY <2>1 DEF IterEq
  <2> QED BY <2>2
<1>2. ASSUME NEW n \in Nat, n \in Q PROVE n + 1 \in Q
  <2>1. PICK f : IterEq(f, c, base, seq, 1..n)
    BY <1>2
  <2> DEFINE g == [s \in SUBSET (1..n+1) |->
                     IF n + 1 \in s THEN FoldOp(c, f[s \ {n+1}], seq[n+1]) ELSE f[s]]
  <2>2. ASSUME NEW s \in SUBSET (1..n+1)
        PROVE  g[s] = IF s = {} THEN base ELSE FoldOp(c, g[s \ {Largest(s)}], seq[Largest(s)])
    <3>1. CASE n + 1 \in s
      <4>1. Largest(s) = n + 1
        BY <3>1, LargestLast
      <4>2. n + 1 \notin s \ {n + 1} /\ s \ {n + 1} \in SUBSET (1..n+1)
        OBVIOUS
      <4>3. g[s \ {n + 1}] = f[s \ {n + 1}]
        BY <4>2
      <4>4. g[s] = FoldOp(c, f[s \ {n+1}], seq[n+1])
        BY <3>1
      <4> QED BY <3>1, <4>1, <4>3, <4>4
    <3>2. CASE n + 1 \notin s
      <4>1. s \in SUBSET (1..n) 
        BY <3>2
      <4>2. ASSUME NEW m PROVE s \ {m} \in SUBSET (1..n) /\ n + 1 \notin s \ {m}
        <5>1. s \ {m} \in SUBSET (1..n)
          BY <4>1
        <5>2. n + 1 \notin s \ {m}
          BY <3>2
        <5> QED BY <5>1, <5>2
      <4>3. s \ {Largest(s)} \in SUBSET (1..n+1)
        OBVIOUS
      <4>4. f[s] = IF s = {} THEN base ELSE FoldOp(c, f[s \ {Largest(s)}], seq[Largest(s)])
        BY <2>1, <4>1 DEF IterEq
      <4>5. g[s] = f[s] /\ g[s \ {Largest(s)}] = f[s \ {Largest(s)}]
        BY <3>2, <4>1, <4>2, <4>3
      <4> QED BY <4>4, <4>5
    <3> QED BY <3>1, <3>2
  <2>3. g = [s \in SUBSET (1..n+1) |-> g[s]]
    OBVIOUS
  <2> HIDE DEF g
  <2>4. IterEq(g, c, base, seq, 1..n+1)
    BY <2>2, <2>3 DEF IterEq
  <2> QED BY <2>4
<1> HIDE DEF Q
<1>3. Nat \subseteq Q
  BY <1>1, <1>2, SetInduction
<1> QED BY <1>3 DEF Q

\* h[0], h[1], ... are the values a fold runs through.
Runs(c, base, seq, h) ==
    /\ h[0] = base
    /\ \A n \in 1..Len(seq) : h[n] = FoldOp(c, h[n - 1], seq[n])
    /\ Folded(c, base, seq) = h[Len(seq)]

\* Every fold runs through such values.
LEMMA FoldRun ==
    ASSUME NEW c, NEW base, NEW S, NEW seq \in Seq(S)
    PROVE  \E h : Runs(c, base, seq, h)
<1> DEFINE f == CHOOSE f : IterEq(f, c, base, seq, 1..Len(seq))
           h == [n \in 0..Len(seq) |-> f[1..n]]
<1>1. Len(seq) \in Nat /\ DOMAIN seq = 1..Len(seq)
  BY LengthIs
<1>2. IterEq(f, c, base, seq, 1..Len(seq))
  BY <1>1, IterExists
<1>3. Folded(c, base, seq) = f[1..Len(seq)]
  BY <1>1 DEF Folded
<1> HIDE DEF f
<1>4. \A s \in SUBSET (1..Len(seq)) :
         f[s] = IF s = {} THEN base ELSE FoldOp(c, f[s \ {Largest(s)}], seq[Largest(s)])
  BY <1>2 DEF IterEq
<1>5. h[0] = base
  <2>1. 1..0 = {} /\ 0 \in 0..Len(seq)
    BY <1>1
  <2> QED BY <1>4, <2>1
<1>6. ASSUME NEW n \in 1..Len(seq) PROVE h[n] = FoldOp(c, h[n - 1], seq[n])
  <2>1. /\ n \in 0..Len(seq) /\ n - 1 \in 0..Len(seq) /\ n - 1 \in Nat /\ (n - 1) + 1 = n
        /\ n \in 1..n
    BY <1>1
  <2>2. Largest(1..n) = n
    BY <2>1, LargestLast
  <2>3. (1..n) \ {n} = 1..(n - 1)
    BY <2>1
  <2>5. 1..n \in SUBSET (1..Len(seq)) /\ 1..n # {}
    <3>1. 1..n \subseteq 1..Len(seq)
      BY <1>1
    <3> QED BY <2>1, <3>1
  <2>4. f[1..n] = FoldOp(c, f[1..(n - 1)], seq[n])
    BY <1>4, <2>2, <2>3, <2>5
  <2> QED BY <2>1, <2>4
<1>7. h[Len(seq)] = f[1..Len(seq)]
  BY <1>1
<1> HIDE DEF h
<1>8. Runs(c, base, seq, h)
  BY <1>3, <1>5, <1>6, <1>7 DEF Runs
<1> QED BY <1>8

\* What every step keeps, the fold keeps.
LEMMA FoldKeeps ==
    ASSUME NEW c, NEW base, NEW S, NEW seq \in Seq(S), FoldInv(c, base),
           \A y : \A n \in 1..Len(seq) : FoldInv(c, y) => FoldInv(c, FoldOp(c, y, seq[n]))
    PROVE  FoldInv(c, Folded(c, base, seq))
<1>1. PICK h : Runs(c, base, seq, h)
  BY FoldRun
<1> DEFINE Q == {n \in Nat : n <= Len(seq) => FoldInv(c, h[n])}
<1>2. Len(seq) \in Nat
  BY LengthIs
<1>3. 0 \in Q
  BY <1>1 DEF Runs
<1>4. ASSUME NEW n \in Nat, n \in Q PROVE n + 1 \in Q
  <2> SUFFICES ASSUME n + 1 <= Len(seq) PROVE FoldInv(c, h[n + 1])
    OBVIOUS
  <2>1. n + 1 \in 1..Len(seq) /\ (n + 1) - 1 = n /\ n <= Len(seq)
    BY <1>2
  <2>2. FoldInv(c, h[n])
    BY <1>4, <2>1
  <2>3. h[n + 1] = FoldOp(c, h[n], seq[n + 1])
    BY <1>1, <2>1 DEF Runs
  <2> QED BY <2>1, <2>2, <2>3
<1> HIDE DEF Q
<1>5. Nat \subseteq Q
  BY <1>3, <1>4, SetInduction
<1>6. FoldInv(c, h[Len(seq)])
  BY <1>2, <1>5 DEF Q
<1> QED BY <1>1, <1>6 DEF Runs

\* The fold of a longer sequence is one step more.
LEMMA FoldAppend ==
    ASSUME NEW c, NEW base, NEW S, NEW seq \in Seq(S), NEW e \in S
    PROVE  /\ Folded(c, base, <<>>) = base
           /\ Folded(c, base, Append(seq, e)) = FoldOp(c, Folded(c, base, seq), e)
<1>1. Folded(c, base, <<>>) = base
  <2>1. <<>> \in Seq(S) /\ Len(<<>>) = 0
    OBVIOUS
  <2>2. PICK h : h[0] = base /\ Folded(c, base, <<>>) = h[Len(<<>>)]
    <3> DEFINE t == <<>>
    <3>1. t \in Seq(S)
      OBVIOUS
    <3> HIDE DEF t
    <3>2. \E h : h[0] = base /\ Folded(c, base, t) = h[Len(t)]
      BY <3>1, FoldRun DEF Runs
    <3> QED BY <3>2 DEF t
  <2> QED BY <2>1, <2>2
<1> DEFINE t == Append(seq, e)
<1>2. /\ t \in Seq(S) /\ Len(t) = Len(seq) + 1 /\ Len(seq) \in Nat
      /\ \A n \in 1..Len(seq) : t[n] = seq[n]
      /\ t[Len(seq) + 1] = e
  OBVIOUS
<1> HIDE DEF t
<1>3. PICK g : Runs(c, base, t, g)
  <2>1. t \in Seq(S)
    BY <1>2
  <2> QED BY <2>1, FoldRun
<1>4. PICK h : Runs(c, base, seq, h)
  BY FoldRun
<1> DEFINE Q == {n \in Nat : n <= Len(seq) => g[n] = h[n]}
<1>5. 0 \in Q
  BY <1>3, <1>4 DEF Runs
<1>6. ASSUME NEW n \in Nat, n \in Q PROVE n + 1 \in Q
  <2> SUFFICES ASSUME n + 1 <= Len(seq) PROVE g[n + 1] = h[n + 1]
    OBVIOUS
  <2>1. n + 1 \in 1..Len(seq) /\ n + 1 \in 1..Len(t) /\ (n + 1) - 1 = n /\ n <= Len(seq)
    BY <1>2
  <2>2. g[n] = h[n] /\ t[n + 1] = seq[n + 1]
    BY <1>2, <1>6, <2>1
  <2>3. g[n + 1] = FoldOp(c, g[n], t[n + 1]) /\ h[n + 1] = FoldOp(c, h[n], seq[n + 1])
    BY <1>3, <1>4, <2>1 DEF Runs
  <2> QED BY <2>2, <2>3
<1> HIDE DEF Q
<1>7. Nat \subseteq Q
  BY <1>5, <1>6, SetInduction
<1>8. g[Len(seq)] = h[Len(seq)]
  BY <1>2, <1>7 DEF Q
<1>9. Len(t) \in 1..Len(t) /\ Len(t) - 1 = Len(seq)
  BY <1>2
<1>10. g[Len(t)] = FoldOp(c, g[Len(seq)], e)
  BY <1>2, <1>3, <1>9 DEF Runs
<1> QED BY <1>1, <1>3, <1>4, <1>8, <1>10 DEF t, Runs

\* What holds of the value before the first step, and is handed on from one
\* step to the next, holds after the last one.
LEMMA FoldsAlong ==
    ASSUME NEW c, NEW base, NEW S, NEW seq \in Seq(S), FoldAt(c, 0, base),
           \A y : \A n \in 1..Len(seq) :
               FoldAt(c, n - 1, y) => FoldAt(c, n, FoldOp(c, y, seq[n]))
    PROVE  FoldAt(c, Len(seq), Folded(c, base, seq))
<1>1. PICK h : Runs(c, base, seq, h)
  BY FoldRun
<1> DEFINE Q == {n \in Nat : n <= Len(seq) => FoldAt(c, n, h[n])}
<1>2. Len(seq) \in Nat
  BY LengthIs
<1>3. 0 \in Q
  BY <1>1 DEF Runs
<1>4. ASSUME NEW n \in Nat, n \in Q PROVE n + 1 \in Q
  <2> SUFFICES ASSUME n + 1 <= Len(seq) PROVE FoldAt(c, n + 1, h[n + 1])
    OBVIOUS
  <2>1. n + 1 \in 1..Len(seq) /\ (n + 1) - 1 = n /\ n <= Len(seq)
    BY <1>2
  <2>2. FoldAt(c, n, h[n])
    BY <1>4, <2>1
  <2>3. h[n + 1] = FoldOp(c, h[n], seq[n + 1])
    BY <1>1, <2>1 DEF Runs
  <2>4. FoldAt(c, n + 1, FoldOp(c, h[n], seq[n + 1]))
    BY <2>1, <2>2
  <2> QED BY <2>3, <2>4
<1> HIDE DEF Q
<1>5. Nat \subseteq Q
  BY <1>3, <1>4, SetInduction
<1>6. FoldAt(c, Len(seq), h[Len(seq)])
  BY <1>2, <1>5 DEF Q
<1> QED BY <1>1, <1>6 DEF Runs

-----------------------------------------------------------------------------
(* Sums.  The step adds a natural number that depends on the element.      *)

Share(c, x) == FoldOp(c, 0, x)

Additive(c, S) ==
    \A x \in S : Share(c, x) \in Nat /\ \A y \in Nat : FoldOp(c, y, x) = y + Share(c, x)

\* The partial sums.
Sums(c, seq, h) ==
    /\ h[0] = 0
    /\ \A n \in 0..Len(seq) : h[n] \in Nat
    /\ \A n \in 1..Len(seq) : h[n] = h[n - 1] + Share(c, seq[n])
    /\ Folded(c, 0, seq) = h[Len(seq)]

LEMMA SumRun ==
    ASSUME NEW c, NEW S, NEW seq \in Seq(S), Additive(c, S)
    PROVE  \E h : Sums(c, seq, h)
<1>1. PICK h : Runs(c, 0, seq, h)
  BY FoldRun
<1>2. Len(seq) \in Nat /\ \A n \in 1..Len(seq) : seq[n] \in S
  BY LengthIs
<1> DEFINE Q == {n \in Nat : n <= Len(seq) => h[n] \in Nat}
<1>3. 0 \in Q
  BY <1>1 DEF Runs
<1>4. ASSUME NEW n \in 1..Len(seq), h[n - 1] \in Nat
      PROVE  h[n] \in Nat /\ h[n] = h[n - 1] + Share(c, seq[n])
  <2>1. h[n] = FoldOp(c, h[n - 1], seq[n])
    BY <1>1 DEF Runs
  <2>2. Share(c, seq[n]) \in Nat /\ FoldOp(c, h[n - 1], seq[n]) = h[n - 1] + Share(c, seq[n])
    BY <1>2, <1>4 DEF Additive
  <2> QED BY <1>4, <2>1, <2>2
<1>5. ASSUME NEW n \in Nat, n \in Q PROVE n + 1 \in Q
  <2> SUFFICES ASSUME n + 1 <= Len(seq) PROVE h[n + 1] \in Nat
    OBVIOUS
  <2>1. n + 1 \in 1..Len(seq) /\ (n + 1) - 1 = n /\ n <= Len(seq)
    BY <1>2
  <2> QED BY <1>4, <1>5, <2>1
<1> HIDE DEF Q
<1>6. Nat \subseteq Q
  BY <1>3, <1>5, SetInduction
<1>7. ASSUME NEW n \in 0..Len(seq) PROVE h[n] \in Nat
  BY <1>2, <1>6 DEF Q
<1>8. ASSUME NEW n \in 1..Len(seq) PROVE h[n] = h[n - 1] + Share(c, seq[n])
  <2>1. n - 1 \in 0..Len(seq)
    BY <1>2
  <2> QED BY <1>4, <1>7, <2>1
<1> QED BY <1>1, <1>7, <1>8 DEF Sums, Runs

LEMMA SumType ==
    ASSUME NEW c, NEW S, NEW seq \in Seq(S), Additive(c, S)
    PROVE  /\ Folded(c, 0, seq) \in Nat
           /\ Folded(c, 0, <<>>) = 0
<1>1. PICK h : Sums(c, seq, h)
  BY SumRun
<1>2. Len(seq) \in 0..Len(seq)
  BY LengthIs
<1>3. Folded(c, 0, seq) \in Nat
  BY <1>1, <1>2 DEF Sums
<1> DEFINE e == <<>>
<1>4. e \in Seq(S) /\ Len(e) = 0
  OBVIOUS
<1> HIDE DEF e
<1>5. PICK g : Sums(c, e, g)
  BY <1>4, SumRun
<1>6. Folded(c, 0, e) = 0
  BY <1>4, <1>5 DEF Sums
<1> QED BY <1>3, <1>6 DEF e

\* Appending adds the share of the element.
LEMMA SumAppend ==
    ASSUME NEW c, NEW S, NEW seq \in Seq(S), NEW x \in S, Additive(c, S)
    PROVE  Folded(c, 0, Append(seq, x)) = Folded(c, 0, seq) + Share(c, x)
<1>1. Folded(c, 0, Append(seq, x)) = FoldOp(c, Folded(c, 0, seq), x)
  BY FoldAppend
<1>2. Folded(c, 0, seq) \in Nat
  BY SumType
<1> QED BY <1>1, <1>2 DEF Additive

\* What comes after the common part adds nothing.
LEMMA SumPadded ==
    ASSUME NEW c, NEW S, NEW s \in Seq(S), NEW t \in Seq(S), Additive(c, S),
           Len(s) <= Len(t), \A n \in 1..Len(s) : s[n] = t[n],
           \A n \in 1..Len(t) : n > Len(s) => Share(c, t[n]) = 0
    PROVE  Folded(c, 0, s) = Folded(c, 0, t)
<1>1. PICK g : Sums(c, s, g)
  BY SumRun
<1>2. PICK h : Sums(c, t, h)
  BY SumRun
<1>3. Len(s) \in Nat /\ Len(t) \in Nat
  BY LengthIs
<1> DEFINE Q == {n \in Nat : n <= Len(t) => h[n] = g[IF n <= Len(s) THEN n ELSE Len(s)]}
<1>4. 0 \in Q
  BY <1>1, <1>2, <1>3 DEF Sums
<1>5. ASSUME NEW n \in Nat, n \in Q PROVE n + 1 \in Q
  <2> SUFFICES ASSUME n + 1 <= Len(t)
               PROVE  h[n + 1] = g[IF n + 1 <= Len(s) THEN n + 1 ELSE Len(s)]
    OBVIOUS
  <2>1. n + 1 \in 1..Len(t) /\ (n + 1) - 1 = n /\ n <= Len(t)
    BY <1>3
  <2>2. h[n + 1] = h[n] + Share(c, t[n + 1])
    BY <1>2, <2>1 DEF Sums
  <2>3. CASE n + 1 <= Len(s)
    <3>1. n + 1 \in 1..Len(s) /\ n <= Len(s)
      BY <1>3, <2>3
    <3>2. h[n] = g[n]
      BY <1>5, <2>1, <3>1
    <3>3. g[n + 1] = g[n] + Share(c, s[n + 1])
      BY <1>1, <2>1, <3>1 DEF Sums
    <3> QED BY <2>2, <2>3, <3>1, <3>2, <3>3
  <2>4. CASE ~(n + 1 <= Len(s))
    <3>1. n + 1 > Len(s)
      BY <1>3, <2>4
    <3>2. Share(c, t[n + 1]) = 0
      BY <2>1, <3>1
    <3>3. h[n] = g[Len(s)]
      <4>1. n = Len(s) \/ ~(n <= Len(s))
        BY <1>3, <3>1
      <4> QED BY <1>5, <2>1, <4>1
    <3>4. g[Len(s)] \in Nat
      <4>1. Len(s) \in 0..Len(s)
        BY <1>3
      <4> QED BY <1>1, <4>1 DEF Sums
    <3> QED BY <2>2, <2>4, <3>2, <3>3, <3>4
  <2> QED BY <2>3, <2>4
<1> HIDE DEF Q
<1>6. Nat \subseteq Q
  BY <1>4, <1>5, SetInduction
<1>7. h[Len(t)] = g[IF Len(t) <= Len(s) THEN Len(t) ELSE Len(s)]
  BY <1>3, <1>6 DEF Q
<1>8. h[Len(t)] = g[Len(s)]
  <2>1. Len(t) <= Len(s) => Len(t) = Len(s)
    BY <1>3
  <2> QED BY <1>7, <2>1
<1> QED BY <1>1, <1>2, <1>8 DEF Sums

\* Replacing one element exchanges its share.
LEMMA SumExcept ==
    ASSUME NEW c, NEW S, NEW s \in Seq(S), NEW i \in 1..Len(s), NEW x \in S, Additive(c, S)
    PROVE  Folded(c, 0, [s EXCEPT ![i] = x]) + Share(c, s[i]) = Folded(c, 0, s) + Share(c, x)
<1> DEFINE t == [s EXCEPT ![i] = x]
<1>1. /\ t \in Seq(S) /\ Len(t) = Len(s) /\ Len(s) \in Nat
      /\ \A n \in 1..Len(s) : t[n] = IF n = i THEN x ELSE s[n]
  <2>1. DOMAIN s = 1..Len(s) /\ Len(s) \in Nat
    BY LengthIs
  <2>2. t = [n \in 1..Len(s) |-> IF n = i THEN x ELSE s[n]]
    BY <2>1
  <2>3. \A n \in 1..Len(s) : s[n] \in S
    BY LengthIs
  <2> HIDE DEF t
  <2> QED BY <2>1, <2>2, <2>3
<1> HIDE DEF t
<1>2. PICK g : Sums(c, s, g)
  BY SumRun
<1>3. PICK h : Sums(c, t, h)
  <2>1. t \in Seq(S)
    BY <1>1
  <2> QED BY <2>1, SumRun
<1>4. /\ Share(c, x) \in Nat /\ Share(c, s[i]) \in Nat
      /\ \A n \in 1..Len(s) : Share(c, s[n]) \in Nat
  <2>1. \A n \in 1..Len(s) : s[n] \in S
    BY LengthIs
  <2> QED BY <2>1 DEF Additive
<1> DEFINE Q == {n \in Nat : n <= Len(s) =>
                    IF n < i THEN h[n] = g[n] ELSE h[n] + Share(c, s[i]) = g[n] + Share(c, x)}
<1>5. 0 \in Q
  <2>1. 0 < i
    OBVIOUS
  <2> QED BY <1>2, <1>3, <2>1 DEF Sums
<1>6. ASSUME NEW n \in Nat, n \in Q PROVE n + 1 \in Q
  <2> SUFFICES ASSUME n + 1 <= Len(s)
               PROVE  IF n + 1 < i THEN h[n + 1] = g[n + 1]
                      ELSE h[n + 1] + Share(c, s[i]) = g[n + 1] + Share(c, x)
    OBVIOUS
  <2>1. n + 1 \in 1..Len(s) /\ (n + 1) - 1 = n /\ n <= Len(s) /\ n \in 0..Len(s)
    BY <1>1
  <2>2. /\ h[n + 1] = h[n] + Share(c, t[n + 1]) /\ g[n + 1] = g[n] + Share(c, s[n + 1])
        /\ g[n] \in Nat /\ h[n] \in Nat
    BY <1>1, <1>2, <1>3, <2>1 DEF Sums
  <2>3. Share(c, s[n + 1]) \in Nat
    BY <1>4, <2>1
  <2>4. IF n < i THEN h[n] = g[n] ELSE h[n] + Share(c, s[i]) = g[n] + Share(c, x)
    BY <1>6, <2>1
  <2>5. t[n + 1] = IF n + 1 = i THEN x ELSE s[n + 1]
    BY <1>1, <2>1
  <2>6. CASE n + 1 < i
    <3>1. n < i /\ n + 1 # i
      BY <2>6
    <3> QED BY <2>2, <2>4, <2>5, <2>6, <3>1
  <2>7. CASE n + 1 = i
    <3>1. n < i /\ ~(n + 1 < i)
      BY <2>7
    <3>2. h[n + 1] = g[n] + Share(c, x) /\ g[n + 1] = g[n] + Share(c, s[i])
      BY <2>2, <2>4, <2>5, <2>7, <3>1
    <3>3. Share(c, s[i]) \in Nat /\ Share(c, x) \in Nat /\ g[n] \in Nat
      BY <1>4, <2>2
    <3>4. h[n + 1] + Share(c, s[i]) = g[n + 1] + Share(c, x)
      BY ONLY <3>2, <3>3
    <3> QED BY <3>1, <3>4
  <2>8. CASE ~(n + 1 < i) /\ n + 1 # i
    <3>1. ~(n < i)
      BY <2>8
    <3>2. h[n] + Share(c, s[i]) = g[n] + Share(c, x)
      BY <2>4, <3>1
    <3>3. h[n + 1] = h[n] + Share(c, s[n + 1]) /\ g[n + 1] = g[n] + Share(c, s[n + 1])
      BY <2>2, <2>5, <2>8
    <3>4. /\ Share(c, s[i]) \in Nat /\ Share(c, x) \in Nat /\ Share(c, s[n + 1]) \in Nat
          /\ g[n] \in Nat /\ h[n] \in Nat
      BY <1>4, <2>2, <2>3
    <3> DEFINE p == h[n]
               q == g[n]
               u == Share(c, s[i])
               v == Share(c, x)
               w == Share(c, s[n + 1])
    <3>5. h[n + 1] + Share(c, s[i]) = g[n + 1] + Share(c, x)
      <4>1. p + u = q + v /\ p \in Nat /\ q \in Nat /\ u \in Nat /\ v \in Nat /\ w \in Nat
        BY <3>2, <3>4
      <4>2. h[n + 1] = p + w /\ g[n + 1] = q + w
        BY <3>3
      <4> HIDE DEF p, q, u, v, w
      <4>3. (p + w) + u = (q + w) + v
        BY <4>1
      <4>4. h[n + 1] + u = g[n + 1] + v
        BY <4>2, <4>3
      <4> QED BY <4>4 DEF u, v
    <3> QED BY <2>8, <3>5
  <2> QED BY <2>6, <2>7, <2>8
<1> HIDE DEF Q
<1>7. Nat \subseteq Q
  BY <1>5, <1>6, SetInduction
<1>8. h[Len(s)] + Share(c, s[i]) = g[Len(s)] + Share(c, x)
  <2>1. ~(Len(s) < i) /\ Len(s) \in Nat
    BY <1>1
  <2> QED BY <1>7, <2>1 DEF Q
<1> QED BY <1>1, <1>2, <1>3, <1>8 DEF Sums, t

\* Taking one element out takes its share.
LEMMA SumCut ==
    ASSUME NEW c, NEW S, NEW s \in Seq(S), NEW i \in 1..Len(s), Additive(c, S)
    PROVE  Folded(c, 0, Cut(s, i)) + Share(c, s[i]) = Folded(c, 0, s)
<1> DEFINE t == Cut(s, i)
<1>1. /\ t \in Seq(S) /\ Len(t) = Len(s) - 1 /\ Len(s) \in Nat
      /\ \A j \in 1..i - 1 : t[j] = s[j]
      /\ \A j \in i..Len(s) - 1 : t[j] = s[j + 1]
  BY CutProperties, LengthIs
<1> HIDE DEF t
<1>2. PICK g : Sums(c, s, g)
  BY SumRun
<1>3. PICK h : Sums(c, t, h)
  <2>1. t \in Seq(S)
    BY <1>1
  <2> QED BY <2>1, SumRun
<1>4. \A n \in 1..Len(s) : Share(c, s[n]) \in Nat
  <2>1. \A n \in 1..Len(s) : s[n] \in S
    BY LengthIs
  <2> QED BY <2>1 DEF Additive
<1> DEFINE Q == {n \in Nat : n <= Len(s) - 1 =>
                    IF n < i THEN h[n] = g[n] ELSE h[n] + Share(c, s[i]) = g[n + 1]}
<1>5. 0 \in Q
  <2>1. 0 < i
    OBVIOUS
  <2> QED BY <1>2, <1>3, <2>1 DEF Sums
<1>6. ASSUME NEW n \in Nat, n \in Q PROVE n + 1 \in Q
  <2> SUFFICES ASSUME n + 1 <= Len(s) - 1
               PROVE  IF n + 1 < i THEN h[n + 1] = g[n + 1]
                      ELSE h[n + 1] + Share(c, s[i]) = g[n + 2]
    OBVIOUS
  <2>1. /\ n + 1 \in 1..Len(s) /\ n + 2 \in 1..Len(s) /\ (n + 1) - 1 = n /\ (n + 2) - 1 = n + 1
        /\ n + 1 \in 1..Len(t) /\ n <= Len(s) - 1 /\ n \in 0..Len(s) /\ n \in 0..Len(t)
        /\ n + 1 \in 0..Len(s)
    BY <1>1
  <2>2. /\ h[n + 1] = h[n] + Share(c, t[n + 1])
        /\ g[n + 1] = g[n] + Share(c, s[n + 1])
        /\ g[n + 2] = g[n + 1] + Share(c, s[n + 2])
        /\ g[n] \in Nat /\ h[n] \in Nat /\ g[n + 1] \in Nat
    BY <1>2, <1>3, <2>1 DEF Sums
  <2>3. Share(c, s[n + 1]) \in Nat /\ Share(c, s[n + 2]) \in Nat /\ Share(c, s[i]) \in Nat
    BY <1>4, <2>1
  <2>4. IF n < i THEN h[n] = g[n] ELSE h[n] + Share(c, s[i]) = g[n + 1]
    BY <1>6, <2>1
  <2>5. CASE n + 1 < i
    <3>1. n < i /\ n + 1 \in 1..i - 1
      BY <2>5
    <3>2. t[n + 1] = s[n + 1]
      BY <1>1, <3>1
    <3> QED BY <2>2, <2>4, <2>5, <3>1, <3>2
  <2>6. CASE ~(n + 1 < i)
    <3>1. n + 1 \in i..Len(s) - 1 /\ (n + 1) + 1 = n + 2
      BY <1>1, <2>1, <2>6
    <3>2. t[n + 1] = s[n + 2]
      BY <1>1, <3>1
    <3>3. h[n] + Share(c, s[i]) = g[n + 1]
      <4>1. CASE n < i
        <5>1. n + 1 = i
          BY <2>6, <4>1
        <5> QED BY <2>2, <2>4, <4>1, <5>1
      <4>2. CASE ~(n < i)
        BY <2>4, <4>2
      <4> QED BY <4>1, <4>2
    <3>4. h[n + 1] = h[n] + Share(c, s[n + 2])
      BY <2>2, <3>2
    <3>5. h[n + 1] + Share(c, s[i]) = g[n + 2]
      BY ONLY <2>2, <2>3, <3>3, <3>4
    <3> QED BY <2>6, <3>5
  <2> QED BY <2>5, <2>6
<1> HIDE DEF Q
<1>7. Nat \subseteq Q
  BY <1>5, <1>6, SetInduction
<1>8. /\ Len(s) - 1 \in Nat /\ (Len(s) - 1) + 1 = Len(s) /\ Len(s) \in 1..Len(s)
      /\ i <= Len(s) /\ i \in Nat /\ Len(t) \in 0..Len(t)
  BY <1>1
<1>9. IF Len(s) - 1 < i THEN h[Len(s) - 1] = g[Len(s) - 1]
      ELSE h[Len(s) - 1] + Share(c, s[i]) = g[Len(s)]
  BY <1>7, <1>8 DEF Q
<1>10. h[Len(s) - 1] + Share(c, s[i]) = g[Len(s)]
  <2>1. CASE Len(s) - 1 < i
    <3>1. i = Len(s)
      BY <1>1, <2>1
    <3>2. g[Len(s)] = g[Len(s) - 1] + Share(c, s[Len(s)])
      BY <1>2, <1>8 DEF Sums
    <3> QED BY <1>9, <2>1, <3>1, <3>2
  <2>2. CASE ~(Len(s) - 1 < i)
    BY <1>9, <2>2
  <2> QED BY <2>1, <2>2
<1> QED BY <1>1, <1>2, <1>3, <1>10 DEF Sums, t

\* No partial sum is more than the whole.
LEMMA SumsGrow ==
    ASSUME NEW c, NEW S, NEW seq \in Seq(S), Additive(c, S), NEW h, Sums(c, seq, h),
           NEW n \in 0..Len(seq)
    PROVE  h[n] <= h[Len(seq)]
<1>1. Len(seq) \in Nat /\ \A i \in 1..Len(seq) : seq[i] \in S
  BY LengthIs
<1> DEFINE Q == {d \in Nat : d <= Len(seq) => h[Len(seq) - d] <= h[Len(seq)]}
<1>2. 0 \in Q
  <2>1. Len(seq) \in 0..Len(seq) /\ Len(seq) - 0 = Len(seq)
    BY <1>1
  <2>2. h[Len(seq)] \in Nat
    BY <2>1 DEF Sums
  <2> QED BY <2>1, <2>2
<1>3. ASSUME NEW d \in Nat, d \in Q PROVE d + 1 \in Q
  <2> SUFFICES ASSUME d + 1 <= Len(seq) PROVE h[Len(seq) - (d + 1)] <= h[Len(seq)]
    OBVIOUS
  <2> DEFINE i == Len(seq) - d
  <2>1. /\ i \in 1..Len(seq) /\ i - 1 = Len(seq) - (d + 1) /\ d <= Len(seq)
        /\ i \in 0..Len(seq) /\ i - 1 \in 0..Len(seq) /\ Len(seq) \in 0..Len(seq)
    BY <1>1
  <2>2. h[i] <= h[Len(seq)]
    BY <1>3, <2>1
  <2> HIDE DEF i
  <2>3. h[i] = h[i - 1] + Share(c, seq[i]) /\ h[i] \in Nat /\ h[i - 1] \in Nat /\ h[Len(seq)] \in Nat
    BY <2>1 DEF Sums
  <2>4. Share(c, seq[i]) \in Nat
    BY <1>1, <2>1 DEF Additive
  <2>5. h[i - 1] <= h[Len(seq)]
    BY <2>2, <2>3, <2>4
  <2> QED BY <2>1, <2>5
<1> HIDE DEF Q
<1>4. Nat \subseteq Q
  BY <1>2, <1>3, SetInduction
<1>5. Len(seq) - n \in Nat /\ Len(seq) - n <= Len(seq) /\ Len(seq) - (Len(seq) - n) = n
  BY <1>1
<1>6. h[Len(seq) - (Len(seq) - n)] <= h[Len(seq)]
  BY <1>4, <1>5 DEF Q
<1> QED BY <1>5, <1>6
=============================================================================
