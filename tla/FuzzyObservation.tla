-------------------------- MODULE FuzzyObservation --------------------------
(***************************************************************************)
(* sml_observation.c and sml_observation_group.c: what the fuzzy engine    *)
(* remembers of one stable measure, and the groups such memories form.     *)
(*                                                                         *)
(* fz stands for struct sml_fuzzy: the number of terms of each input and   *)
(* output and which inputs are enabled.  A measure m names the terms whose *)
(* membership passes the threshold.  An observation has a bit per input    *)
(* term and an 8 bit weight per output term; its arrays keep the size they *)
(* were made with, and reading past them gives 0.  A group is a sequence   *)
(* of observations that agree on every enabled input.                      *)
(***************************************************************************)
EXTENDS Naturals, Sequences, SequencesExt

CONSTANTS MaxWeight      \* UINT8_MAX

ASSUME WeightAssumption == MaxWeight \in Nat \ {0}

Observation == [in: Seq(Seq({0, 1})), out: Seq(Seq(0..MaxWeight))]

Bit(b) == IF b THEN 1 ELSE 0

\* The elements of a vector that are in S, in their order.
Only(seq, S) ==
    FoldLeft(LAMBDA kept, x : IF x \in S THEN Append(kept, x) ELSE kept, <<>>, seq)

\* Reading an array: what lies past its end is 0.
At(arrays, v, t) ==
    IF v \in DOMAIN arrays /\ t \in DOMAIN arrays[v] THEN arrays[v][t] ELSE 0

InBit(o, i, t) == At(o.in, i, t)
OutWeight(o, k, t) == At(o.out, k, t)

\* _output_weights_initialize: arrays grow to the terms there are now.
OutputsGrown(fz, o) ==
    [k \in 1..(IF Len(o.out) > Len(fz.outTerms) THEN Len(o.out)
                                                ELSE Len(fz.outTerms)) |->
        [t \in 1..(IF k \in DOMAIN o.out /\ (k \notin DOMAIN fz.outTerms
                                             \/ Len(o.out[k]) > fz.outTerms[k])
                   THEN Len(o.out[k]) ELSE fz.outTerms[k]) |->
            OutWeight(o, k, t)]]

-----------------------------------------------------------------------------
(* Comparisons                                                             *)

SameOn(fz, o1, o2, inputs) ==
    \A i \in inputs : \A t \in 1..fz.inTerms[i] : InBit(o1, i, t) = InBit(o2, i, t)

Enabled(fz) == {i \in DOMAIN fz.inTerms : fz.inEnabled[i]}

EnabledInputEquals(fz, o1, o2) == SameOn(fz, o1, o2, Enabled(fz))

InputEquals(fz, o1, o2) == SameOn(fz, o1, o2, DOMAIN fz.inTerms)

EnabledValuesEqual(fz, o, m) ==
    \A i \in Enabled(fz) : \A t \in 1..fz.inTerms[i] :
        InBit(o, i, t) = Bit(t \in m.in[i])

\* Nothing is set for the inputs that are disabled.
IsBase(fz, o) ==
    \A i \in DOMAIN fz.inTerms \ Enabled(fz) :
        \A t \in 1..fz.inTerms[i] : InBit(o, i, t) = 0

SumOver(S, f(_)) == FoldSet(LAMBDA t, sum : sum + f(t), 0, S)

TotalWeight(fz, o, k) ==
    FoldLeft(LAMBDA sum, w : sum + w, 0, [t \in 1..fz.outTerms[k] |-> OutWeight(o, k, t)])

\* Weights are divided by their total as integers: a share is 1 when the
\* term has all of it, else 0.
OutputEquals(fz, o1, o2, k) ==
    LET total1 == TotalWeight(fz, o1, k)
        total2 == TotalWeight(fz, o2, k)
    IN  \/ total1 = 0 /\ total2 = 0
        \/ /\ total1 # 0 /\ total2 # 0
           /\ \A t \in 1..fz.outTerms[k] :
                 OutWeight(o1, k, t) \div total1 = OutWeight(o2, k, t) \div total2

-----------------------------------------------------------------------------
(* Learning                                                                *)

\* A new observation of m; disabled inputs are left unset.
ObservationNew(fz, m) ==
    [in  |-> [i \in DOMAIN fz.inTerms |-> [t \in 1..fz.inTerms[i] |->
                 Bit(fz.inEnabled[i] /\ t \in m.in[i])]],
     out |-> [k \in DOMAIN fz.outTerms |-> [t \in 1..fz.outTerms[k] |-> 0]]]

\* sml_observation_new yields nothing when no enabled input has a term set.
SomethingSet(fz, m) ==
    \E i \in Enabled(fz) : \E t \in 1..fz.inTerms[i] : t \in m.in[i]

HitWeight(w, active) ==
    IF active THEN IF w >= MaxWeight - 1 THEN MaxWeight ELSE w + 1
              ELSE IF w > 0 THEN w - 1 ELSE 0

\* Terms of m the observation has no weight for, in an output it knows.
\* _output_set compares the term with a byte of a pointer, not with the
\* length, so whether it makes room for them is anyone's guess (grows).
Roomless(fz, o, m) ==
    UNION {{k} \X {t \in m.out[k] : Len(o.out[k]) < t /\ t <= fz.outTerms[k]} :
              k \in DOMAIN fz.outTerms \cap DOMAIN o.out}

HitFails(fz, o, m, grows) == ~grows /\ Roomless(fz, o, m) # {}

Precedes(p, q) == p[1] < q[1] \/ (p[1] = q[1] /\ p[2] < q[2])

\* Room is made when a term past the end of its array is to be written.  The code
\* may make it earlier, for a term the array has; that appends zeros only.
GrowsNow(fz, o, m, grows) ==
    \/ grows /\ Roomless(fz, o, m) # {}
    \/ \E k \in DOMAIN fz.outTerms \ DOMAIN o.out :
          \E t \in 1..fz.outTerms[k] : t \in m.out[k]

\* sml_observation_hit: every output term in turn, up to the one that fails.
ObservationHit(fz, o, m, grows) ==
    LET fails == HitFails(fz, o, m, grows)
        room == IF ~fails /\ GrowsNow(fz, o, m, grows) THEN OutputsGrown(fz, o)
                                                       ELSE o.out
        reached(k, t) == ~fails \/ \A p \in Roomless(fz, o, m) : Precedes(<<k, t>>, p)
    IN  [o EXCEPT !.out = [k \in DOMAIN room |-> [t \in DOMAIN room[k] |->
            IF k \in DOMAIN fz.outTerms /\ t <= fz.outTerms[k] /\ reached(k, t)
            THEN HitWeight(room[k][t], t \in m.out[k])
            ELSE room[k][t]]]]

\* sml_observation_group_observation_hit: <<group, found, failed>>.
GroupHit(fz, group, m, grows) ==
    LET bases == {n \in DOMAIN group : IsBase(fz, group[n])}
        new   == ObservationHit(fz, ObservationNew(fz, m), m, grows)
        learns == /\ SomethingSet(fz, m)
                  /\ \E k \in DOMAIN fz.outTerms :
                        \E t \in 1..fz.outTerms[k] : t \in m.out[k]
    IN  IF group # <<>> /\ ~EnabledValuesEqual(fz, Head(group), m)
        THEN <<group, FALSE, FALSE>>
        ELSE IF bases # {}
        THEN LET n == CHOOSE n \in bases : \A b \in bases : n <= b
             IN  <<[group EXCEPT ![n] = ObservationHit(fz, @, m, grows)],
                   TRUE, HitFails(fz, group[n], m, grows)>>
        ELSE IF learns THEN <<Append(group, new), TRUE, FALSE>>
        ELSE <<group, FALSE, FALSE>>

-----------------------------------------------------------------------------
(* Merging and splitting groups                                            *)

\* Mutant: the second observation's evidence is forgotten.
MergeOutputDrops(fz, o1, o2) == [o1 EXCEPT !.out = OutputsGrown(fz, o1)]

\* sml_observation_merge_output: 8 bit sums.
MergeOutput(fz, o1, o2) ==
    [o1 EXCEPT !.out = [k \in DOMAIN OutputsGrown(fz, o1) |->
        [t \in DOMAIN OutputsGrown(fz, o1)[k] |->
            (OutWeight(o1, k, t) + OutWeight(o2, k, t)) % (MaxWeight + 1)]]]

\* The first position of seq where Same holds, or 0.
FirstWhere(seq, Same(_)) == SelectInSeq(seq, Same)

\* Observations with the same inputs become one.
WithoutTwins(fz, group) ==
    FoldLeft(LAMBDA kept, o :
               LET n == FirstWhere(kept, LAMBDA x : InputEquals(fz, x, o))
               IN  IF n = 0 THEN Append(kept, o)
                   ELSE [kept EXCEPT ![n] = MergeOutput(fz, @, o)],
             <<>>, group)

GroupMerge(fz, group1, group2) == WithoutTwins(fz, group1 \o group2)

GroupEnabledInputEquals(fz, group1, group2) ==
    /\ group1 # <<>> /\ group2 # <<>>
    /\ EnabledInputEquals(fz, Head(group1), Head(group2))

\* sml_observation_group_observation_append, given the groups there are.
AppendObservation(fz, groups, o) ==
    LET n == FirstWhere(groups, LAMBDA g : g = <<>> \/ EnabledInputEquals(fz, Head(g), o))
    IN  IF n = 0 THEN Append(groups, <<o>>)
        ELSE [groups EXCEPT ![n] = Append(@, o)]

\* sml_observation_group_split: the parts that agree on the enabled inputs.
GroupSplit(fz, group) ==
    FoldLeft(LAMBDA parts, o : AppendObservation(fz, parts, o), <<>>, group)

-----------------------------------------------------------------------------
(* Following the terms and variables of the engine                         *)

IsEmpty(o) == o.in = <<>> \/ o.out = <<>>

\* What removing a term does: an observation that does not know the variable
\* is dereferenced as NULL, one that does not know the term refuses.
RemoveTermOutcome(o, v, t, input) ==
    LET arrays == IF input THEN o.in ELSE o.out
    IN  CASE v \notin DOMAIN arrays -> "crash"
          [] v \in DOMAIN arrays /\ t \notin DOMAIN arrays[v] -> "error"
          [] v \in DOMAIN arrays /\ t \in DOMAIN arrays[v] -> "ok"

ObservationRemoveTerm(o, v, t, input) ==
    IF input THEN [o EXCEPT !.in[v] = RemoveAt(@, t)]
             ELSE [o EXCEPT !.out[v] = RemoveAt(@, t)]

\* sml_observation_remove_variables, for one variable; the group drops the
\* observations that are left with no input or no output.
ObservationRemoveVariable(o, v, input) ==
    CASE input /\ v \in DOMAIN o.in   -> [o EXCEPT !.in = RemoveAt(@, v)]
      [] ~input /\ v \in DOMAIN o.out -> [o EXCEPT !.out = RemoveAt(@, v)]
      [] OTHER -> o

GroupRemoveVariable(group, v, input) ==
    LET left == [n \in DOMAIN group |-> ObservationRemoveVariable(group[n], v, input)]
    IN  Only(left, {o \in Range(left) : ~IsEmpty(o)})

\* sml_observation_merge_terms.  An output's weights are bytes, but they are
\* added through 16 bit pointers: the byte after each one takes part, and
\* is written; beyond the last one lies memory of nobody (junk).
Wide(ws, t, junk) ==
    ws[t] + (MaxWeight + 1) * (IF t < Len(ws) THEN ws[t + 1] ELSE junk)

ObservationMergeTerms(o, v, t1, t2, input, junk) ==
    IF input
    THEN [o EXCEPT !.in[v] =
            RemoveAt([@ EXCEPT ![t1] = Bit(1 \in {@, o.in[v][t2]})], t2)]
    ELSE LET ws  == o.out[v]
             sum == Wide(ws, t1, junk) + Wide(ws, t2, junk)
         IN  [o EXCEPT !.out[v] =
                RemoveAt([t \in DOMAIN ws |->
                    CASE t = t1     -> sum % (MaxWeight + 1)
                      [] t = t1 + 1 -> (sum \div (MaxWeight + 1)) % (MaxWeight + 1)
                      [] OTHER      -> ws[t]], t2)]

=============================================================================
