----------------------------- MODULE FuzzyRules -----------------------------
(***************************************************************************)
(* sml_rule_group.c: for each output, the list of rule groups that turns   *)
(* groups of observations into the rules of the inference engine.          *)
(*                                                                         *)
(* A rule group has the groups it stands for (pointers: keys of heap), the *)
(* inputs that are still relevant to it, and the rules it has put into the *)
(* engine.  A rule is its antecedent, a set of <<input, term>>, and the    *)
(* term it concludes for its output.                                       *)
(*                                                                         *)
(* The operations take a context c, [fz, heap, out], and the lists they    *)
(* work on: x.list, the rule groups of the output, and x.block, the bag of *)
(* rules in the engine's rule block.  heap maps a group to its             *)
(* observations.                                                           *)
(***************************************************************************)
EXTENDS FuzzyObservation, Bags

CONSTANTS RuleShare      \* a rule is made for a term with more than
                         \* 1/RuleShare of the weight (weight_threshold)

ASSUME ShareAssumption == RuleShare \in Nat \ {0}

First(c, g) == Head(c.heap[g])

\* A group without observations, or none at all, has no first observation.
Known(c, g) == g \in DOMAIN c.heap /\ c.heap[g] # <<>>

-----------------------------------------------------------------------------
(* Rules                                                                   *)

\* sml_rule_group_rule_generate: the weights of all the observations of the
\* group, the antecedent of its first one.  Without any term set in a
\* relevant input there is no antecedent and no rule.
Weight(c, rg, t) ==
    SumOver(DOMAIN rg.obs, LAMBDA n :
        SumOver(DOMAIN c.heap[rg.obs[n]], LAMBDA l :
            OutWeight(c.heap[rg.obs[n]][l], c.out, t)))

Antecedent(c, rg) ==
    UNION {{<<i, t>> : t \in {t \in 1..c.fz.inTerms[i] : InBit(First(c, rg.obs[1]), i, t) = 1}} :
              i \in Enabled(c.fz) \cap rg.relevant}

Generated(c, rg) ==
    LET ts    == 1..c.fz.outTerms[c.out]
        total == SumOver(ts, LAMBDA t : Weight(c, rg, t))
    IN  IF Antecedent(c, rg) = {} THEN {}
        ELSE {[out |-> c.out, if |-> Antecedent(c, rg), then |-> t] :
                t \in {t \in ts : RuleShare * Weight(c, rg, t) > total}}

Refreshed(c, rg) == [rg EXCEPT !.rules = Generated(c, rg)]

\* Mutant: the old rules are left in the engine.
OldKept(x, n, rg) ==
    [list |-> [x.list EXCEPT ![n] = rg], block |-> x.block (+) SetToBag(rg.rules)]

Exchanged(x, n, rg) ==
    [list  |-> [x.list EXCEPT ![n] = rg],
     block |-> (x.block (-) SetToBag(x.list[n].rules)) (+) SetToBag(rg.rules)]

\* _rule_group_rule_refresh, of the rule group at position n.
Refresh(c, x, n) == Exchanged(x, n, Refreshed(c, x.list[n]))

\* sml_rule_group_free
FreeRules(x, rg) == [x EXCEPT !.block = @ (-) SetToBag(rg.rules)]

-----------------------------------------------------------------------------
(* Adding a group                                                          *)

\* The relevant inputs on which a rule group and a group agree.
Agreeing(c, rg, g) ==
    {i \in Enabled(c.fz) \cap rg.relevant :
        SameOn(c.fz, First(c, rg.obs[1]), First(c, g), {i})}

Level(c, rg, g) ==
    IF rg.obs # <<>> /\ Known(c, rg.obs[1]) /\ Known(c, g)
    THEN Cardinality(Agreeing(c, rg, g)) ELSE 0

\* A member is compared with the first of the others.
Conflicts(c, rg, g) ==
    LET other == IF rg.obs[1] # g THEN rg.obs[1] ELSE rg.obs[2]
    IN  rg.obs # <<g>> /\ ~OutputEquals(c.fz, First(c, other), First(c, g), c.out)

\* A rule group of its own, every input relevant.
Alone(c, g) == [obs |-> <<g>>, relevant |-> DOMAIN c.fz.inTerms, rules |-> {}]

AppendAlone(c, x, g) ==
    LET y == [x EXCEPT !.list = Append(@, Alone(c, g))]
    IN  Refresh(c, y, Len(y.list))

\* Mutant: the inputs stay relevant.
NotWidened(c, rg, g) == [rg EXCEPT !.obs = Append(@, g)]

\* _insert_in_rule_group: the inputs on which g differs stop being relevant.
Widened(c, rg, g) ==
    [rg EXCEPT !.obs = Append(@, g),
               !.relevant = {i \in @ : i \in Enabled(c.fz) => i \in Agreeing(c, rg, g)}]

Insert(c, x, n, g) ==
    Refresh(c, [x EXCEPT !.list[n] = Widened(c, @, g)], n)

\* The rule groups that agree with g on most relevant inputs, in list order.
AtLevel(c, list, g, most) ==
    Only(list, {rg \in Range(list) : Level(c, rg, g) = most /\ most > 0})

Candidates(c, list, g) ==
    AtLevel(c, list, g, Max({0} \cup {Level(c, list[n], g) : n \in DOMAIN list}))

InConflict(c, list, g) ==
    Only(Candidates(c, list, g),
         {rg \in Range(Candidates(c, list, g)) : Conflicts(c, rg, g)})

\* _rule_group_list_observation_append, up to the breaking of conflicts.
\* A conflict leaves g alone even when another group would take it.
PlaceAmong(c, x, g, candidates) ==
    IF candidates = <<>> \/ \E n \in DOMAIN candidates : Conflicts(c, candidates[n], g)
    THEN AppendAlone(c, x, g)
    ELSE Insert(c, x, FirstWhere(x.list, LAMBDA rg : rg = candidates[1]), g)

Place(c, x, g) == PlaceAmong(c, x, g, Candidates(c, x.list, g))

Without(x, rg) == [x EXCEPT !.list = RemoveFirstMatch(@, LAMBDA r : r.obs = rg.obs)]

\* _break_groups_hard: every member gets a rule group of its own.
BreakHard(c, x, conflict) ==
    FoldLeft(LAMBDA y, rg : FreeRules(
                 FoldLeft(LAMBDA z, g : AppendAlone(c, z, g), Without(y, rg), rg.obs), rg),
             x, conflict)

AppendHard(c, x, g) == BreakHard(c, Place(c, x, g), InConflict(c, x.list, g))

\* _break_groups: the conflicting rule groups leave the list, then their
\* members are appended again, the hard way.
BreakSoft(c, x, conflict) ==
    FoldLeft(LAMBDA y, rg : FreeRules(
                 FoldLeft(LAMBDA z, g : AppendHard(c, z, g), y, rg.obs), rg),
             FoldLeft(LAMBDA y, rg : Without(y, rg), x, conflict),
             conflict)

\* sml_rule_group_list_observation_append
AppendGroup(c, x, g, noSimplification) ==
    IF noSimplification THEN AppendAlone(c, x, g)
    ELSE BreakSoft(c, Place(c, x, g), InConflict(c, x.list, g))

-----------------------------------------------------------------------------
(* Removing a group, and starting over                                     *)

Holding(list, g) == FirstWhere(list, LAMBDA rg : Contains(rg.obs, g))

DropMember(x, n, g) ==
    IF x.list[n].obs = <<g>>
    THEN FreeRules([x EXCEPT !.list = RemoveAt(@, n)], x.list[n])
    ELSE [x EXCEPT !.list[n].obs = RemoveFirst(@, g)]

\* Mutant: a group that has come to conflict is not appended again.
RebalanceDrops(c, x, g) ==
    LET n == Holding(x.list, g)
    IN  IF n # 0 /\ x.list[n].obs # <<g>> /\ Conflicts(c, x.list[n], g)
        THEN DropMember(x, n, g) ELSE x

\* sml_rule_group_list_rebalance: g leaves a rule group it has come to
\* conflict with, whose rules are not made again, and is appended anew.
Rebalance(c, x, g) ==
    LET n == Holding(x.list, g)
    IN  IF n = 0 THEN x
        ELSE IF x.list[n].obs # <<g>> /\ ~Conflicts(c, x.list[n], g)
             THEN Refresh(c, x, n)
             ELSE AppendGroup(c, DropMember(x, n, g), g, FALSE)

\* Mutant: the rule group is not looked for.
RemoveGroupForgets(x, g) == x

\* sml_rule_group_list_observation_remove: the rules that are left are not
\* made again either.
RemoveGroup(x, g) ==
    LET n == Holding(x.list, g) IN IF n = 0 THEN x ELSE DropMember(x, n, g)

\* sml_rule_group_list_rebuild
Rebuild(c, x, groups, noSimplification) ==
    FoldLeft(LAMBDA y, g : AppendGroup(c, y, g, noSimplification),
             [list  |-> <<>>,
              block |-> FoldLeft(LAMBDA b, rg : b (-) SetToBag(rg.rules),
                                 x.block, x.list)],
             groups)

=============================================================================
