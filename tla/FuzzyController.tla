-------------------------- MODULE FuzzyController --------------------------
(***************************************************************************)
(* sml_observation_controller.c: the knowledge of the fuzzy engine, groups *)
(* of observations in the LRU cache of sml_cache.c, and the rules derived  *)
(* from them.                                                              *)
(*                                                                         *)
(* The knowledge is a record k: heap, the groups that exist; cache, their  *)
(* pointers, oldest use first; max, the limit of the cache (0: none); map, *)
(* the rule groups of each output (rule_group_map); block, the rules in    *)
(* the engine; noSimpl, simplification_disabled.  An operation maps a      *)
(* knowledge to a knowledge.  Memory that cannot be allocated is the       *)
(* subject of SmlCache, not of this module.                                *)
(***************************************************************************)
EXTENDS FuzzyRules, FiniteSets

NewController == [heap |-> <<>>, cache |-> <<>>, max |-> 0, map |-> <<>>,
                  block |-> EmptyBag, noSimpl |-> FALSE]

Context(fz, k, out) == [fz |-> fz, heap |-> k.heap, out |-> out]

Groups(k) == [n \in DOMAIN k.cache |-> k.heap[k.cache[n]]]

\* A pointer malloc may return: to nothing that is in use.
FreshGroup(k) ==
    CHOOSE g \in 1..(Cardinality(DOMAIN k.heap) + 1) : g \notin DOMAIN k.heap

\* A group where malloc found room for it: nothing was there before.
Placed(k, g, group) ==
    [k EXCEPT !.heap = [h \in DOMAIN k.heap \cup {g} |-> IF h = g THEN group ELSE k.heap[h]]]

Lists(k, n, x) == [k EXCEPT !.map[n] = x.list, !.block = x.block]

\* Op on every rule group list in turn, with the engine's rule block.
ForEachOutput(k, Op(_, _)) ==
    FoldLeft(LAMBDA y, n : Lists(y, n, Op([list |-> y.map[n], block |-> y.block], n)),
             k, [n \in DOMAIN k.map |-> n])

\* _initialize_rule_group_map: a list for every output there is.
MapInitialized(fz, k) ==
    [k EXCEPT !.map = @ \o [n \in 1..(IF Len(fz.outTerms) > Len(@)
                                      THEN Len(fz.outTerms) - Len(@) ELSE 0) |-> <<>>]]

\* _rule_group_map_clear
MapCleared(k) ==
    [k EXCEPT !.map = <<>>,
              !.block = FoldLeft(LAMBDA b, list :
                           FoldLeft(LAMBDA c, rg : c (-) SetToBag(rg.rules), b, list),
                           @, k.map)]

\* sml_observation_controller_rules_rebuild
RulesRebuilt(fz, k) ==
    ForEachOutput(MapInitialized(fz, k),
        LAMBDA x, n : Rebuild(Context(fz, k, n), x, k.cache, k.noSimpl))

-----------------------------------------------------------------------------
(* The cache                                                               *)

FreeGroup(k, g) == [k EXCEPT !.heap = [h \in DOMAIN @ \ {g} |-> @[h]]]

\* _cache_element_free: the group leaves every rule group list.
ElementFreed(k, g) ==
    FreeGroup(ForEachOutput(k, LAMBDA x, n : RemoveGroup(x, g)), g)

\* sml_cache_remove_by_id
CacheRemoved(k, n) == ElementFreed([k EXCEPT !.cache = RemoveAt(@, n)], k.cache[n])

\* sml_cache_put: a full cache frees its oldest element first.
CachePut(k, g) ==
    LET full == k.max # 0 /\ Len(k.cache) = k.max
    IN  [(IF full THEN CacheRemoved(k, 1) ELSE k) EXCEPT !.cache = Append(@, g)]

\* sml_cache_hit
CacheHit(k, g) == [k EXCEPT !.cache = Append(RemoveFirst(@, g), g)]

\* sml_cache_clear
CacheCleared(k) == FoldLeft(LAMBDA y, g : ElementFreed(y, g), [k EXCEPT !.cache = <<>>], k.cache)

\* sml_cache_set_max_size: 0 and the present limit change nothing.
CacheResized(k, n) ==
    IF n = 0 THEN k
    ELSE FoldLeft(LAMBDA y, g : CacheRemoved(y, 1), [k EXCEPT !.max = n],
                  SubSeq(k.cache, 1, IF Len(k.cache) > n THEN Len(k.cache) - n ELSE 0))

\* sml_observation_controller_clear
ControllerCleared(k) == MapCleared(CacheCleared(k))

-----------------------------------------------------------------------------
(* Learning                                                                *)

Outcome(fz, k, m, grows, n) == GroupHit(fz, Groups(k)[n], m, grows)

\* Whether an array is made to grow matters only if one has to.
Growths(fz, k, m) == IF \E g \in DOMAIN k.heap : \E l \in DOMAIN k.heap[g] :
                           Roomless(fz, k.heap[g][l], m) # {}
                     THEN BOOLEAN ELSE {TRUE}

\* The group that takes the measure, or refuses it with an error; 0 if none.
Taker(fz, k, m, grows) ==
    FirstWhere([n \in DOMAIN k.cache |-> Outcome(fz, k, m, grows, n)],
               LAMBDA outcome : outcome[2] \/ outcome[3])

\* A new group is appended to every list before the cache owns it.
NewGroup(fz, k, m) ==
    LET g == FreshGroup(k)
        y == Placed(k, g, GroupHit(fz, <<>>, m, TRUE)[1])
    IN  CachePut(ForEachOutput(y, LAMBDA x, n :
                    AppendGroup(Context(fz, y, n), x, g, y.noSimpl)), g)

\* Mutant: the rules are not balanced again.
NotRebalanced(fz, k, g) == k

\* Without simplification the rules of a known group are not made again.
Rebalanced(fz, k, g) ==
    IF k.noSimpl THEN k
    ELSE ForEachOutput(k, LAMBDA x, n : Rebalance(Context(fz, k, n), x, g))

\* A group has taken the measure, or failed to: the observation is left half
\* updated then, and the rules as they were.
Taken(fz, k, g, outcome) ==
    LET y == [k EXCEPT !.heap[g] = outcome[1]]
    IN  IF outcome[3] THEN <<y, TRUE>> ELSE <<CacheHit(Rebalanced(fz, y, g), g), FALSE>>

LearntIn(fz, k, m, grows, n) ==
    IF n # 0 THEN Taken(fz, k, k.cache[n], Outcome(fz, k, m, grows, n))
    ELSE << IF GroupHit(fz, <<>>, m, grows)[2] THEN NewGroup(fz, k, m) ELSE k, FALSE >>

\* sml_observation_controller_observation_hit: <<knowledge, failed>>.
ObservationLearnt(fz, k0, m, grows) ==
    LET k == MapInitialized(fz, k0) IN LearntIn(fz, k, m, grows, Taker(fz, k, m, grows))

-----------------------------------------------------------------------------
(* Changes of the variables and their terms                                *)

\* Where the cache has a group that agrees with g; 0: nowhere.
Partner(fz, k, g) ==
    FirstWhere(Groups(k), LAMBDA h : GroupEnabledInputEquals(fz, h, k.heap[g]))

\* Group h takes over the observations of group g.
TakenOver(fz, k, h, g) == [k EXCEPT !.heap[h] = GroupMerge(fz, @, k.heap[g])]

\* _merge_obs_groups: what a group takes over is freed and leaves the vector
\* behind the cache's back; the rule lists are rebuilt by the callers.
GroupsMerged(fz, k) ==
    FoldLeft(LAMBDA y, g :
               IF Partner(fz, y, g) = 0 THEN [y EXCEPT !.cache = Append(@, g)]
               ELSE FreeGroup(TakenOver(fz, y, y.cache[Partner(fz, y, g)], g), g),
             [k EXCEPT !.cache = <<>>], k.cache)

\* The parts of every group, in turn.
Parts(fz, k) == FlattenSeq([n \in DOMAIN k.cache |-> GroupSplit(fz, Groups(k)[n])])

\* The emptied groups are freed; the parts are put into the cache, which may
\* have to free some of them again.
GroupsSplit(fz, k) ==
    LET parts == Parts(fz, k)
        empty == CacheCleared([k EXCEPT !.heap = [g \in DOMAIN @ |-> <<>>]])
    IN  FoldLeft(LAMBDA y, n : CachePut(Placed(y, n, parts[n]), n),
                 empty, [n \in DOMAIN parts |-> n])

\* sml_observation_controller_variable_set_enabled, fz as it is afterwards.
VariableSetEnabled(fz, k0, enabled) ==
    LET k == MapInitialized(fz, k0)
    IN  RulesRebuilt(fz, IF enabled THEN GroupsSplit(fz, k) ELSE GroupsMerged(fz, k))

SetSimplification(fz, k, disabled) ==
    IF k.noSimpl = disabled THEN k
    ELSE RulesRebuilt(fz, [k EXCEPT !.noSimpl = disabled])

\* Groups that became empty leave the cache.
EmptyGroupsRemoved(k) ==
    FoldLeft(LAMBDA y, g : IF y.heap[g] = <<>>
                           THEN CacheRemoved(y, FirstWhere(y.cache, LAMBDA h : h = g)) ELSE y,
             k, k.cache)

\* sml_observation_controller_remove_variables, for one variable
VariableRemoved(k, v, input) ==
    EmptyGroupsRemoved([k EXCEPT !.heap =
        [g \in DOMAIN @ |-> GroupRemoveVariable(@[g], v, input)]])

\* sml_observation_controller_remove_term: "crash", or the first
\* observation that refuses stops it: <<knowledge, outcome>>.
TermRemoved(k, v, t, input) ==
    LET visits == FlattenSeq([n \in DOMAIN k.cache |->
                     [l \in DOMAIN Groups(k)[n] |-> <<k.cache[n], l>>]])
        Ends(p) == RemoveTermOutcome(k.heap[p[1]][p[2]], v, t, input)
        stop    == FirstWhere(visits, LAMBDA p : Ends(p) # "ok")
        done    == {visits[n] : n \in 1..(IF stop = 0 THEN Len(visits) ELSE stop - 1)}
    IN  << [k EXCEPT !.heap = [g \in DOMAIN @ |-> [l \in DOMAIN @[g] |->
               IF <<g, l>> \in done THEN ObservationRemoveTerm(@[g][l], v, t, input)
                                    ELSE @[g][l]]]],
           IF stop = 0 THEN "ok" ELSE Ends(visits[stop]) >>

\* Mutant: groups that became equal stay apart.
PostRemoveUnmerged(fz, k) == RulesRebuilt(fz, MapCleared(k))

\* sml_observation_controller_post_remove_variables
PostRemove(fz, k) == RulesRebuilt(fz, MapCleared(GroupsMerged(fz, k)))

-----------------------------------------------------------------------------
(* Saving and loading                                                      *)

\* sml_observation_controller_save_state: the observations, group by group.
Saved(k) == FlattenSeq(Groups(k))

\* Mutant: every observation a group of its own.
ObservationLoadedApart(fz, k, o) ==
    CachePut(Placed(k, FreshGroup(k), <<o>>), FreshGroup(k))

\* _controller_append_observation
ObservationLoaded(fz, k, o) ==
    LET n == FirstWhere(Groups(k), LAMBDA h : h = <<>> \/ EnabledInputEquals(fz, Head(h), o))
    IN  IF n = 0 THEN CachePut(Placed(k, FreshGroup(k), <<o>>), FreshGroup(k))
        ELSE [k EXCEPT !.heap[k.cache[n]] = Append(@, o)]

ObservationsLoaded(fz, k, file) == FoldLeft(LAMBDA y, o : ObservationLoaded(fz, y, o), k, file)

\* sml_observation_controller_load_state; complete unless the file ends early.
StateLoaded(fz, k, file, complete) ==
    IF complete THEN RulesRebuilt(fz, ObservationsLoaded(fz, k, file))
                ELSE ObservationsLoaded(fz, k, file)

=============================================================================
