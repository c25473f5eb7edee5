--------------------------- MODULE FuzzyLearning ---------------------------
(***************************************************************************)
(* The fuzzy engine's knowledge as its clients change it: measures are     *)
(* learnt, inputs are enabled and disabled, terms and variables come and   *)
(* go, simplification is switched, the cache gets a limit.  Each action is *)
(* one call of the observation controller as sml_fuzzy.c makes it, with    *)
(* the change of the variables the call goes with.                         *)
(***************************************************************************)
EXTENDS FuzzyController

CONSTANTS InPatterns,    \* sets of terms an input may be read to belong to,
          OutPatterns,   \* and an output
          Layouts,       \* what is explored: the variables at the start and bounds
          MaxTerms,      \* bound on the terms of a variable
          MaxInputs,     \* bound on the inputs
          CacheSizes     \* limits a client asks for later

\* A layout: terms of the inputs and of the outputs, limit of the cache at the
\* start (0: none), bound on the sum of all weights of an output, bound on the
\* calls other than learning, and which of those are made.
ASSUME LearningAssumption == /\ Layouts \subseteq [inputs : Seq(Nat), outputs : Seq(Nat),
                                                    size : Nat, evidence : Nat,
                                                    calls : Nat, changes : SUBSET STRING]
                             /\ MaxTerms \in Nat /\ MaxInputs \in Nat
                             /\ CacheSizes \subseteq Nat

VARIABLES fz,            \* struct sml_fuzzy: terms and enabled inputs
          know,          \* struct sml_observation_controller
          torn,          \* history: what failed calls left behind
          bound          \* bounds: evidence at most, calls that are left, and which

learnVars == <<fz, know, torn, bound>>

LearnInit ==
    /\ \E layout \in Layouts :
          /\ fz = [inTerms |-> layout.inputs,
                   inEnabled |-> [i \in DOMAIN layout.inputs |-> TRUE],
                   outTerms |-> layout.outputs]
          /\ know = [NewController EXCEPT !.max = layout.size]
          /\ bound = [evidence |-> layout.evidence, calls |-> layout.calls,
                      changes |-> layout.changes]
    /\ torn = {}

Evidence(o, t) ==
    SumOver(DOMAIN know.heap, LAMBDA g : SumOver(DOMAIN know.heap[g], LAMBDA l :
        OutWeight(know.heap[g][l], o, t)))

Measures == {m \in [in  : [DOMAIN fz.inTerms -> InPatterns],
                    out : [DOMAIN fz.outTerms -> OutPatterns]] :
                /\ \A i \in DOMAIN fz.inTerms : m.in[i] \subseteq 1..fz.inTerms[i]
                /\ \A o \in DOMAIN fz.outTerms : m.out[o] \subseteq 1..fz.outTerms[o]}

Running == "crash" \notin torn

\* Rebuilding the rules repairs what a failed learning step left behind.
Rebuilt == torn' = torn \ {"half"}

Seen(o) == SumOver(1..fz.outTerms[o], LAMBDA t : Evidence(o, t))

Learn(m, grows) ==
    LET result == ObservationLearnt(fz, know, m, grows)
    IN  /\ \A o \in DOMAIN fz.outTerms : Seen(o) < bound.evidence
        /\ know' = result[1]
        /\ torn' = IF result[2] THEN torn \cup {"half"} ELSE torn
        /\ UNCHANGED <<fz, bound>>

\* A call that is explored, and counted.
Change(kind) == /\ kind \in bound.changes
                /\ bound.calls > 0
                /\ bound' = [bound EXCEPT !.calls = @ - 1]

\* sml_fuzzy.c:_sml_variable_set_enabled: nothing happens if it is as asked.
SetEnabled(i, enabled) ==
    /\ Change("enable")
    /\ fz.inEnabled[i] # enabled
    /\ fz' = [fz EXCEPT !.inEnabled[i] = enabled]
    /\ know' = VariableSetEnabled(fz', know, enabled)
    /\ Rebuilt

ToggleSimplification == /\ Change("simplify")
                        /\ know' = SetSimplification(fz, know, ~know.noSimpl)
                        /\ Rebuilt
                        /\ UNCHANGED fz

\* Terms are added to the variable only: observations get to know them later.
AddInputTerm(i) == /\ Change("terms")
                   /\ fz.inTerms[i] < MaxTerms
                   /\ fz' = [fz EXCEPT !.inTerms[i] = @ + 1]
                   /\ UNCHANGED <<know, torn>>

AddOutputTerm(o) == /\ Change("terms")
                    /\ fz.outTerms[o] < MaxTerms
                    /\ fz' = [fz EXCEPT !.outTerms[o] = @ + 1]
                    /\ UNCHANGED <<know, torn>>

AddInput == /\ Change("variables")
            /\ Len(fz.inTerms) < MaxInputs
            /\ fz' = [fz EXCEPT !.inTerms = Append(@, 2), !.inEnabled = Append(@, TRUE)]
            /\ UNCHANGED <<know, torn>>

\* sml_fuzzy.c:_remove_terms and _handle_removals.  If an observation
\* refuses, the term stays, the others have lost it, no rule is rebuilt.
RemoveTerm(v, t, input) ==
    LET result == TermRemoved(know, v, t, input)
        after  == IF input THEN [fz EXCEPT !.inTerms[v] = @ - 1]
                           ELSE [fz EXCEPT !.outTerms[v] = @ - 1]
    IN  /\ Change("terms")
        /\ IF result[2] = "ok"
           THEN fz' = after /\ know' = PostRemove(after, result[1]) /\ Rebuilt
           ELSE fz' = fz /\ know' = result[1] /\ torn' = torn \cup {result[2]}

\* sml_fuzzy.c:_remove_variables and _handle_removals
RemoveInput(i) ==
    /\ Change("variables")
    /\ fz' = [fz EXCEPT !.inTerms = RemoveAt(@, i), !.inEnabled = RemoveAt(@, i)]
    /\ know' = PostRemove(fz', VariableRemoved(know, i, TRUE))
    /\ Rebuilt

RemoveOutput(o) ==
    /\ Change("variables")
    /\ fz' = [fz EXCEPT !.outTerms = RemoveAt(@, o)]
    /\ know' = PostRemove(fz', VariableRemoved(know, o, FALSE))
    /\ Rebuilt

ResizeCache(n) == /\ Change("cache")
                  /\ n # know.max
                  /\ know' = CacheResized(know, n)
                  /\ UNCHANGED <<fz, torn>>

\* sml_fuzzy.c:_sml_erase_knowledge, as far as the controller goes.
Erase == /\ Change("erase")
         /\ know' = ControllerCleared(know)
         /\ torn' = {}
         /\ UNCHANGED fz

\* What was saved is loaded into a new process with the same variables.
Reload == /\ Change("erase")
          /\ know' = StateLoaded(fz, [NewController EXCEPT !.max = know.max], Saved(know), TRUE)
          /\ Rebuilt
          /\ UNCHANGED fz

LearnNext ==
    /\ Running
    /\ \/ \E m \in Measures : \E grows \in Growths(fz, know, m) : Learn(m, grows)
       \/ \E i \in DOMAIN fz.inTerms, e \in BOOLEAN : SetEnabled(i, e)
       \/ ToggleSimplification
       \/ \E i \in DOMAIN fz.inTerms : AddInputTerm(i)
       \/ \E o \in DOMAIN fz.outTerms : AddOutputTerm(o)
       \/ AddInput
       \/ \E i \in DOMAIN fz.inTerms : \E t \in 1..fz.inTerms[i] : RemoveTerm(i, t, TRUE)
       \/ \E o \in DOMAIN fz.outTerms : \E t \in 1..fz.outTerms[o] : RemoveTerm(o, t, FALSE)
       \/ \E i \in DOMAIN fz.inTerms : RemoveInput(i)
       \/ \E o \in DOMAIN fz.outTerms : RemoveOutput(o)
       \/ \E n \in CacheSizes : ResizeCache(n)
       \/ Erase
       \/ Reload

LearnSpec == LearnInit /\ [][LearnNext]_learnVars

-----------------------------------------------------------------------------
(* Properties                                                              *)

Cached == Range(know.cache)

\* No rule group refers to a freed group, none is empty, and what the cache
\* holds is what exists (sml_observation_controller.c:_cache_element_free).
NoFreedGroup ==
    /\ DOMAIN know.heap = Cached /\ IsInjective(know.cache)
    /\ \A g \in Cached : know.heap[g] \in Seq(Observation) /\ know.heap[g] # <<>>
    /\ \A n \in DOMAIN know.map : \A r \in DOMAIN know.map[n] :
          /\ know.map[n][r].obs # <<>>
          /\ Range(know.map[n][r].obs) \subseteq Cached
    /\ torn \subseteq {"half", "error", "crash"}

\* Every group of observations is in exactly one rule group of every output,
\* however groups are added, evicted, merged, split and rebalanced.
CoveredOnce ==
    \A n \in DOMAIN know.map : \A g \in Cached :
        Quantify(DOMAIN know.map[n], LAMBDA r : Contains(know.map[n][r].obs, g)) = 1

\* The engine's rule block holds the rules of the rule groups, each once:
\* none is left behind by a refresh, a break or an eviction.
BlockOwned ==
    know.block = FoldLeft(LAMBDA b, list :
                    FoldLeft(LAMBDA c, rg : c (+) SetToBag(rg.rules), b, list),
                    EmptyBag, know.map)

\* A rule speaks for all members of its rule group: they agree with the first
\* one on every relevant input and on what they conclude, and the antecedent
\* still is theirs, although rules are not made again when a member is evicted
\* or leaves for another rule group.
RulesSpeakForAll ==
    torn = {} =>
      \A n \in DOMAIN know.map : \A r \in DOMAIN know.map[n] :
        LET c  == Context(fz, know, n)
            rg == know.map[n][r]
        IN  /\ \A g \in Range(rg.obs) :
                 /\ SameOn(fz, First(c, rg.obs[1]), First(c, g), Enabled(fz) \cap rg.relevant)
                 /\ OutputEquals(fz, First(c, rg.obs[1]), First(c, g), n)
            /\ \A rule \in rg.rules : rule.if = Antecedent(c, rg)

\* One scenario, one group: two groups differ on the enabled inputs, the
\* observations of one group do not.
GroupsApart ==
    torn = {} =>
      \A g \in Cached : \A h \in Cached :
        \A a \in Range(know.heap[g]), b \in Range(know.heap[h]) :
            EnabledInputEquals(fz, a, b) <=> g = h

\* A group left the knowledge.
Evicted == \E g \in Cached : g \notin Range(know'.cache)

\* After a learning step the rules that speak for the scenario are made from all
\* that has been learnt of it, for every output, and whether the scenario was
\* known or not, and alone in its rule group or not; unless another group was
\* evicted on the way (sml_rule_group.c:sml_rule_group_list_rebalance).
LearningShows ==
    [][fz' = fz /\ know'.heap # know.heap /\ know'.cache # <<>>
         /\ torn' = {} /\ ~know.noSimpl /\ ~Evicted =>
         \A n \in DOMAIN know'.map :
            LET g == Last(know'.cache)
                r == Holding(know'.map[n], g)
            IN  know'.map[n][r].rules = Generated(Context(fz', know', n), know'.map[n][r])]_learnVars

\* Whatever happens to the inputs regroups what is known and loses none of
\* it, unless 8 bit weights overflow, the cache is too small for the parts, or
\* an observation is left without inputs.  Nor does saving it and loading it.
EvidenceKept ==
    [][/\ fz'.outTerms = fz.outTerms /\ fz'.inTerms # <<>>
       /\ \A o \in Range(Saved(know)) : Len(o.in) = Len(fz.inTerms)
       /\ fz'.inTerms # fz.inTerms \/ fz'.inEnabled # fz.inEnabled \/ Reload
       /\ know.max # 0 => Len(Saved(know)) <= know.max
       /\ \A o \in DOMAIN fz.outTerms : \A t \in 1..fz.outTerms[o] : Evidence(o, t) <= MaxWeight
       => \A o \in DOMAIN fz.outTerms : \A t \in 1..fz.outTerms[o] :
             Evidence(o, t)' = Evidence(o, t)]_learnVars

\* What is saved and loaded again is the same knowledge in the same groups.
ReloadKeeps ==
    torn = {} =>
       Range(Groups(ObservationsLoaded(fz, NewController, Saved(know)))) = Range(Groups(know))

=============================================================================
