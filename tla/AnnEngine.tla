----------------------------- MODULE AnnEngine -----------------------------
(***************************************************************************)
(* sml/sml_ann/src/sml_ann.c with the bridge to FANN (sml_ann_bridge.c)    *)
(* and the variable lists (sml_ann_variable_list.c): the neural network    *)
(* engine behind sml_process, sml_predict and the variable calls.          *)
(*                                                                         *)
(* The engine collects one observation per stable reading in arrays kept   *)
(* by the variables (the common pool).  When the pool holds `required'     *)
(* observations a network is trained on it.  Trained networks live in the  *)
(* cache of SmlCache.tla, here the sequence `anns'.  sml_process is cut    *)
(* into the functions it calls, one action each, in the order pc imposes:  *)
(*   idle [-> alloc] -> layout [-> merging] -> reading -> storing          *)
(*        -> acting -> idle                                                *)
(* The client runs between calls (idle) and inside the read callback       *)
(* (reading).  Values are abstracted: whether a reading differs from the   *)
(* stable one, how a training ends and which networks match an observation *)
(* are choices.                                                            *)
(***************************************************************************)
EXTENDS Naturals, Sequences, SequencesExt

CONSTANTS InputVars, OutputVars,   \* variables a client may create
          InitialRequired,         \* INITIAL_REQUIRED_OBSERVATIONS
          DefaultCacheSize,        \* DEFAULT_CACHE_SIZE
          DefaultHits,             \* stabilization hits before the first reading (0 if never set)
          RequiredArgs,            \* arguments of set_initial_required
          CacheArgs,               \* arguments of set_cache_max_size
          HitsArgs,                \* arguments of set_stabilization_hits
          MemoryArgs,              \* arguments of set_max_memory, in floats
          LoadCounts,              \* networks a load may find on disk
          TrainFailures,           \* may FANN run out of memory?
          MaxRequired, MaxHits,    \* bounds on growth and on counting
          MaxSlots                 \* bound on the observations in one array

Variables == InputVars \cup OutputVars
EXPAND_FACTOR == 3
U16 == 65536

ASSUME AnnAssumption ==
    /\ InputVars \cap OutputVars = {}
    /\ InitialRequired \in Nat \ {0}
    /\ {DefaultCacheSize, DefaultHits, MaxRequired, MaxHits, MaxSlots} \subseteq Nat
    /\ RequiredArgs \cup CacheArgs \cup HitsArgs \cup MemoryArgs \cup LoadCounts \subseteq Nat
    /\ TrainFailures \in BOOLEAN

VARIABLES inputs, outputs,            \* the variable lists
          pendingAdd, pendingRemove,  \* changes awaiting the next process
          freed,                      \* history: variables already freed
          cap, idx,                   \* per variable: array size, next slot
          anns, cacheMax,             \* the cache of networks and its limit
          required, memLimit,         \* pool size, obs_max_size in floats
          firstRun, pseudo, learnDisabled,
          hits, stabilizationHits, called,
          quiet,                      \* history: readings without a change
          pc

listVars == <<inputs, outputs, pendingAdd, pendingRemove, freed>>
poolVars == <<cap, idx, required>>
cacheVars == <<anns, cacheMax>>
modeVars == <<memLimit, firstRun, pseudo, learnDisabled>>
hitVars == <<hits, stabilizationHits, called, quiet>>
annVars == <<listVars, poolVars, cacheVars, modeVars, hitVars, pc>>

Listed == ToSet(inputs) \cup ToSet(outputs)
Known == Listed \cup ToSet(pendingAdd)

\* Mutant: the variable is freed but stays where it is.
Unlinked(list, v) == list

\* _sml_ann_remove_variable_from_lists, for one list.
Without(list, v) == IF v \in ToSet(list)
                    THEN RemoveAt(list, CHOOSE k \in DOMAIN list : list[k] = v)
                    ELSE list

\* struct sml_ann_bridge.  ci: the confidence intervals and the observation
\* array exist; erred: last_train_error is a number; loaded: came from a file.
AnnRecord == [trained : BOOLEAN, ci : BOOLEAN, required : Nat,
              obsIdx : Nat, erred : BOOLEAN, loaded : BOOLEAN,
              layout : Nat \X Nat]   \* of a loaded network: unknown, <<0, 0>>

NewAnn(nIn, nOut) == [trained |-> FALSE, ci |-> FALSE, required |-> 0,
                      obsIdx |-> 0, erred |-> FALSE, loaded |-> FALSE,
                      layout |-> <<nIn, nOut>>]

\* _sml_ann_can_alloc_memory_for_observations
CanAlloc(vars, n) == memLimit = 0 \/ n * vars <= memLimit

\* _sml_ann_get_observations_length: the first input speaks for all.
ObservationsLength(lens) == IF inputs = <<>> THEN 0 ELSE lens[inputs[1]]

\* Mutant: the cache has no limit.
PutUnlimited(a) == Append(anns, a)

\* sml_cache_put, sml_cache_hit (see SmlCache.tla)
Put(a) == Append(IF cacheMax # 0 /\ Len(anns) = cacheMax THEN Tail(anns) ELSE anns, a)
Hit(i) == Append(RemoveAt(anns, i), anns[i])

AnnInit ==
    /\ inputs = <<>> /\ outputs = <<>>
    /\ pendingAdd = <<>> /\ pendingRemove = <<>> /\ freed = {}
    /\ cap = [v \in Variables |-> 0] /\ idx = [v \in Variables |-> 0]
    /\ anns = <<>> /\ cacheMax = DefaultCacheSize
    /\ required = InitialRequired /\ memLimit = 0
    /\ firstRun = TRUE /\ pseudo = TRUE /\ learnDisabled = FALSE
    /\ hits = 0 /\ stabilizationHits = DefaultHits /\ called = FALSE /\ quiet = 0
    /\ pc = "idle"
-----------------------------------------------------------------------------
(* Calls between (and, for variables, inside) sml_process *)

\* _sml_ann_add_variable: the list at once while the cache is empty, the
\* pending list otherwise.
AddVariable(v) ==
    /\ pc \in {"idle", "reading"}
    /\ v \notin Known \cup freed
    /\ CanAlloc(Len(inputs) + Len(outputs) + Len(pendingAdd) + 1, required)
    /\ cap' = [cap EXCEPT ![v] = required]
    /\ idx' = [idx EXCEPT ![v] = ObservationsLength(idx)]
    /\ IF anns # <<>>
       THEN /\ pendingAdd' = Append(pendingAdd, v)
            /\ UNCHANGED <<inputs, outputs>>
       ELSE /\ inputs' = IF v \in InputVars THEN Append(inputs, v) ELSE inputs
            /\ outputs' = IF v \in OutputVars THEN Append(outputs, v) ELSE outputs
            /\ UNCHANGED pendingAdd
    /\ UNCHANGED <<pendingRemove, freed, required, cacheVars, modeVars, hitVars, pc>>

\* _sml_ann_remove_variable.  With an empty cache a variable that is still in
\* pendingAdd is not found: the call fails and changes nothing.  A client
\* removes a variable once: the pointer is not its own after that.
RemoveVariable(v) ==
    /\ pc \in {"idle", "reading"}
    /\ v \in Known \ ToSet(pendingRemove)
    /\ IF anns # <<>>
       THEN /\ pendingRemove' = Append(pendingRemove, v)
            /\ UNCHANGED <<inputs, outputs, freed>>
       ELSE /\ inputs' = Without(inputs, v)
            /\ outputs' = Without(outputs, v)
            /\ freed' = freed \cup ({v} \cap Listed)
            /\ UNCHANGED pendingRemove
    /\ UNCHANGED <<pendingAdd, poolVars, cacheVars, modeVars, hitVars, pc>>

\* _sml_ann_erase_knowledge: forgets the networks and rewinds the arrays of the
\* listed variables; pending changes and output_state_changed_called stay.
EraseKnowledge ==
    /\ pc = "idle"
    /\ anns' = <<>>
    /\ idx' = [v \in Variables |-> IF v \in Listed THEN 0 ELSE idx[v]]
    /\ hits' = 0
    /\ firstRun' = TRUE
    /\ UNCHANGED <<listVars, cap, required, cacheMax, memLimit, pseudo, learnDisabled,
                   stabilizationHits, called, quiet, pc>>

\* _sml_ann_load: the cache is cleared before the path is looked at (n = 0 is
\* also a path that is no directory); a network of the pseudorehearsal file
\* comes without confidence intervals.  What is left when the files outnumber
\* the limit is what the limit allows.
Load(n) ==
    /\ pc = "idle"
    /\ pseudo => n <= 1
    /\ cacheMax # 0 => n <= cacheMax
    /\ anns' = [i \in 1..n |-> [NewAnn(0, 0) EXCEPT
                                   !.trained = TRUE, !.loaded = TRUE, !.ci = ~pseudo,
                                   !.required = IF pseudo THEN 0 ELSE InitialRequired]]
    /\ UNCHANGED <<listVars, poolVars, cacheMax, modeVars, hitVars, pc>>

\* sml_ann_set_initial_required_observations
SetInitialRequired(n) ==
    /\ pc = "idle" /\ firstRun
    /\ required' = n
    /\ UNCHANGED <<listVars, cap, idx, cacheVars, modeVars, hitVars, pc>>

\* sml_ann_use_pseudorehearsal_strategy
UsePseudorehearsal(b) ==
    /\ pc = "idle" /\ firstRun
    /\ pseudo' = b
    /\ UNCHANGED <<listVars, poolVars, cacheVars, memLimit, firstRun, learnDisabled,
                   hitVars, pc>>

\* sml_ann_set_cache_max_size: the argument is narrowed to 16 bits on the way.
SetCacheMaxSize(n) ==
    /\ pc = "idle"
    /\ n % U16 \notin {0, cacheMax}
    /\ cacheMax' = n % U16
    /\ anns' = IF Len(anns) > n % U16
               THEN SubSeq(anns, Len(anns) - (n % U16) + 1, Len(anns)) ELSE anns
    /\ UNCHANGED <<listVars, poolVars, modeVars, hitVars, pc>>

\* sml_set_learn_disabled, sml_set_stabilization_hits,
\* sml_set_max_memory_for_observations
SetLearnDisabled(b) ==
    /\ pc = "idle"
    /\ learnDisabled' = b
    /\ UNCHANGED <<listVars, poolVars, cacheVars, memLimit, firstRun, pseudo,
                   hitVars, pc>>

SetStabilizationHits(h) ==
    /\ pc = "idle"
    /\ stabilizationHits' = h
    /\ UNCHANGED <<listVars, poolVars, cacheVars, modeVars, hits, called, quiet, pc>>

SetMaxMemory(m) ==
    /\ pc = "idle"
    /\ memLimit' = m
    /\ UNCHANGED <<listVars, poolVars, cacheVars, firstRun, pseudo, learnDisabled,
                   hitVars, pc>>
-----------------------------------------------------------------------------
(* sml_process *)

\* _sml_ann_alloc_arrays_if_needed.  The first run halves the pool until it
\* fits the memory limit ...
HalvePool ==
    /\ pc \in {"idle", "alloc"}
    /\ firstRun
    /\ ~CanAlloc(Len(inputs) + Len(outputs), required)
    /\ required' = required \div 2
    /\ pc' = "alloc"
    /\ UNCHANGED <<listVars, cap, idx, cacheVars, modeVars, hitVars>>

\* ... and gives every listed array its size, unless nothing is left of it.
AllocArrays ==
    /\ pc \in {"idle", "alloc"}
    /\ firstRun /\ required # 0
    /\ CanAlloc(Len(inputs) + Len(outputs), required)
    /\ cap' = [v \in Variables |-> IF v \in Listed THEN required ELSE cap[v]]
    /\ pc' = "layout"
    /\ UNCHANGED <<listVars, idx, required, cacheVars, modeVars, hitVars>>

AllocRefused ==
    /\ pc \in {"idle", "alloc"}
    /\ firstRun /\ required = 0
    /\ pc' = "idle"
    /\ UNCHANGED <<listVars, poolVars, cacheVars, modeVars, hitVars>>

AlreadyAllocated ==
    /\ pc = "idle"
    /\ ~firstRun
    /\ pc' = "layout"
    /\ UNCHANGED <<listVars, poolVars, cacheVars, modeVars, hitVars>>

\* How FANN's training ends: below the desired error, worse than the previous
\* try with fewer observations, or neither.
Endings == {"good", "worse", "more"}

\* sml_ann_bridge_consider_trained
ConsiderTrained(a, n) == [a EXCEPT !.trained = TRUE,
                                   !.ci = @ \/ ~pseudo,
                                   !.required = IF pseudo THEN @ ELSE n]

\* required_observations_suggestion
Suggestion(n, ending) == CASE ending = "good" -> n
                           [] ending = "worse" -> n \div 2
                           [] ending = "more" -> 2 * n

\* _sml_ann_train on n observations: the network afterwards, and the pool size.
\* (Its `retrain' branch needs an untrained network and a suggestion below the
\* pool size; an untrained one always suggests 2 * n.)
Trained(a, n, ending, vars) ==
    LET suggested == Suggestion(n, ending)
        tried == [a EXCEPT !.erred = TRUE, !.trained = @ \/ ending # "more"]
        learnt == IF tried.trained THEN ConsiderTrained(tried, suggested) ELSE tried
        full == suggested > required /\ ~CanAlloc(vars, suggested)
        final == IF full THEN ConsiderTrained(learnt, required) ELSE learnt
    IN [ann |-> final,
        required |-> IF suggested > required /\ ~full /\ ~final.trained
                     THEN suggested ELSE required]

\* The endings FANN may report for network a, within the bound on the pool.
EndingsOf(a, n) == {e \in Endings : /\ e = "worse" => a.erred
                                    /\ e = "more" => 2 * n <= MaxRequired}

\* Mutant: only inputs are rewound.
RewoundInputs(S) == [v \in Variables |-> IF v \in ToSet(inputs) THEN 0 ELSE idx[v]]

\* Arrays of all variables in S after the pool size became n.  That an index
\* beyond a smaller array is set to its end is left out: no property speaks of such a state.
Resized(S, n) == [v \in Variables |-> IF v \in S /\ n # required THEN n ELSE cap[v]]
Rewound(S) == [v \in Variables |-> IF v \in S THEN 0 ELSE idx[v]]

\* _sml_ann_change_ann_layout_if_needed
LayoutUnchanged ==
    /\ pc = "layout"
    /\ pendingAdd = <<>> /\ pendingRemove = <<>>
    /\ pc' = "reading"
    /\ UNCHANGED <<listVars, poolVars, cacheVars, modeVars, hitVars>>

\* The pending variables join their lists, then the removed ones leave.
MergeAdd ==
    /\ pc \in {"layout", "merging"}
    /\ pendingAdd # <<>>
    /\ LET v == Head(pendingAdd)
       IN /\ inputs' = IF v \in InputVars THEN Append(inputs, v) ELSE inputs
          /\ outputs' = IF v \in OutputVars THEN Append(outputs, v) ELSE outputs
    /\ pendingAdd' = Tail(pendingAdd)
    /\ pc' = "merging"
    /\ UNCHANGED <<pendingRemove, freed, poolVars, cacheVars, modeVars, hitVars>>

MergeRemove ==
    /\ pc \in {"layout", "merging"}
    /\ pendingAdd = <<>> /\ pendingRemove # <<>>
    /\ inputs' = Without(inputs, Head(pendingRemove))
    /\ outputs' = Without(outputs, Head(pendingRemove))
    /\ freed' = freed \cup {Head(pendingRemove)}
    /\ pendingRemove' = Tail(pendingRemove)
    /\ pc' = "merging"
    /\ UNCHANGED <<pendingAdd, poolVars, cacheVars, modeVars, hitVars>>

\* The networks go.  A new one needs an input and an output:
\* sml_ann_bridge_new refuses without.
Merging == pc = "merging" /\ pendingAdd = <<>> /\ pendingRemove = <<>>

\* Mutant: the old networks stay until there is a new one.
LayoutRefusedEarly ==
    /\ Merging
    /\ inputs = <<>> \/ outputs = <<>>
    /\ pc' = "idle"
    /\ UNCHANGED <<listVars, poolVars, cacheVars, modeVars, hitVars>>

LayoutRefused ==
    /\ Merging
    /\ inputs = <<>> \/ outputs = <<>>
    /\ anns' = <<>>
    /\ pc' = "idle"
    /\ UNCHANGED <<listVars, poolVars, cacheMax, modeVars, hitVars>>

\* The new network is trained at once, on whatever the arrays hold, and the
\* pool starts over.
LayoutChanged(ending) ==
    LET new == NewAnn(Len(inputs), Len(outputs))
        vars == Len(inputs) + Len(outputs)
        result == Trained(new, required, ending, vars)
    IN /\ Merging
       /\ inputs # <<>> /\ outputs # <<>>
       /\ ending \in EndingsOf(new, required)
       /\ anns' = <<result.ann>>
       /\ required' = result.required
       /\ cap' = Resized(Listed, result.required)
       /\ idx' = Rewound(Listed)
       /\ pc' = "reading"
       /\ UNCHANGED <<listVars, cacheMax, modeVars, hitVars>>

LayoutTrainFails ==
    /\ TrainFailures
    /\ Merging
    /\ inputs # <<>> /\ outputs # <<>>
    /\ anns' = <<NewAnn(Len(inputs), Len(outputs))>>
    /\ pc' = "idle"
    /\ UNCHANGED <<listVars, poolVars, cacheMax, modeVars, hitVars>>

\* sml_call_read_state_cb fails: sml_process is aborted.
ReadFails ==
    /\ pc = "reading"
    /\ pc' = "idle"
    /\ UNCHANGED <<listVars, poolVars, cacheVars, modeVars, hitVars>>

\* Mutant: a change does not start the counting over.
HitsKept(change) == hits

HitsAfter(change) == IF change THEN 0 ELSE hits

\* The read callback delivered values, then the first half of
\* _sml_ann_process: inChange and outChange say whether an input or an output
\* moved significantly since the last stable values.
Read(inChange, outChange) ==
    LET change == ~firstRun /\ (inChange \/ outChange)
        counted == HitsAfter(change)
        stable == counted = stabilizationHits
    IN /\ pc = "reading"
       /\ stable \/ counted < MaxHits
       /\ firstRun' = FALSE
       /\ called' = (called /\ (firstRun \/ ~inChange))
       /\ quiet' = IF firstRun \/ change THEN 0
                   ELSE IF quiet < MaxHits THEN quiet + 1 ELSE quiet
       /\ hits' = IF stable THEN 0 ELSE (counted + 1) % U16
       /\ pc' = IF stable THEN "storing" ELSE "idle"
       /\ UNCHANGED <<listVars, poolVars, cacheVars, memLimit, pseudo, learnDisabled,
                      stabilizationHits>>

\* _sml_ann_store_observations
StoreDisabled ==
    /\ pc = "storing"
    /\ learnDisabled
    /\ pc' = "acting"
    /\ UNCHANGED <<listVars, poolVars, cacheVars, modeVars, hitVars>>

\* Mutant: the array is never filled again from the start.
AddObservationAgain(a) == IF ~a.ci THEN a ELSE [a EXCEPT !.obsIdx = @ + 1]

\* sml_ann_bridge_add_observation: a full array retrains the network and is
\* filled again from the start.
AddObservation(a) ==
    IF ~a.ci THEN a
    ELSE [a EXCEPT !.obsIdx = IF @ + 1 = a.required THEN 0 ELSE @ + 1]

\* Trained networks whose confidence intervals hold the observation get it.
StoreInNetworks(matching) ==
    /\ pc = "storing"
    /\ ~learnDisabled /\ ~pseudo
    /\ matching # {}
    /\ \A i \in matching : anns[i].trained /\ anns[i].ci /\ anns[i].obsIdx < MaxSlots
    /\ anns' = [i \in DOMAIN anns |-> IF i \in matching THEN AddObservation(anns[i]) ELSE anns[i]]
    /\ pc' = "acting"
    /\ UNCHANGED <<listVars, poolVars, cacheMax, modeVars, hitVars>>

\* Otherwise every listed variable appends its value to its array.
Appended == [v \in Variables |-> IF v \in Listed THEN idx[v] + 1 ELSE idx[v]]

\* Mutant: one observation late.
PoolOverfull == ObservationsLength(Appended) > required

PoolFull == ObservationsLength(Appended) = required
InBound == \A v \in Listed : idx[v] < MaxSlots

StoreInPool ==
    /\ pc = "storing"
    /\ ~learnDisabled /\ InBound
    /\ ~PoolFull
    /\ idx' = Appended
    /\ pc' = "acting"
    /\ UNCHANGED <<listVars, cap, required, cacheVars, modeVars, hitVars>>

\* Mutant: the network still in training is not looked for.
InTrainingSingle == IF pseudo /\ Len(anns) = 1 THEN {1} ELSE {}

\* The network to train: the one still in training (the last one found), the
\* single pseudorehearsal network, or a new one put into the cache.
Untrained == {i \in DOMAIN anns : ~anns[i].trained}
InTraining == IF pseudo
              THEN IF Len(anns) = 1 THEN {1} ELSE {}
              ELSE {i \in Untrained : \A j \in Untrained : j <= i}
CacheToTrain == IF InTraining # {} THEN anns
                ELSE Put(NewAnn(Len(inputs), Len(outputs)))
ToTrain == IF InTraining # {} THEN CHOOSE i \in InTraining : TRUE ELSE Len(CacheToTrain)

\* No network could be made for an engine without inputs or outputs; process
\* ignores the error code.
StoreRefused ==
    /\ pc = "storing"
    /\ ~learnDisabled /\ InBound
    /\ PoolFull
    /\ InTraining = {} /\ (inputs = <<>> \/ outputs = <<>>)
    /\ idx' = Appended
    /\ pc' = "acting"
    /\ UNCHANGED <<listVars, cap, required, cacheVars, modeVars, hitVars>>

\* _sml_ann_pseudorehearsal_train blows the arrays up to EXPAND_FACTOR times
\* the pool, fills them with what the network predicts, and shrinks them again.
Rehearsing(a) == pseudo /\ a.trained

StoreAndTrain(ending) ==
    LET a == CacheToTrain[ToTrain]
        n == IF Rehearsing(a) THEN EXPAND_FACTOR * required ELSE required
        vars == Len(inputs) + Len(outputs) + Len(pendingAdd)
        result == Trained(a, n, ending, vars)
    IN /\ pc = "storing"
       /\ ~learnDisabled /\ InBound
       /\ PoolFull
       /\ InTraining # {} \/ (inputs # <<>> /\ outputs # <<>>)
       /\ ending \in EndingsOf(a, required)
       /\ anns' = [CacheToTrain EXCEPT ![ToTrain] = result.ann]
       /\ required' = result.required
       /\ cap' = IF Rehearsing(a)
                 THEN [v \in Variables |-> IF v \in Listed THEN required ELSE cap[v]]
                 ELSE Resized(Known, result.required)
       /\ idx' = IF result.ann.trained THEN Rewound(Listed) ELSE Appended
       /\ pc' = "acting"
       /\ UNCHANGED <<listVars, cacheMax, modeVars, hitVars>>

\* The pseudorehearsal network already explains the new observations.
StoreKnown ==
    /\ pc = "storing"
    /\ ~learnDisabled
    /\ PoolFull
    /\ InTraining # {}
    /\ Rehearsing(anns[ToTrain])
    /\ idx' = Rewound(Listed)
    /\ pc' = "acting"
    /\ UNCHANGED <<listVars, cap, required, cacheVars, modeVars, hitVars>>

\* Training ran out of memory.  The common way drops the network from the
\* cache, pseudorehearsal keeps it and, when it was trained, the large arrays.
StoreTrainFails ==
    /\ TrainFailures
    /\ pc = "storing"
    /\ ~learnDisabled /\ InBound
    /\ PoolFull
    /\ InTraining # {} \/ (inputs # <<>> /\ outputs # <<>>)
    /\ anns' = IF pseudo THEN CacheToTrain ELSE RemoveAt(CacheToTrain, ToTrain)
    /\ IF Rehearsing(CacheToTrain[ToTrain])
       THEN /\ cap' = Resized(Listed, EXPAND_FACTOR * required)
            /\ idx' = [v \in Variables |-> IF v \in ToSet(inputs) THEN EXPAND_FACTOR * required
                                           ELSE Appended[v]]
       ELSE /\ idx' = Appended
            /\ UNCHANGED cap
    /\ pc' = "acting"
    /\ UNCHANGED <<listVars, required, cacheMax, modeVars, hitVars>>

\* _sml_ann_get_best_ann_for_latest_observations touches the one it selects.
Selectable == IF pseudo THEN {1} \cap {i \in DOMAIN anns : anns[i].trained}
              ELSE {i \in DOMAIN anns : anns[i].trained}
Selected(i) == IF pseudo THEN anns ELSE Hit(i)

\* The second half of _sml_ann_process: at most one prediction is announced
\* for each stable state of the inputs.
Act(i, announced) ==
    /\ pc = "acting"
    /\ ~called
    /\ anns' = Selected(i)
    /\ called' = announced
    /\ pc' = "idle"
    /\ UNCHANGED <<listVars, poolVars, cacheMax, modeVars, hits, stabilizationHits, quiet>>

ActNothing ==
    /\ pc = "acting"
    /\ called \/ Selectable = {}
    /\ pc' = "idle"
    /\ UNCHANGED <<listVars, poolVars, cacheVars, modeVars, hitVars>>

\* _sml_ann_predict
Predict(i) ==
    /\ pc = "idle"
    /\ anns' = Selected(i)
    /\ UNCHANGED <<listVars, poolVars, cacheMax, modeVars, hitVars, pc>>
-----------------------------------------------------------------------------
ClientStep ==
    \/ \E v \in Variables : AddVariable(v) \/ RemoveVariable(v)
    \/ EraseKnowledge
    \/ \E n \in LoadCounts : Load(n)
    \/ \E n \in RequiredArgs : SetInitialRequired(n)
    \/ \E n \in CacheArgs : SetCacheMaxSize(n)
    \/ \E h \in HitsArgs : SetStabilizationHits(h)
    \/ \E m \in MemoryArgs : SetMaxMemory(m)
    \/ \E b \in BOOLEAN : UsePseudorehearsal(b) \/ SetLearnDisabled(b)
    \/ \E i \in Selectable : Predict(i)

ProcessStep ==
    \/ HalvePool \/ AllocArrays \/ AllocRefused \/ AlreadyAllocated
    \/ LayoutUnchanged \/ MergeAdd \/ MergeRemove \/ LayoutRefused \/ LayoutTrainFails
    \/ \E e \in Endings : LayoutChanged(e) \/ StoreAndTrain(e)
    \/ ReadFails
    \/ \E inChange, outChange \in BOOLEAN : Read(inChange, outChange)
    \/ StoreDisabled \/ StoreInPool \/ StoreRefused \/ StoreKnown \/ StoreTrainFails
    \/ \E matching \in SUBSET DOMAIN anns : StoreInNetworks(matching)
    \/ \E i \in Selectable, announced \in BOOLEAN : Act(i, announced)
    \/ ActNothing

AnnNext == ClientStep \/ ProcessStep

AnnSpec == AnnInit /\ [][AnnNext]_annVars

(* What the properties below ask of the client: the engine runs only with  *)
(* an input and an output, and never loses its last one again (not even to *)
(* replace it); the pool is not asked to grow past the arrays of variables *)
(* that are still pending; the strategy is chosen while there is no        *)
(* network; and neither the pool nor the memory limit is set between the   *)
(* first network and the first reading.  The code checks none of this.     *)
WillHave(kind) == (Known \ ToSet(pendingRemove)) \cap kind # {}
HasBoth == WillHave(InputVars) /\ WillHave(OutputVars)
PendingFit == \A v \in ToSet(pendingAdd) : required <= cap[v]

WellUsed == /\ HasBoth \/ pc' # "idle" => HasBoth'
            /\ pc = "idle" /\ pc' = "idle" /\ required' # required => PendingFit'
            /\ pseudo' # pseudo => anns = <<>>
            /\ firstRun /\ anns # <<>> /\ pc' = "idle" =>
                  memLimit' = memLimit /\ required' = required

WellUsedSpec == AnnInit /\ [][AnnNext /\ WellUsed]_annVars
-----------------------------------------------------------------------------
Phases == {"idle", "alloc", "layout", "merging", "reading", "storing", "acting"}

\* Every variable has its type.
AnnTypeOK == /\ inputs \in Seq(InputVars) /\ outputs \in Seq(OutputVars)
             /\ pendingAdd \in Seq(Variables) /\ pendingRemove \in Seq(Variables)
             /\ freed \subseteq Variables
             /\ cap \in [Variables -> Nat] /\ idx \in [Variables -> Nat]
             /\ anns \in Seq(AnnRecord)
             /\ {cacheMax, required, memLimit} \subseteq Nat
             /\ {firstRun, pseudo, learnDisabled, called} \subseteq BOOLEAN
             /\ {hits, stabilizationHits, quiet} \subseteq Nat
             /\ pc \in Phases

\* When an observation is about to be stored, every array has a free slot and
\* is as large as the pool: nothing else checks the index.
RoomForNext == pc = "storing" =>
                  \A v \in Listed : idx[v] < required /\ required <= cap[v]

\* Row k of the pool belongs to one reading: when a row is written all arrays
\* are filled to the same length, whatever was added, removed, erased or grown
\* in between.
RowsAligned == pc = "storing" => \A v, w \in Listed : idx[v] = idx[w]

\* Without pseudorehearsal there is never a second network in training, which
\* would be forgotten by the search in store_observations.
OneInTraining == ~pseudo => \A i, j \in Untrained : i = j

\* Without pseudorehearsal a trained network has the confidence intervals it is
\* selected by, and its observation array has a free slot for the next match.
UsableNetworks ==
    \A i \in DOMAIN anns :
        /\ anns[i].trained /\ ~pseudo => anns[i].ci
        /\ anns[i].ci => anns[i].obsIdx < anns[i].required

\* A network made by this engine has as many inputs and outputs as the engine,
\* except while a changed layout is on its way to clear the cache.
BuiltForLayout ==
    pc # "merging" =>
        \A i \in DOMAIN anns :
            anns[i].loaded \/ anns[i].layout = <<Len(inputs), Len(outputs)>>

\* A freed variable is in no list the engine still walks.
NothingDangles ==
    /\ freed \cap (Known \cup ToSet(pendingRemove)) = {}
    /\ ToSet(pendingRemove) \subseteq Known

\* The cache respects its limit.
CacheBounded == cacheMax # 0 => Len(anns) <= cacheMax

\* sml.h:339: only stable inputs are used to predict and to train, where stable
\* means that many readings without a change.
StableEnough == pc \in {"storing", "acting"} => quiet >= stabilizationHits

(* Why rows stay aligned and slots free: the inductive invariant. *)
Settled == pendingAdd = <<>> /\ pendingRemove = <<>>
Running == pc \in {"reading", "storing", "acting"}
Allocated == ~firstRun \/ pc \in {"layout", "merging", "reading"}

\* Listed arrays are as large as the pool and not yet full.  A variable that
\* has just joined may have more observations, until the pool starts over.
SlotsFree == Allocated => /\ required > 0
                          /\ \A v \in Listed : required <= cap[v]
                          /\ pc # "merging" => \A v \in Listed : idx[v] < required

RowsEven == Running \/ (Settled /\ pc # "merging") =>
               \A v, w \in Listed : idx[v] = idx[w]

FirstRunEmpty == firstRun /\ pc # "merging" => \A v \in Listed : idx[v] = 0
FirstRunPhases == /\ pc \in {"storing", "acting"} => ~firstRun
                  /\ pc = "alloc" => firstRun

\* Before the first input and output there is nothing in the pool; from then on
\* both lists have a member whenever the engine runs.
NothingBeforeBoth == HasBoth \/ (pc = "idle" /\ \A v \in Listed : idx[v] = 0)
BothListed == Running => inputs # <<>> /\ outputs # <<>>

\* Changes made inside the read callback wait because there is a network.
WaitingForNetwork == pc = "reading" /\ ~Settled => anns # <<>>

PoolInv == /\ SlotsFree /\ RowsEven
           /\ FirstRunEmpty /\ FirstRunPhases
           /\ NothingBeforeBoth /\ BothListed
           /\ WaitingForNetwork /\ PendingFit

\* sml.h:344, a remark on sml_set_stabilization_hits: with 0 the input is always
\* considered stable, so no reading is ever counted as unstable.
ZeroAlwaysStable ==
    [][pc = "reading" /\ pc' = "idle" /\ hits' # hits => stabilizationHits # 0]_annVars
=============================================================================
