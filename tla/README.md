# Soletta Machine Learning: a verification project

TLA+ models of the library and of its flow nodes, TLC runs on small instances, and theorems
checked by TLAPS. Paths such as `sml_ann.c` name the files of the repository; `PROJECT.json`
maps every definition to its lines.

## 1. The system

Soletta Machine Learning lets a device learn which outputs go with which inputs. A client
creates an engine (fuzzy, neural network or naive), adds input and output variables, and calls
`sml_process` again and again: the engine reads the variables through a callback, waits until
they are stable, learns from stable readings, and announces an output that it expects to change.
Soletta flow nodes wrap an engine in a worker thread.

| Component | State | Operations | Talks to | Hard behaviour | Correct when |
|---|---|---|---|---|---|
| LRU cache, `sml_cache.c` | vector of pointers, limit | put, hit, remove, clear, set_max_size | both engines; a free callback | limit compared for equality, failing appends, 16 bit limit | bounded; evicts the least recently used; frees what it lets go, once |
| Neural network engine, `sml_ann.c`, `sml_ann_bridge.c`, `sml_ann_variable_list.c` | two variable lists, two pending lists, an observation array per variable, networks in the cache, pool size, stabilization counters | new/remove variable, process, predict, erase, load, save, settings | cache, FANN, client callbacks (which may add and remove variables) | variables come and go in the middle of a pool; training grows or drops things; memory limit; two learning strategies | arrays never overrun, rows aligned, networks fit the layout, only stable readings are learnt |
| Engine front, `sml_engine.c` | callbacks, hits, memory limit, debug log | dispatch, setters, log of every call, replay of a log | engines | names against handles, lines written before the call they stand for | settings take effect as documented; a log reproduces its engine |
| Fuzzy engine, `sml_fuzzy.c`, `sml_measure.c` | variables, last stable measure, hits, queues of removals | process, terms, range, remove, erase, load, save | controller, terms manager, fuzzylite bridge, client callbacks (which may call the engine) | calls inside callbacks; removals that fail halfway; comparison by position | only settled readings are learnt, a scenario is announced once, rules name what exists |
| Observation controller, groups, observations | groups in the LRU cache, for each output the rule groups | hit, merge, split, enable, remove, save, load, rebuild | fuzzy engine, rule groups | three structures over the same groups, 8 bit weights, failures halfway | each group in one rule group of each output; no evidence lost |
| Rule groups, `sml_rule_group.c` | groups that agree on the relevant inputs, and their rules | append, break, rebalance, remove, rebuild | controller, bridge | members leave and rules stay | a rule speaks for all members |
| Terms manager, `sml_terms_manager.c` | hits of each term | hit, merge, split, remove | controller, bridge | index arithmetic while looping, over memberships measured before | columns of counts stay with their terms |
| Fuzzy bridge, `sml_fuzzy_bridge.cpp` | fuzzylite's variables, terms, rule block; counts of terms | variables, terms, ranges, rules, memberships | fuzzylite | counts kept by hand | counts cover the terms |
| Bit array, matrix | packed bits, rows of items | set, get, resize, compare | observations, measures | byte boundaries | agree with the plain array |
| Naive engine, `sml_naive.c` | two lists of variables | variables, ranges, values; process only reads | engine front | none | lists agree with the calls |
| Main loop, `sml_main_loop.c` | a process callback on a GLib timer | init, run, schedule, unschedule, quit | GLib | | not modelled |
| Asynchronous flow nodes, `machine_learning.c` | request flags under `general_lock`, variables under `read_lock`, a worker thread under `thread_running` | packets on TRIGGER, PREDICTION_TRIGGER, SAVE, ERASE_KNOWLEDGE, LEARN_DISABLED, DEBUG_FILE, IN_VAR, OUT_VAR; feedback; finished; close | main loop, worker thread, engine | handlers race with the thread; the thread ends while requests arrive; close cancels it | no request is lost, no deadlock, nothing freed in use, answers delivered |
| Synchronous flow nodes, `machine_learning.c` | input and output queues, the same locks and thread | packets on IN, IN_PREDICT and the ports above | same | same | a FIFO server |
| Strings, utilities, logging, simulator, examples, garden node | | | | | `clean_dir` only, see section 8 |

The hazards, each at its line with the properties that watch it, are in `PROJECT.json`.

## 2. Modules

```
LruCache   <--refined by-- SmlCache  <- MCSmlCache       CommonProofs
NaiveEngine <- SmlFront <- MCSmlFront                    CommonProofs
               MLNode     (EXTENDS MLBase)               CommonProofs
FifoServer <--refined by-- MLSyncNode (EXTENDS MLBase)   CommonProofs
               AnnEngine <- MCAnnEngine                  AnnProofs
               AnnFiles                                  AnnProofs
FuzzyObservation <- FuzzyRules <- FuzzyController <- FuzzyLearning <- MCFuzzyLearning
                                                  <- FuzzyEngine   <- MCFuzzyEngine, FuzzyEngineProofs
FuzzyObservation <- FuzzyTerms <- MCFuzzyTerms, FuzzyTermsProofs
FuzzyLearning <- FuzzyRulesProofs <- FuzzyControllerProofs <- FuzzyLearningProofs
SeqLemmas      (extended and instantiated by the modules of proofs)
```

**SmlCache** is `sml_cache.c`, one action per function, with a second action where an allocation
may fail. Elements are abstract pointers. History variables record who has to free each pointer
(`owner`) and when it was last used. **LruCache** says what a least-recently-used cache is: a set
of entries with the times of their last use. `ImplementsLru` is the refinement.

**AnnEngine** is the neural network engine. `sml_process` is cut into the functions it is made of,
in the order `pc` imposes: `_sml_ann_alloc_arrays_if_needed` (HalvePool, AllocArrays,
AllocRefused, AlreadyAllocated), `_sml_ann_change_ann_layout_if_needed` (LayoutUnchanged,
MergeAdd, MergeRemove, LayoutRefused, LayoutChanged, LayoutTrainFails), the read callback
(ReadFails, Read, and in between the client may add and remove variables),
`_sml_ann_store_observations` (the Store... actions) and the prediction (Act, ActNothing). The
client's other calls come between two calls of `sml_process`. A variable's array is its size
(`cap`) and next index (`idx`). A network is a record of the fields the code branches on. The
values themselves are choices: whether a reading differs, how a training ends (below the desired
error, worse than before, neither, out of memory), which networks match an observation, which is
closest, whether the prediction is announced. The pending lists are merged one variable per
step. The client has registered both callbacks.

**MLBase** is what the flow nodes share: the flags, the lock `thread_running`, the start and the
end of the worker thread, and `machine_learning_base_close`. The main thread runs one handler at
a time; no lock is taken under another, so a critical section is one action. The handle
`base.worker` is assigned after the thread was started (Schedule, then Assign): the thread may run
in between. **MLNode** adds the asynchronous node: `iterate` is TakeSnapshot, EraseEngine,
SaveEngine, ReadState, RunEngine, Commit, RequestFeedback. **MLSyncNode** adds the synchronous
one, with both queues; a packet is its number, its port, and how many erase requests came before
it. **FifoServer** is the promise of a synchronous node; the refinement maps `waiting` to
`current \o inputQueue`.

**AnnFiles** is `sml_save` and `sml_load` of the neural network engine over a directory: `clean_dir`
file by file, then two files for each trained network, with a step between any two system calls
at which the process may die or the call may fail. The engine is reduced to the cache of
networks. History: the knowledge of each save (`saved`), and what it answered (`finish`).

**FuzzyObservation**, **FuzzyRules** and **FuzzyController** are operators: the functions of
`sml_observation.c` and `sml_observation_group.c`, of `sml_rule_group.c`, and of
`sml_observation_controller.c`, each a function from one state of the knowledge to the next. The
knowledge is a record: `heap` maps a group (a pointer) to its observations, `cache` is the vector of
groups, `map` holds the rule groups of each output, `block` is the bag of rules in fuzzylite's rule
block. A rule is the set of its input terms, the output and the term it concludes; its weight is
left out beyond being above the threshold. Functions that can fail halfway return what they left
behind. A variable is its number of terms and whether it is enabled.

**FuzzyLearning** makes a state machine of them: a measure is learnt, an input is enabled or
disabled, terms and variables are added and removed, simplification is switched, the cache gets a
limit, all is erased, or saved and loaded. `torn` records how calls that failed halfway left the
knowledge; `bound` is not of the code, it carries the bounds of the layout that TLC started with.

**FuzzyEngine** is `sml_process` of the fuzzy engine: Start (removals, then the cache limit, then the
read callback), the reading itself (ReadNothing, ReadUnstable, ReadLearns), Announces (the
client's second callback), and Finish. The client may make any of its calls outside of the process
and from within both callbacks. Variables and terms have identities here, since the queues of
removals hold pointers, while measures and observations go by position. History variables remember
the last reading, how often it came in a row, and whether the client was told of it.

**FuzzyTerms** is one output and its terms: `_create_fuzzy_terms`, `_rearrange_fuzzy_terms`, the terms
a client adds and removes, and the counting and merging of the terms manager. Positions are
integers, default widths are not negative (the header asks for none that is), and a client's terms are
of the four shapes of `Shape`. `sml_process` is cut at its two callbacks: Begin (the queued removals), the
read callback (`pc` is "reading"), Read or Act, the change callback ("announcing"), Announced; the
client may make its calls in between, as the flow node sets ranges in the read callback.
`measure` is the variable's line of `last_stable_measure`: memberships as fractions, by position,
taken before terms are merged or removed and never moved with them. So after a merge Counted
counts the rest of the terms of that loop with their predecessors' memberships, as the code does.
History: the term each column of counts was begun for, and the term each weight is meant for.

**NaiveEngine** and **SmlFront** are the naive engine and the front with its debug log (built for
debugging). A log is a sequence of lines; Replay runs it on a fresh engine. The line of
`sml_remove_variable` has no newline and swallows the next one. History: `exact`, no call yet that
the log cannot express.

External code is modelled from how it is used: a `sol_worker_thread` calls `iterate` until it
returns false; `sol_worker_thread_feedback` asks the main loop for one call of `feedback`,
requests coalesce, and one that is still pending when the thread is reported is dropped;
`sol_worker_thread_cancel` waits for the current iteration and calls `finished` before it
returns. FANN is the choice of a training's ending. fuzzylite is the choice of the
terms a reading belongs to. The file system keeps what was written before the process died; a loss of
power is not modelled. The data directory is assumed to be set.

Operators whose comment starts with "Mutant" are plausible mistakes. They are used by no
specification; substituted for the definition that follows them they violate the property named
with them in `PROJECT.json`.

## 3. Runs and bounds

| Run | Question | Bounds |
|---|---|---|
| SmlCache | limit, ownership, order, refinement | 4 elements, limits 0..3 and 65537, default 3, 5 uses: eviction, shrinking by more than one, growing, truncation |
| AnnAnyClient | what holds without any discipline of the client, with failing trainings | 1 input, 1 output, pool of 1 growing to 2, cache 2 or 1 (65537), memory 1 float, hits 0 and 1 |
| AnnPool | rows and arrays | 2 inputs, 1 output, pool of 2 growing to 4 or set to 1, memory 5 floats, hits 1, a loaded network |
| AnnFiles | crashes and failing writes of a save | 3 networks in the cache, 6 states of knowledge, 3 saves: an older file with a higher number can be left over, and a third save can follow a torn second one |
| MLNodeSafety | locks, threads, requests; failing threads and sends | finite |
| MLNodeLive | requests served, answers delivered, close ends | nothing fails, the node is closed when idle |
| MLSync | locks, threads, queues, refinement, liveness | 3 packets, 2 erase requests, nothing fails, closed when idle |
| FuzzyLearning | knowledge, groups, rule groups, rule block | three layouts (MCLayouts), variables of 2 terms, a cache limit that may fall to 1. One input, one output, cache 2, 3 units of evidence, one other call: a known scenario is hit again next to another, and a third evicts one. Two inputs, cache 2, 2 units, 2 other calls: groups agree, conflict, merge and split. One input, two outputs, cache 3, 3 units, one other call (none on terms): a known scenario is hit next to a group that agrees with it on one output and not on the other |
| FuzzyTerms | columns of counts, weights and the cover of the range | ranges 0..60 and 0..30, width 20 (three terms, of which the last falls out of the narrower range), two positions read, 4 terms, counts to 2, 3 calls, a rebuild every 2 readings |
| FuzzyRange | a violation: a range that grows | ranges 0..40, 0..60, 50..90, no width set but the one the first layout leaves |
| FuzzyEngine | stabilization, announcing, removals, calls in callbacks | one input and one output that may go and come back, 2 terms each, hits 0 and 1, 3 calls of every kind and 5 calls and readings in all |
| SmlFront | log and replay | 2 names, 2 values, two FLL files, one with a name twice, 5 calls |

Pool sizes up to 4 with factor 2 and halving, two variables of one kind, and two networks are the
smallest numbers for which one array can be ahead of another, a pool can grow twice, and a second
network can be in training. Two observations are the fewest that agree or conflict, with a third
rule group made by a break; three calls are the fewest that queue a removal inside a callback, let it
fail, and change the engine again. The constants whose names begin with `Max` bound what the code
does not bound; an action that would exceed one is not taken, so most runs do not check deadlock:
the engine stops at a bound, a closed node has stopped. SmlFront has a CONSTRAINT, `StillExact`:
states after a call that the log cannot express are not explored further, since nothing is claimed of
them. `HitsRange` stands for 2^16, so that the counter wraps within the run.

Exceptions that properties make are in their formulas: EvidenceKept ends where an 8 bit sum would
wrap or the cache is too small for the parts of a group, RulesSpeakForAll, GroupsApart and ReloadKeeps
where a call failed halfway (`torn`), LearnsStable where the terms changed between two readings (they
are compared by position), LearningShows where another group was evicted (`Evicted`: it is gone, not
that the cache was full), CoverKept where the range grows, where the client adds or removes a term
itself, and where terms are merged while a callback's removals wait (`MergedAmidQueued`), and Durable
where the next save begins. These are the code's limits, seen in counterexamples without them.

`WellUsed` in AnnEngine states what RoomForNext and its companions ask of a client: an input and
an output whenever the engine runs, no larger pool while variables are pending, the strategy chosen
while there is no network, and neither the pool nor the memory limit changed between the first
network and the first reading. The code checks none of it; without it the arrays do overrun.
They overrun as well after a training ran out of memory (`TrainFailures`). AnnAnyClient needs
neither assumption.

One run expects a violation. `sml_fuzzy.h` promises that the range stays covered whenever it is set;
FuzzyRange shows that when the range grows, `sml_fuzzy_bridge_variable_term_triangle_update` sets
the left end of a term to its right one.

Five more disagreements between the code and its documentation are stated as properties of the
modules, which no run checks:

- `ZeroAlwaysStable` (AnnEngine): stabilization hits lowered to 0 below the running count leave readings
  unstable (`sml_ann.c:778` against `sml.h:344`);
- `TriggerServed` (MLNode): a TRIGGER alone starts no worker (`machine_learning.c:1003` against
  `machine_learning.json:136`);
- `EraseServed` (MLBase): an erase request that finds the worker about to end is not carried out
  (`machine_learning.c:886` against `machine_learning.json:168`);
- `PredictNotForgotten` (MLNode): a PREDICTION_TRIGGER that comes while a prediction runs is cleared with it
  (`machine_learning.c:950` against `machine_learning.json:128`);
- `NecessaryTermsStay` (FuzzyTerms): a range narrowed in the read callback (as `machine_learning.c:310` does)
  queues the terms outside of it after the removals of that process (`sml_fuzzy.c:998`); the balancing
  at its end may merge a term that the range needs into a queued one, and the next process removes both
  (against `sml_fuzzy.h:280`).

Name one under PROPERTIES or INVARIANTS of MLNodeLive.cfg (the first under AnnPool.cfg, with
`HitsArgs = {0}`; the last in place of CoverKept in FuzzyTerms.cfg) to see its trace.

The models also take these steps as the code does, against a comment or without a promise:

- a cache size of 0 keeps the old limit (`sml_cache.c:67`, against `sml_ann.h:302`); stabilization hits are 0
  until set (`sml.h:344` says 5);
- a changed layout trains at once, on arrays that are not full and while learning is disabled
  (`sml_ann.c:431`, against `sml_ann.h:316`); pseudorehearsal grows the arrays beyond the memory limit
  (`sml_ann.c:606`); the error of a training is dropped (`sml_ann.c:781`);
- a network whose file could not be written leaves a hole in the numbers, at which a load stops, and the
  save answers true (`sml_ann.c:898`); the file of the pseudorehearsal strategy is not cleaned;
- SAVE is cleared as PREDICTION_TRIGGER is (`machine_learning.c:956`);
- the fuzzy engine compares hits for equality as well (`sml_fuzzy.c:378`); its FLL loader keeps the last
  measure (`sml_fuzzy.c:87`); a save whose file cannot be closed leaves an empty rule block
  (`sml_fuzzy_bridge.cpp:195`); erasing from within the second callback leaves no measure to learn from,
  and the process dies (`sml_fuzzy.c:680`);
- once terms were merged, the rest of the loop in `_hit` counts each term with the membership of the
  one before it, as the measure is not shifted (`sml_terms_manager.c:212` after 231): the counts keep
  their places, and are not always of readings that fell on the term;
- `_split` of the terms manager always fails (it takes a `struct sml_fuzzy` for an engine), and merging
  reads 8 bit weights as 16 bit ones (`sml_observation.c:882`), which the model makes a choice of what
  lies behind them;
- a replayed log may find another variable of the same name, misses the line after
  `sml_remove_variable`, and repeats calls that had failed.

## 4. Fairness

Liveness is checked under `WF_vars(WorkerStep) /\ WF_vars(MainStep)`: a thread that can run is
scheduled, and the main loop dispatches the events it has (a feedback, a thread's end, the rest of
a handler). Nothing is assumed of the client: no packet ever has to come. `QuietClose` restricts
CloseTerminates to a node closed with nothing left to do, since `finished`, called from cancel,
otherwise starts a thread nobody reports, and close waits for its lock forever. The library itself
has no scheduling of its own: it runs when its client calls it, so the other modules state no
fairness.

## 5. Proofs

All theorems hold for every value of the constants.

- **CommonProofs**, of the cache: types, WithinLimit, OrderedByUse, OwnsWhatItHolds. The inductive invariant
  adds that time stamps lie in the past (`StampsPast`): a new or used element then comes after all
  others. Ordering gives that no pointer occurs twice, without which removing one occurrence would
  not remove the element, so ownership rests on it. The refinement of LruCache rests on it as well:
  a vector ordered by use has as many elements as its set (so "the vector is full" is "the set is
  full"), and every element dropped from the front was used before every one that stays.
  Of the front: ReplayReproduces, for any client, names, values and FLL files. The property speaks of
  states outside `sml_process`; `FrontInv` says the same of every state and adds that no two variables
  share a name (`Distinct`), without which the replay, which goes by name, would find another variable
  than the handle. The step is that of one line (`ReplayedIs`): the replay of a log with one line more is
  the replay followed by that line (`FoldAppend`), limits left out are written as those the variable had
  (`FilledIs`), and every call keeps names distinct unless it takes one (`EffectKeeps`). The loader of
  FLL files makes such calls in a fold of its own (`LoadedKeeps`, `FoldKeeps`).
  Of the asynchronous node: `LockInv` relates the lock, the thread and the phase of the main
  thread: where a handler may look at `base.worker`, it says whether the lock is held. Every
  scheduling handler therefore finds the lock free (NeverStuck), and close passes only without a
  thread. It speaks of MLBase alone, so both kinds of nodes share it. EraseNotForgotten rests on the
  snapshot being taken and the flag reset at once. Of the synchronous one: `ErasedBefore` from an
  invariant that orders the erase counts along the queue, `NothingLost` and `InOrder` from the
  numbering of packets, and the refinement of FifoServer step by step.
- **AnnProofs**, of the engine: the types of the engine, action by action, with lemmas on what training
  returns (it never shrinks the pool, a trained network stays trained, and a network left in
  training makes the pool grow). For an engine used well (`WellUsed`) and without failing
  trainings, `PoolInv` is inductive together with the types: the arrays of listed variables are
  no shorter than the pool, not full, and filled to the same row whenever the engine runs, and a
  variable that waits to join has an array that fits; RoomForNext and RowsAligned follow. For any client and any training:
  CacheBounded, and StableEnough from `CountsQuiet`, which compares the engine's counter with the
  number of unchanged readings there really were.
  NothingDangles holds for any client. `ListsInv` adds that no list holds a variable
  twice and that one that waits to join is in no other list: the code takes a variable off a list
  once, which would leave a second entry behind.
  BuiltForLayout, for any client and any training, follows where the networks of a cache come
  from. For an engine used well, OneInTraining: `Single` says that the
  untrained networks have one index, which survives selection, eviction and growth. UsableNetworks,
  where no training runs out of memory, is proved with what makes it inductive (`Sound`): a network
  is found by its confidence intervals exactly when it is trained, and after a training in vain
  half of the pool is still a positive number and, in the first run, the memory suffices for it. The
  latter needs `PoolInv`.
  Of the files: NeverMixed and Durable, for a cache of any size, any number of saves, a death
  at any step and any pattern of failing writes. The properties speak of what a load would find; the
  invariant `FilesInv` speaks of the files: whatever pair is on the disk belongs to one save, and a file
  of number n holds the network n + 1 of what that save found trained (`Holds`). That is inductive
  because the running save knows its place (`Numbered`: the next number is how many trained networks
  come before the next one) and starts from a directory without pairs. `Written` says which files are
  complete as long as no write failed, and `Kept` what of it is left when the save has answered.
- **FuzzyEngineProofs**: CountsCover, LearnsStable and NoNagging, for any layout and any client,
  whatever it calls from within the callbacks and however removals fail. `EngineInv` is inductive.
  `Covers`: the counts kept by hand reach the sum of the terms of the listed variables (a fold, see
  below). `Steady`: the engine's counter of equal readings is never ahead of the number there really
  were, except where the comparison goes by position over changed terms. `Remembered`: a scenario
  that was told and not followed by a change is the one the engine's flag stands for. The
  controller's operators are not opened: what they make of the knowledge is any value.
- **FuzzyTermsProofs**: TermsAligned, for any ranges, widths, readings and client terms, whatever is
  called from within the callbacks, and however removals and learning fail. It says that the columns
  keep their places, not what is counted in them: the proof takes any measure. `Fits` makes it inductive: the types of the terms, the counts and the
  observations (without them no index is known to point anywhere), that nothing is weighed without an
  observation, and that counts and weights belong to the first terms in their order. Laying terms out,
  moving them and following the range take no term away (`Grown`): removals wait in the queue until the
  next process, where each takes the same place out of the terms, the counts and the weights, or fails
  before it took anything. While `_hit` runs along the terms, `Going` keeps its position at most one
  beyond the counts and its length within the terms. Which neighbour is hit least, and so which terms
  are merged, does not matter. Laying out, removing and hitting are folds, kept by `FoldKeeps`.
- **FuzzyLearningProofs**: NoFreedGroup, CoveredOnce, BlockOwned, RulesSpeakForAll and GroupsApart, for any
  variables and terms, measures, shares, weights and cache limits, any number of calls, and whatever call
  fails halfway. They follow from one invariant, `LearnInv`: the variables have their types (`Vars`), and
  the knowledge is `Sane` whichever rule is counted. That is, each output has its list of rule groups
  (`Outlined`) and the list is for what the cache holds, which is what exists (`Whole`). None of the five
  is inductive alone. An eviction takes a group from all lists and frees it, so that what exists, what is
  cached and what the lists hold must be compared together. A rule group whose last member goes is freed
  with its rules, so the block is compared as well: rule by rule (`Copies` against the fold `Uses`, and
  `Total` over the outputs), which is why the invariant ranges over all rules. And a rule speaks for
  its members only where merging and splitting leave the groups apart (`Apart`), which in turn is lost
  once a call failed. What a proof may claim of the rules at a moment is a record, the claim: that they speak
  (`speaks`), for all but some groups (`but`), that those of some groups are made from what is known now
  (`fresh`), that no rule group has two members (`single`). The steps within a call weaken the claim and
  make it good again; between two calls it is the full one while `torn` is empty, and only the structure
  otherwise.
  The lemmas come in three layers. **FuzzyRulesProofs**: an operation on one list keeps it `Listed` and its
  rules in the block (`Sound`); a fold of it over the outputs keeps the map (`Mapped`); with heap and
  cache the knowledge is `Kept`, also while the cache is emptied or shrinks. Then learning, and
  observations that merge and split. **FuzzyControllerProofs**: `_merge_obs_groups` and the splitting of
  groups leave groups that are `Apart`; loading puts observations back one by one; a variable or a term
  goes, an input is enabled. **FuzzyLearningProofs**: a term or a variable comes, a measure is
  learnt, and the invariant, call by call. Every loop of the code is a fold, and every fold an instance of
  SeqLemmas: there are 27.
- **SeqLemmas**: what removal and the set of elements do to a sequence; induction on the natural
  numbers, in a form without operator parameters (a set that holds 0 and is closed under successor,
  from the least element of its complement); and folds. The library defines FoldLeft by a CHOOSE over
  the recursive functions on the subsets of the positions. The module takes the step of a fold
  and an invariant as CONSTANTS, shows that such a function exists, that it runs through the
  positions in order (`FoldRun`), what one element more makes of it (`FoldAppend`), and that it keeps an
  invariant of the step (`FoldKeeps`), or one that tells how far it has come (`FoldsAlong`). A fold that adds
  up is a sum: it has a type, and is known after an element was appended, exchanged or taken out
  (`SumAppend`, `SumExcept`, `SumCut`). A proof module instantiates it once for each fold of its model.

Assumptions are the named ASSUMEs on the constants (`CacheAssumption`, `AnnAssumption`,
`FilesAssumption`, `WeightAssumption`, `ShareAssumption`, `LearningAssumption`, `TermsAssumption`, `EngineAssumption`, `FrontAssumption`, `MLBaseAssumption`, `MLNodeAssumption`, `MLSyncNodeAssumption`).

Only model-checked:

- every liveness property (the prover has no ENABLED and no fairness reasoning);
- RulesLive of FuzzyEngine: it compares rules with the identities of the terms they name, through operators of the
  controller that the proofs of FuzzyEngine do not open;
- ReloadKeeps of FuzzyLearning: that loading one by one gives the same groups needs the order in which
  they were saved along with `Apart`, an induction over groups and, within, over their observations;
- LearningShows and EvidenceKept of FuzzyLearning. The second is a sum over a set of sums over a set, through
  merging and splitting;
- CoverKept of FuzzyTerms, which compares the union of all terms with that of the step before.

The expected violation is a counterexample and needs no proof.

## 6. Plan

1. Proofs of ReloadKeeps and EvidenceKept, from `LearnInv`, and of RulesLive.
2. A node composed with its engine: knowledge loaded at open against variables that join at
   connect; `update_variables` of the synchronous node.
3. An abstract specification of stabilization that both engines implement.
4. The directory of the fuzzy engine (FLL file, observations and hits, written one after the other)
   with a crash in between, as AnnFiles does for networks.
5. `BitArray` as a function against a plain array, with its packing.

## 7. How to run

`tlc -config X.cfg M` for each run of `PROJECT.json`, `tlapm M.tla` for each module of proofs.

## 8. Not modelled

The main loop (calls handed on to GLib's timers); the packing of the bit array; what `_split` and
`_initialize_variable` of the terms manager would do if they worked; the directory of the fuzzy engine as
files; the arithmetic of fuzzylite and FANN (floating point: memberships, defuzzification, training);
failing allocations outside of the cache and the observation arrays; print_debug and the log's
wording; strings (no state); simulator, examples and the garden node (clients); tagging of ports and
variables in the flow nodes.
