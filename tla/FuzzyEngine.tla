---------------------------- MODULE FuzzyEngine ----------------------------
(***************************************************************************)
(* sml_fuzzy.c: how sml_process of the fuzzy engine takes a reading, waits *)
(* for it to be stable, predicts, tells its client, and learns, and what   *)
(* the client may call in between and from within the two callbacks.       *)
(*                                                                         *)
(* A reading names, for each variable, the terms whose membership passes   *)
(* the threshold.  Variables and terms have identities (pointers): the     *)
(* queues of what is to be removed refer to them.                          *)
(***************************************************************************)
EXTENDS FuzzyController

CONSTANTS InPatterns, OutPatterns,  \* sets of terms a variable may be read to belong to
          InLayout, OutLayout,      \* terms of the variables at the start, and in a file
          Hits,                     \* stabilization hits; the client's choices
          Sizes,                    \* observation memory limits (0: none)
          ObservationSize,          \* sizeof(struct sml_observation)
          VectorSize,               \* sizeof(struct sol_vector)
          DefaultTerms,             \* terms laid over a variable without any
          Calls,                    \* the calls explored
          MaxCalls, MaxUsed,        \* bounds on calls, and on calls and readings
          MaxTerms, MaxVariables,   \* bounds on terms and variables
          HitsRange                 \* 2^16: hits are 16 bit

ASSUME EngineAssumption ==
    /\ Hits \subseteq Nat /\ Sizes \subseteq Nat
    /\ ObservationSize \in Nat \ {0} /\ VectorSize \in Nat
    /\ DefaultTerms \in Nat \ {0} /\ MaxUsed \in Nat /\ MaxCalls \in Nat
    /\ HitsRange \in Nat \ {0} /\ \A n \in Hits : n < HitsRange
    /\ InLayout \in Seq(Nat) /\ OutLayout \in Seq(Nat)

None == [in |-> <<>>, out |-> <<>>, none |-> TRUE]   \* the NULL measure
NaN  == {0}                                          \* the membership of no number

VARIABLES fuzzy,   \* struct sml_fuzzy: variables, their terms, and the counts of terms
          know,    \* the observation controller
          eng,     \* struct sml_engine and the rest of struct sml_fuzzy_engine
          gone,    \* queues: inputs, outputs and terms to be removed
          pc,      \* where sml_process is: "idle", in one of the callbacks, or "crash"
          hist,    \* history: the last reading, how often it came, what was told
          used     \* history: how many calls and readings there were

engineVars == <<fuzzy, know, eng, gone, pc, hist, used>>

-----------------------------------------------------------------------------
(* Variables                                                               *)

NewVariable(id, n) == [id |-> id, terms |-> [t \in 1..n |-> t], on |-> TRUE]

\* All terms, given how many each variable has.
Total(counts) == FoldLeft(LAMBDA sum, n : sum + n, 0, counts)

Loaded(ins, outs) ==
    [ins  |-> [i \in DOMAIN ins |-> NewVariable(i, ins[i])],
     outs |-> [o \in DOMAIN outs |-> NewVariable(o, outs[o])],
     inCount  |-> Total(ins),
     outCount |-> Total(outs)]

\* What the controller sees of the variables.
View(f) == [inTerms   |-> [i \in DOMAIN f.ins |-> Len(f.ins[i].terms)],
            inEnabled |-> [i \in DOMAIN f.ins |-> f.ins[i].on],
            outTerms  |-> [o \in DOMAIN f.outs |-> Len(f.outs[o].terms)]]

FreshId(S) == CHOOSE n \in 1..(Cardinality(S) + 1) : n \notin S

Ids(list) == {list[i].id : i \in DOMAIN list}

WithTerms(f, input, v, n) ==
    LET Grown(x) == [x EXCEPT !.terms = FoldLeft(LAMBDA ts, k : Append(ts, FreshId(Range(ts))),
                                                 @, [k \in 1..n |-> k])]
    IN  IF input THEN [f EXCEPT !.ins[v] = Grown(@), !.inCount = @ + n]
                 ELSE [f EXCEPT !.outs[v] = Grown(@), !.outCount = @ + n]

\* The variables of a list without terms: <<is input, position>>.
TermlessIn(list, input) ==
    FoldLeft(LAMBDA found, i : IF list[i].terms = <<>> THEN Append(found, <<input, i>>)
                                                       ELSE found,
             <<>>, [i \in DOMAIN list |-> i])

\* _fuzzy_initialize_terms looks at the inputs first.
Termless(f) == TermlessIn(f.ins, TRUE) \o TermlessIn(f.outs, FALSE)

\* Mutant: the new terms are not counted.
TermsInitializedUncounted(f, n) ==
    [FoldLeft(LAMBDA g, p : WithTerms(g, p[1], p[2], DefaultTerms), f, SubSeq(Termless(f), 1, n))
        EXCEPT !.inCount = f.inCount, !.outCount = f.outCount]

\* _fuzzy_initialize_terms, of the first n of them.
TermsInitialized(f, n) ==
    FoldLeft(LAMBDA g, p : WithTerms(g, p[1], p[2], DefaultTerms), f, SubSeq(Termless(f), 1, n))

Position(list, id) == FirstWhere(list, LAMBDA x : x.id = id)

\* sml_fuzzy_remove_variable
VariableDropped(f, input, v) ==
    IF input THEN [f EXCEPT !.ins = RemoveAt(@, v), !.inCount = @ - Len(f.ins[v].terms)]
             ELSE [f EXCEPT !.outs = RemoveAt(@, v), !.outCount = @ - Len(f.outs[v].terms)]

\* sml_fuzzy_bridge_variable_remove_term: the counts stay as they are.
TermDropped(f, input, v, t) ==
    IF input THEN [f EXCEPT !.ins[v].terms = RemoveAt(@, t)]
             ELSE [f EXCEPT !.outs[v].terms = RemoveAt(@, t)]

-----------------------------------------------------------------------------
(* Measures                                                                *)

Line(lines, v) == IF v \in DOMAIN lines THEN lines[v] ELSE {}

\* sml_matrix_equals, negated: what is missing compares as 0.
Differ(old, new) ==
    \E v \in DOMAIN old \cup DOMAIN new : Line(old, v) # Line(new, v)

\* A measure as the controller reads it: by position.
Fitted(m, z) == [in  |-> [i \in DOMAIN z.inTerms |-> Line(m.in, i)],
                 out |-> [o \in DOMAIN z.outTerms |-> Line(m.out, o)]]

WithoutLine(m, input, v) ==
    IF input THEN [m EXCEPT !.in = IF v \in DOMAIN @ THEN RemoveAt(@, v) ELSE @]
             ELSE [m EXCEPT !.out = IF v \in DOMAIN @ THEN RemoveAt(@, v) ELSE @]

Readings(z) == {m \in [in   : [DOMAIN z.inTerms -> InPatterns],
                       out  : [DOMAIN z.outTerms -> OutPatterns],
                       none : {FALSE}] :
                 /\ \A i \in DOMAIN z.inTerms : m.in[i] \subseteq 1..z.inTerms[i]
                 /\ \A o \in DOMAIN z.outTerms : m.out[o] \subseteq 1..z.outTerms[o]}

\* The rules about output o that the reading m fires.
Firing(m, o) == {r \in BagToSet(know.block) : r.out = o /\ \A p \in r.if : p[2] \in Line(m.in, p[1])}

\* sml_fuzzy_process_output: an output no rule speaks of becomes NaN.
Predictions(m, z) ==
    {p \in [DOMAIN z.outTerms -> OutPatterns \cup {NaN}] :
        \A o \in DOMAIN z.outTerms :
            /\ p[o] = NaN <=> Firing(m, o) = {}
            /\ p[o] # NaN => p[o] \subseteq 1..z.outTerms[o]}

-----------------------------------------------------------------------------
(* Removals                                                                *)

\* s is [fuzzy, know, last, end, removed].
VariableGone(s, input, id) ==
    LET v == Position(IF input THEN s.fuzzy.ins ELSE s.fuzzy.outs, id)
    IN  IF v = 0 THEN s
        ELSE [s EXCEPT !.fuzzy = VariableDropped(@, input, v),
                       !.know  = VariableRemoved(@, v, input),
                       !.last  = WithoutLine(@, input, v)]

\* _remove_variables; both queues are emptied.
VariablesGone(s) ==
    FoldLeft(LAMBDA x, id : VariableGone(x, FALSE, id),
             FoldLeft(LAMBDA x, id : VariableGone(x, TRUE, id), s, gone.ins), gone.outs)

\* _remove_terms: one term; after an error the rest is not looked at.
TermGoneFrom(s, input, v, t, result) ==
    IF result[2] = "ok"
    THEN [s EXCEPT !.fuzzy = TermDropped(@, input, v, t), !.know = result[1], !.removed = TRUE]
    ELSE [s EXCEPT !.know = result[1], !.end = result[2]]

TermGone(s, q) ==
    LET list == IF q.input THEN s.fuzzy.ins ELSE s.fuzzy.outs
        v == Position(list, q.var)
        t == IF v = 0 THEN 0 ELSE FirstWhere(list[v].terms, LAMBDA x : x = q.term)
    IN  IF s.end # "ok" \/ t = 0 THEN s
        ELSE TermGoneFrom(s, q.input, v, t, TermRemoved(s.know, v, t, q.input))

\* Mutant: the rules are made again only when variables were removed.
TermsLeaveRules(s) ==
    IF s.end = "ok" /\ s.removed /\ gone.terms = <<>>
    THEN [s EXCEPT !.know = PostRemove(View(s.fuzzy), @)] ELSE s

\* The rules are made again only if nothing failed.
RulesMadeAgain(s) ==
    IF s.end = "ok" /\ s.removed
    THEN [s EXCEPT !.know = PostRemove(View(s.fuzzy), @)] ELSE s

\* sml_observation_controller_update_cache_size and _handle_removals
RemovalsHandled(max) ==
    RulesMadeAgain(FoldLeft(TermGone,
        VariablesGone([fuzzy |-> fuzzy, know |-> CacheResized(know, max), last |-> eng.last,
                       end |-> "ok", removed |-> gone.ins \o gone.outs # <<>>]),
        gone.terms))

\* The groups that fit the limit; sml_observation_estimate_size
CacheLimit ==
    LET size == ObservationSize + VectorSize * (Len(fuzzy.ins) + Len(fuzzy.outs))
                    + fuzzy.outCount + fuzzy.inCount \div 8 + 1
    IN  CASE eng.max = 0 -> 0
          [] eng.max # 0 /\ eng.max < size -> 1
          [] OTHER -> eng.max \div size

-----------------------------------------------------------------------------
(* History                                                                 *)

\* The reading m came: how often in a row, and whether anyone was told of its
\* inputs yet.
Heard(h, m) == [h EXCEPT !.prev = m,
                         !.same = IF h.prev # m THEN 1 ELSE IF @ < HitsRange THEN @ + 1 ELSE @,
                         !.sure = @ \/ h.prev \notin {None, m},
                         !.told = @ /\ h.prev.in = m.in]

\* A reading was taken for stable: it is rash if it did not come often
\* enough.  Counting starts again.
Counted(h) == [h EXCEPT !.rash = @ \/ (h.sure /\ h.same <= eng.stab),
                        !.same = 0, !.sure = TRUE]

\* The terms changed: readings before and after do not compare.
Reshaped(h) == [h EXCEPT !.prev = None, !.same = 0, !.sure = FALSE, !.told = FALSE]

ShapeHeard(h, f) == IF View(f).inTerms = View(fuzzy).inTerms /\ f.outs = fuzzy.outs
                       /\ \A i \in DOMAIN f.ins : f.ins[i].id = fuzzy.ins[i].id
                    THEN h ELSE Reshaped(h)

-----------------------------------------------------------------------------
(* sml_process                                                             *)

Ends == pc' = "idle" /\ UNCHANGED used

\* Up to the read callback.  With automatic balance a variable without terms
\* ends it: sml_terms_manager_initialize_variable always fails.
Start ==
    \E s \in {RemovalsHandled(CacheLimit)} :
        /\ pc = "idle"
        /\ fuzzy' = s.fuzzy
        /\ know' = s.know
        /\ eng' = [eng EXCEPT !.last = s.last]
        /\ gone' = IF s.end = "ok" THEN [ins |-> <<>>, outs |-> <<>>, terms |-> <<>>]
                                   ELSE [gone EXCEPT !.ins = <<>>, !.outs = <<>>]
        /\ hist' = ShapeHeard(hist, s.fuzzy)
        /\ pc' = CASE s.end = "crash" -> "crash"
                   [] s.end = "ok" /\ ~(eng.auto /\ Termless(s.fuzzy) # <<>>) -> "reading"
                   [] OTHER -> "idle"
        /\ UNCHANGED used

ReadFails == /\ pc = "reading"
             /\ Ends
             /\ UNCHANGED <<fuzzy, know, eng, gone, hist>>

\* A variable that has neither terms nor a range.
InitializeFails(n) ==
    /\ pc = "reading"
    /\ n < Len(Termless(fuzzy))
    /\ fuzzy' = TermsInitialized(fuzzy, n)
    /\ hist' = ShapeHeard(hist, fuzzy')
    /\ Ends
    /\ UNCHANGED <<know, eng, gone>>

\* The last steps, eng' being known: learning and balancing the terms need a
\* measure.  Balancing is the subject of FuzzyTerms.
Finish(f, learns, grows) ==
    LET result == ObservationLearnt(View(f), know, Fitted(eng'.last, View(f)), grows)
    IN  CASE learns /\ eng.learn /\ eng'.last = None ->
               pc' = "crash" /\ know' = know
          [] learns /\ eng.learn /\ eng'.last # None ->
               pc' = "idle" /\ know' = result[1]
          [] ~(learns /\ eng.learn) ->
               pc' = (IF eng.auto /\ eng'.last = None THEN "crash" ELSE "idle") /\ know' = know

\* Mutant: a change of the inputs does not start the count again.
MeasuredOn(e, m) ==
    LET changed == e.last = None \/ Differ(e.last.in, m.in) \/ Differ(e.last.out, m.out)
    IN  [e EXCEPT !.last = IF changed THEN m ELSE @,
                  !.called = @ /\ e.last # None /\ ~Differ(e.last.in, m.in)]

\* _pre_process, as far as the change goes.
Measured(e, m) ==
    LET changed == e.last = None \/ Differ(e.last.in, m.in) \/ Differ(e.last.out, m.out)
    IN  [e EXCEPT !.last = IF changed THEN m ELSE @,
                  !.hits = IF changed THEN 0 ELSE @,
                  !.called = @ /\ e.last # None /\ ~Differ(e.last.in, m.in)]

Stable(m) == Measured(eng, m).hits = eng.stab

\* Without terms on both sides nothing is measured.
ReadNothing(f) ==
    /\ pc = "reading"
    /\ f.inCount = 0 \/ f.outCount = 0
    /\ fuzzy' = f /\ eng' = eng /\ hist' = ShapeHeard(hist, f)
    /\ Finish(f, FALSE, TRUE)
    /\ UNCHANGED <<gone, used>>

\* A reading; what follows depends on whether it is stable.
Reads(m, f) == /\ pc = "reading"
               /\ f.inCount # 0 /\ f.outCount # 0
               /\ used.calls + used.readings < MaxUsed
               /\ used' = [used EXCEPT !.readings = @ + 1]
               /\ fuzzy' = f
               /\ UNCHANGED gone

ReadUnstable(m, f) ==
    /\ Reads(m, f)
    /\ ~Stable(m)
    /\ eng' = [Measured(eng, m) EXCEPT !.hits = (@ + 1) % HitsRange]
    /\ hist' = Heard(ShapeHeard(hist, f), m)
    /\ Finish(f, FALSE, TRUE)

Settled(m) == [Measured(eng, m) EXCEPT !.hits = 0, !.last = m]

MustLearn(m) == Measured(eng, m).called \/ know.block = EmptyBag

ReadLearns(m, f, grows) ==
    /\ Reads(m, f)
    /\ Stable(m)
    /\ eng' = Settled(m)
    /\ hist' = Counted(Heard(ShapeHeard(hist, f), m))
    /\ \/ MustLearn(m)
       \/ ~MustLearn(m) /\ ~eng.listens
       \/ ~MustLearn(m) /\ eng.listens /\ m.out \in Predictions(m, View(f))
    /\ Finish(f, TRUE, grows)

\* The engine's inference fails.
ActFails(m, f) ==
    /\ Reads(m, f)
    /\ Stable(m) /\ ~MustLearn(m)
    /\ eng' = Settled(m)
    /\ hist' = Counted(Heard(ShapeHeard(hist, f), m))
    /\ pc' = "idle"
    /\ UNCHANGED know

Announces(m, f) ==
    /\ Reads(m, f)
    /\ Stable(m) /\ ~MustLearn(m) /\ eng.listens
    /\ \E p \in Predictions(m, View(f)) : Differ(p, m.out)
    /\ eng' = Settled(m)
    /\ hist' = [Counted(Heard(ShapeHeard(hist, f), m)) EXCEPT !.told = TRUE]
    /\ pc' = "announcing"
    /\ UNCHANGED know

\* Mutant: it is forgotten that the client was told.
AnnouncedForgets(grows) ==
    /\ pc = "announcing"
    /\ eng' = eng
    /\ Finish(fuzzy, TRUE, grows)
    /\ UNCHANGED <<fuzzy, gone, hist, used>>

\* The client returns from the change callback.
Announced(grows) ==
    /\ pc = "announcing"
    /\ eng' = [eng EXCEPT !.called = TRUE]
    /\ Finish(fuzzy, TRUE, grows)
    /\ UNCHANGED <<fuzzy, gone, hist, used>>

-----------------------------------------------------------------------------
(* The calls of a client, from outside or from within a callback           *)

Call(kind) == /\ kind \in Calls
              /\ used.calls < MaxCalls /\ used.calls + used.readings < MaxUsed
              /\ used' = [used EXCEPT !.calls = @ + 1]
              /\ pc # "crash"

Reshape(f) == /\ fuzzy' = f
              /\ hist' = ShapeHeard(hist, f)
              /\ UNCHANGED <<know, eng, gone, pc>>

Configure(e) == /\ eng' = e
                /\ UNCHANGED <<fuzzy, know, gone, pc, hist>>

Enqueue(q) == /\ gone' = q
              /\ UNCHANGED <<fuzzy, know, eng, pc, hist>>

AddInput == /\ Call("variables")
            /\ Len(fuzzy.ins) < MaxVariables
            /\ Reshape([fuzzy EXCEPT !.ins = Append(@, NewVariable(FreshId(Ids(@)), 0))])

AddOutput == /\ Call("variables")
             /\ Len(fuzzy.outs) < MaxVariables
             /\ Reshape([fuzzy EXCEPT !.outs = Append(@, NewVariable(FreshId(Ids(@)), 0))])

AddTerm(input, v) == /\ Call("terms")
                     /\ Len((IF input THEN fuzzy.ins ELSE fuzzy.outs)[v].terms) < MaxTerms
                     /\ Reshape(WithTerms(fuzzy, input, v, 1))

\* sml_remove_variable and sml_fuzzy_variable_remove_term only queue.
RemoveInput(v) == /\ Call("variables")
                  /\ Enqueue([gone EXCEPT !.ins = Append(@, fuzzy.ins[v].id)])

RemoveOutput(v) == /\ Call("variables")
                   /\ Enqueue([gone EXCEPT !.outs = Append(@, fuzzy.outs[v].id)])

RemoveTerm(input, v, t) ==
    LET x == (IF input THEN fuzzy.ins ELSE fuzzy.outs)[v]
    IN  /\ Call("terms")
        /\ Enqueue([gone EXCEPT !.terms =
               Append(@, [input |-> input, var |-> x.id, term |-> x.terms[t]])])

\* The rules are made again at once, in the middle of sml_process as well.
\* (After an output was removed and a term was not, the lists of rule groups
\* outnumber the outputs; that is not explored.)
SetEnabled(v) == /\ Call("enable")
                 /\ Len(know.map) <= Len(fuzzy.outs)
                 /\ fuzzy' = [fuzzy EXCEPT !.ins[v].on = ~@]
                 /\ know' = VariableSetEnabled(View(fuzzy'), know, fuzzy'.ins[v].on)
                 /\ UNCHANGED <<eng, gone, pc, hist>>

SetStabilizationHits(n) == Call("hits") /\ n # eng.stab /\ Configure([eng EXCEPT !.stab = n])

SetLearnDisabled == Call("learn") /\ Configure([eng EXCEPT !.learn = ~@])

SetChangeCallback == Call("listen") /\ Configure([eng EXCEPT !.listens = ~@])

SetAutoBalance == Call("auto") /\ Configure([eng EXCEPT !.auto = ~@])

SetMaxMemory(n) == Call("memory") /\ n # eng.max /\ Configure([eng EXCEPT !.max = n])

\* output_state_changed_called keeps its value, and so do the queues.
EraseKnowledge ==
    /\ Call("erase")
    /\ know' = ControllerCleared([know EXCEPT !.block = EmptyBag])
    /\ eng' = [eng EXCEPT !.last = None, !.hits = 0]
    /\ hist' = [hist EXCEPT !.prev = None, !.same = 0, !.told = FALSE]
    /\ UNCHANGED <<fuzzy, gone, pc>>

\* sml_load_fll_file: new variables, nothing known of them; but the last
\* measure and the hits are still those of the old ones.
LoadFllFile ==
    /\ Call("load")
    /\ fuzzy' = Loaded(InLayout, OutLayout)
    /\ know' = ControllerCleared([know EXCEPT !.block = EmptyBag])
    /\ gone' = [ins |-> <<>>, outs |-> <<>>, terms |-> <<>>]
    /\ hist' = Reshaped(hist)
    /\ UNCHANGED <<eng, pc>>

\* sml_fuzzy_save_file, when the file cannot be closed: the engine is left
\* with the empty rule block that was made for the file.
SaveFails == /\ Call("save")
             /\ know' = [know EXCEPT !.block = EmptyBag]
             /\ UNCHANGED <<fuzzy, eng, gone, pc, hist>>

EngineInit ==
    /\ fuzzy = Loaded(InLayout, OutLayout)
    /\ know = NewController
    /\ eng = [hits |-> 0, stab |-> 0, called |-> FALSE, last |-> None, learn |-> TRUE,
              listens |-> TRUE, auto |-> FALSE, max |-> 0]
    /\ gone = [ins |-> <<>>, outs |-> <<>>, terms |-> <<>>]
    /\ pc = "idle"
    /\ hist = [prev |-> None, same |-> 0, sure |-> TRUE, told |-> FALSE,
               rash |-> FALSE]
    /\ used = [calls |-> 0, readings |-> 0]

Process ==
    \/ Start
    \/ ReadFails
    \/ \E n \in 0..(Len(fuzzy.ins) + Len(fuzzy.outs)) : InitializeFails(n)
    \/ \E f \in {TermsInitialized(fuzzy, Len(Termless(fuzzy)))} :
          \/ ReadNothing(f)
          \/ \E m \in Readings(View(f)) :
                \/ ReadUnstable(m, f)
                \/ \E grows \in Growths(View(f), know, m) : ReadLearns(m, f, grows)
                \/ ActFails(m, f)
                \/ Announces(m, f)
    \/ \E grows \in Growths(View(fuzzy), know, Fitted(eng.last, View(fuzzy))) :
          Announced(grows)

Client ==
    \/ AddInput \/ AddOutput
    \/ \E v \in DOMAIN fuzzy.ins : AddTerm(TRUE, v) \/ RemoveInput(v) \/ SetEnabled(v)
    \/ \E v \in DOMAIN fuzzy.outs : AddTerm(FALSE, v) \/ RemoveOutput(v)
    \/ \E v \in DOMAIN fuzzy.ins : \E t \in DOMAIN fuzzy.ins[v].terms : RemoveTerm(TRUE, v, t)
    \/ \E v \in DOMAIN fuzzy.outs : \E t \in DOMAIN fuzzy.outs[v].terms : RemoveTerm(FALSE, v, t)
    \/ \E n \in Hits : SetStabilizationHits(n)
    \/ SetLearnDisabled \/ SetChangeCallback \/ SetAutoBalance
    \/ \E n \in Sizes : SetMaxMemory(n)
    \/ EraseKnowledge \/ LoadFllFile \/ SaveFails

EngineNext == Process \/ Client

EngineSpec == EngineInit /\ [][EngineNext]_engineVars

-----------------------------------------------------------------------------
(* Properties                                                              *)

\* The counts that the arrays of a rule's weights are sized by never fall
\* below the terms there are (sml_rule_group.c:sml_rule_group_rule_generate),
\* though they are kept by hand and removed terms stay counted.
CountsCover ==
    /\ Total(View(fuzzy).inTerms) <= fuzzy.inCount
    /\ Total(View(fuzzy).outTerms) <= fuzzy.outCount

\* The client is told once of a scenario: not again before the inputs have
\* changed, the terms have, or all was erased, although in between readings
\* fail, the knowledge is changed and the outputs are other ones
\* (sml_fuzzy.c: output_state_changed_called).
NoNagging ==
    [][pc = "reading" /\ pc' = "announcing" => ~Heard(hist, eng'.last).told]_engineVars

\* Nothing is learnt or acted on that was not read stabilization_hits + 1
\* times in a row, since it was last learnt and since all was erased, whatever
\* is called in between; unless the terms changed on the way, for readings are
\* compared by position (sml_fuzzy.c:_pre_process).
LearnsStable == ~hist.rash

\* sml_process predicts with rules of the variables and terms there are: after
\* a removal that failed halfway it comes to no prediction before the rules
\* have been made again (sml_fuzzy.c:_handle_removals), and none of the calls
\* from within the callbacks leaves a rule behind.
RulesLive ==
    pc \in {"reading", "announcing"} =>
       \A r \in BagToSet(know.block) :
          /\ r.out \in DOMAIN fuzzy.outs /\ r.then \in DOMAIN fuzzy.outs[r.out].terms
          /\ \A p \in r.if : p[1] \in DOMAIN fuzzy.ins /\ p[2] \in DOMAIN fuzzy.ins[p[1]].terms

=============================================================================
