----------------------------- MODULE FuzzyTerms -----------------------------
(***************************************************************************)
(* The terms of one output of the fuzzy engine: how sml_fuzzy.c lays them  *)
(* over the range of the variable and follows the range, how clients add   *)
(* and remove them, and how sml_terms_manager.c counts the readings that   *)
(* fall on each of them and merges those that are hardly ever hit.         *)
(*                                                                         *)
(* Positions are integers.  Terms, counts and the weights of the           *)
(* observations refer to each other by index only.                         *)
(***************************************************************************)
EXTENDS FuzzyObservation, Integers

CONSTANTS DEFAULT_NUM_TERMS,   \* terms made when no width is given
          OverlapPart,         \* terms overlap by 1/OverlapPart of their width
          ThresholdPart,       \* a membership of 1/ThresholdPart counts
          MAX_HIT,             \* readings from one rebuild to the next
          MAX_CAP, MIN_CAP,    \* above: split, below: merge
          Ranges,              \* ranges a client sets, and
          Widths,              \* default widths
          Values,              \* readings of the variable
          ClientTerms,         \* terms a client adds
          Calls,               \* the calls explored
          MaxTerms,            \* bound on the terms
          MaxCount,            \* bound on the hits of a term
          MaxCalls             \* bound on the calls other than sml_process

\* A membership function as its positions; a curve's are those where it passes
\* the threshold.
Shape == [kind : {"triangle", "rectangle", "ramp", "curve"}, lo : Int, peak : Int, hi : Int]

ASSUME TermsAssumption ==
    /\ DEFAULT_NUM_TERMS \in Nat \ {0} /\ OverlapPart \in Nat \ {0}
    /\ ThresholdPart \in Nat \ {0}
    /\ MAX_HIT \in Nat \ {0} /\ MAX_CAP \in Nat /\ MIN_CAP \in Nat
    /\ Ranges \subseteq Int \X Int /\ Values \subseteq Int
    /\ \A r \in Ranges : r[1] < r[2]
    /\ Widths \subseteq Nat /\ ClientTerms \subseteq Shape

\* A width that was not set: no width is negative.
NaN == -1

VARIABLES pc,        \* where sml_process is: "idle", "reading" or "announcing" (in
                     \* one of the two callbacks), or "crash"
          var,       \* the variable: terms, range, width and is_id
          queue,     \* terms_to_be_removed
          auto,      \* variable_terms_auto_balance
          hits,      \* the variable's line in the terms manager's matrix: counts,
                     \* each with the term (history) it was begun for
          total,     \* readings since the last rebuild
          measure,   \* last_stable_measure's line for the variable (none, or one)
          known,     \* the observations (none, or one)
          weighed,   \* history: the terms that the weights are meant for
          calls      \* history: how many calls there were

termVars == <<pc, var, queue, auto, hits, total, measure, known, weighed, calls>>

-----------------------------------------------------------------------------
(* Terms over a range                                                      *)

Term(kind, lo, peak, hi) == [kind |-> kind, lo |-> lo, peak |-> peak, hi |-> hi]

\* sml_fuzzy_term_get_range knows triangles, rectangles and ramps.
HasRange(t) == t.kind # "curve"

Overlap(width) == width \div OverlapPart

Ids(v) == {v.terms[i].id : i \in DOMAIN v.terms}

\* The address of a new term: not that of another one, perhaps a former one's.
FreshTerm(v) == CHOOSE n \in 1..(Len(v.terms) + 1) : n \notin Ids(v)

AddTo(v, t) ==
    [v EXCEPT !.terms = Append(@, [id |-> FreshTerm(v), kind |-> t.kind,
                                   lo |-> t.lo, peak |-> t.peak, hi |-> t.hi])]

WidthFor(v, range) == IF v.width = NaN THEN range \div DEFAULT_NUM_TERMS ELSE v.width

NumTerms(v, range) ==
    LET width == WidthFor(v, range)
    IN  CASE width = 0 -> 1
          [] width # 0 /\ v.isId -> range \div width + 1
          [] width # 0 /\ ~v.isId -> (range + width - 1) \div width

OneTerm(min, max, realMin, realMax, overlap) ==
    Term("triangle", IF realMin THEN min ELSE min - overlap,
         CASE realMin = realMax -> min + (max - min) \div 2
           [] realMin /\ ~realMax -> min
           [] ~realMin /\ realMax -> max,
         IF realMax THEN max ELSE max + overlap)

\* Where term i of n begins, before the overlap.
Start(min, i, realMin, first, width) ==
    IF realMin /\ i > 1 THEN min + first + (i - 2) * width ELSE min + (i - 1) * width

\* The terms _create_fuzzy_terms lays from min to max; an end that is real is
\* an end of the range, and is not overlapped.
LaidOut(v, min, max, realMin, realMax) ==
    LET range   == max - min
        width   == WidthFor(v, range)
        overlap == Overlap(width)
        n       == NumTerms(v, range)
        first   == IF v.isId THEN (range - width * (n - 2)) \div 2 ELSE width
        At1(i)  == Start(min, i, realMin, first, width)
    IN  IF n <= 1 THEN <<OneTerm(min, max, realMin, realMax, overlap)>>
        ELSE [i \in 1..n |->
                CASE i = 1 /\ realMin -> Term("triangle", min, min, At1(2) + overlap)
                  [] i = n /\ realMax -> Term("triangle", At1(n) - overlap, max, max)
                  [] OTHER -> Term("triangle", At1(i) - overlap, At1(i) + width \div 2,
                                   At1(i) + width + overlap)]

\* _create_fuzzy_terms: a width that was not set is set now.
Created(v, min, max, realMin, realMax) ==
    FoldLeft(AddTo, [v EXCEPT !.width = WidthFor(v, max - min)],
             LaidOut(v, min, max, realMin, realMax))

\* sml_fuzzy_bridge_variable_term_triangle_update: the third vertex is stored
\* as the first one; fails for what is no triangle.
Updated(v, i, a, b, c) == [v EXCEPT !.terms[i].lo = c, !.terms[i].peak = b]

IsTriangle(v, i) == v.terms[i].kind = "triangle"

OutOfRange(t, min, max) == HasRange(t) /\ (t.hi < min \/ t.lo > max)

InRange(v, min, max) ==
    {i \in DOMAIN v.terms : HasRange(v.terms[i]) /\ ~OutOfRange(v.terms[i], min, max)}

\* The last of the terms that begin first, and of those that end last.
FirstTerm(v, S) ==
    CHOOSE i \in S : \A j \in S : \/ v.terms[i].lo < v.terms[j].lo
                                  \/ v.terms[i].lo = v.terms[j].lo /\ j <= i
LastTerm(v, S) ==
    CHOOSE i \in S : \A j \in S : \/ v.terms[i].hi > v.terms[j].hi
                                  \/ v.terms[i].hi = v.terms[j].hi /\ j <= i

\* The first term is moved down to the new minimum, or new ones are laid there.
ExtendedDown(v, i, min) ==
    LET width == v.width
        t     == v.terms[i]
        hi    == t.hi - Overlap(width)
        lo    == hi - width
        moved == Updated(v, i, lo - Overlap(width), lo + width \div 2, hi + Overlap(width))
    IN  IF t.hi - min <= width THEN Updated(v, i, min, min, t.hi)
        ELSE Created(moved, min, IF v.isId THEN lo - width \div 2 ELSE lo, TRUE, FALSE)

\* lo is the position of the last term as it was when it was looked for.
ExtendedUp(v, i, lo, max) ==
    LET width == v.width
        start == lo + Overlap(width)
        moved == Updated(v, i, start - Overlap(width), start + width \div 2,
                         start + width + Overlap(width))
    IN  IF max - lo <= width THEN Updated(v, i, lo, max, max)
        ELSE Created(moved, start + width, max, FALSE, TRUE)

Leaving(v, min, max) ==
    FoldLeft(LAMBDA ids, t : IF OutOfRange(t, min, max) THEN Append(ids, t.id) ELSE ids,
             <<>>, v.terms)

\* _rearrange_fuzzy_terms: <<variable, terms to be removed>>.  It stops at a
\* term that cannot be updated.
Rearranged(v0, min, max) ==
    LET v     == [v0 EXCEPT !.min = min, !.max = max]
        S     == InRange(v, min, max)
        first == FirstTerm(v, S)
        last  == LastTerm(v, S)
        down  == min < v.terms[first].lo
        up    == max > v.terms[last].hi
        lower == IF down /\ IsTriangle(v, first) THEN ExtendedDown(v, first, min) ELSE v
    IN  IF v.width = NaN THEN <<v, <<>>>>
        ELSE << CASE S = {} -> Created(v, min, max, TRUE, TRUE)
                  [] S # {} /\ up /\ (down => IsTriangle(v, first)) /\ IsTriangle(v, last) ->
                       ExtendedUp(lower, last, v.terms[last].lo, max)
                  [] OTHER -> lower,
                Leaving(v, min, max) >>

-----------------------------------------------------------------------------
(* Counting and merging                                                    *)

\* The membership of x in t as a fraction <<n, d>>; curves, ramps and rectangles
\* are taken to hold x fully from lo to hi.
Membership(t, x) ==
    CASE x < t.lo \/ x > t.hi -> <<0, 1>>
      [] t.lo <= x /\ x <= t.hi /\ (t.kind # "triangle" \/ x = t.peak) -> <<1, 1>>
      [] t.lo <= x /\ x <= t.hi /\ t.kind = "triangle" /\ x < t.peak -> <<x - t.lo, t.peak - t.lo>>
      [] t.lo <= x /\ x <= t.hi /\ t.kind = "triangle" /\ x > t.peak -> <<t.hi - x, t.hi - t.peak>>

\* sml_fuzzy_get_membership_values
Measure(v, x) == [i \in DOMAIN v.terms |-> Membership(v.terms[i], x)]

\* What is missing reads as 0.
Measured(m, i) == IF i \in DOMAIN m THEN m[i] ELSE <<0, 1>>

\* The membership is at least VARIABLE_MEMBERSHIP_THRESHOLD, 1/ThresholdPart.
Passes(f) == ThresholdPart * f[1] >= f[2]

Exceeds(f, g) == ThresholdPart * (f[1] * g[2] - g[1] * f[2]) > f[2] * g[2]

\* _measure_has_significant_changes: measures are compared by position.
Differ(old, new) ==
    \E i \in DOMAIN old \cup DOMAIN new :
        Exceeds(Measured(old, i), Measured(new, i)) \/ Exceeds(Measured(new, i), Measured(old, i))

Overlaps(t, u) == (u.lo >= t.lo /\ u.lo <= t.hi) \/ (t.lo >= u.lo /\ t.lo <= u.hi)

\* A process under way: s is [var, hits, measure, known, weighed, j, len, junk, end].
Others(s) == {i \in DOMAIN s.var.terms : /\ i # s.j /\ HasRange(s.var.terms[i])
                                         /\ Overlaps(s.var.terms[s.j], s.var.terms[i])}

\* The first one with fewest hits.
LeastHit(s) ==
    CHOOSE i \in Others(s) : \A k \in Others(s) :
        s.hits[i].n < s.hits[k].n \/ (s.hits[i].n = s.hits[k].n /\ i <= k)

\* sml_fuzzy_term_set_range
Spanning(t, u) ==
    LET lo == IF t.lo < u.lo THEN t.lo ELSE u.lo
        hi == IF t.hi > u.hi THEN t.hi ELSE u.hi
    IN  [u EXCEPT !.lo = lo, !.hi = hi,
                  !.peak = IF u.kind = "triangle" THEN (lo + hi) \div 2 ELSE @]

\* Mutant: the counts are added and the wrong column leaves.
MergedHitsShifted(h, found, j) == RemoveAt([h EXCEPT ![found].n = @ + h[j].n], found)

\* The count of the merged term is added and its column leaves the matrix.
MergedHits(h, found, j) == RemoveAt([h EXCEPT ![found].n = @ + h[j].n], j)

\* Mutant: the term that stays keeps its range.
NotSpread(terms, found, j) == terms

Spread(terms, found, j) == [terms EXCEPT ![found] = Spanning(terms[j], @)]

\* _merge into found.  What is in memory behind the last weight (junk) is
\* added to it; see ObservationMergeTerms.
MergedInto(s, found) ==
    [s EXCEPT !.var.terms = RemoveAt(Spread(@, found, s.j), s.j),
              !.hits  = MergedHits(@, found, s.j),
              !.known = [n \in DOMAIN @ |-> ObservationMergeTerms(@[n], 1, found, s.j, FALSE, s.junk)],
              !.weighed = IF @ = <<>> THEN @ ELSE RemoveAt(@, s.j)]

\* An overlapping term without a count, or a weight that does not exist, is
\* dereferenced all the same.  When nothing overlaps the term is visited again
\* and the last one is not.
Merged(s) ==
    LET found == LeastHit(s)
        lacksWeight == \E n \in DOMAIN s.known : \E i \in {found, s.j} :
                          i > Len(s.known[n].out[1])
    IN  CASE Others(s) = {} -> [s EXCEPT !.len = @ - 1]
          [] Others(s) # {} /\ (Len(s.hits) < Len(s.var.terms) \/ lacksWeight) ->
               [s EXCEPT !.end = "crash"]
          [] OTHER -> [MergedInto(s, found) EXCEPT !.len = @ - 1]

\* Term j is counted with place j of the measure.  That was taken before the
\* loop, and merging does not shift it: after a merge every term is counted
\* with the membership of the one before it.
Counted(s) ==
    LET room == IF s.j <= Len(s.hits) THEN s.hits
                ELSE Append(s.hits, [term |-> s.var.terms[s.j].id, n |-> 0])
    IN  [s EXCEPT !.hits = [room EXCEPT ![s.j].n = @ + Bit(Passes(Measured(s.measure[1], s.j)))]]

\* One round of the loop in _hit.  _split always fails: it looks for the
\* engine's magic number where it is not.
HitTerm(s, rebuild) ==
    LET c == Counted(s)
        n == c.hits[s.j].n
    IN  CASE s.end # "ok" \/ s.j > s.len -> s
          [] s.end = "ok" /\ s.j <= s.len /\ ~HasRange(s.var.terms[s.j]) ->
               [s EXCEPT !.end = "error"]
          [] OTHER ->
               CASE rebuild /\ n > MAX_CAP -> [c EXCEPT !.end = "error"]
                 [] rebuild /\ n <= MAX_CAP /\ n < MIN_CAP -> Merged(c)
                 [] OTHER -> [c EXCEPT !.j = @ + 1]

Halved(h) == [i \in DOMAIN h |-> [h[i] EXCEPT !.n = @ \div 2]]

\* sml_terms_manager_hit
Balanced(s0, rebuild) ==
    LET s == FoldLeft(LAMBDA s, i : HitTerm(s, rebuild), s0,
                      [i \in DOMAIN s0.var.terms |-> i])
    IN  IF rebuild /\ s.end = "ok"
        THEN [s EXCEPT !.hits = Halved(@)] ELSE s

-----------------------------------------------------------------------------
(* sml_process, as far as this variable goes                               *)

\* Removing the queued terms stops at the first that the observations refuse;
\* then the queue stays as it is.
RemoveQueued(s, id) ==
    LET i == FirstWhere(s.var.terms, LAMBDA t : t.id = id)
        ends == IF s.known = <<>> THEN "ok" ELSE RemoveTermOutcome(s.known[1], 1, i, FALSE)
    IN  CASE s.end # "ok" \/ i = 0 -> s
          [] s.end = "ok" /\ i # 0 /\ ends # "ok" -> [s EXCEPT !.end = ends]
          [] OTHER ->
               [s EXCEPT !.var.terms = RemoveAt(@, i),
                         !.hits = IF i <= Len(@) THEN RemoveAt(@, i) ELSE @,
                         !.weighed = IF @ = <<>> THEN @ ELSE RemoveAt(@, i),
                         !.known = [n \in DOMAIN @ |->
                                      ObservationRemoveTerm(@[n], 1, i, FALSE)]]

Fuzzy(v) == [inTerms |-> <<>>, inEnabled |-> <<>>, outTerms |-> <<Len(v.terms)>>]

\* sml_observation_controller_observation_hit: the only scenario there is.
Learnt(s, grows) ==
    LET fz == Fuzzy(s.var)
        m  == [in |-> <<>>, out |-> <<{i \in DOMAIN s.measure[1] : Passes(s.measure[1][i])}>>]
        o  == IF s.known = <<>> THEN ObservationNew(fz, m) ELSE s.known[1]
        fails == HitFails(fz, o, m, grows)
        after == ObservationHit(fz, o, m, grows)
    IN  IF s.known = <<>> /\ m.out[1] = {} THEN s
        ELSE [s EXCEPT !.known = <<after>>,
                       !.weighed = [i \in 1..Len(after.out[1]) |->
                            IF i <= Len(@) THEN @[i] ELSE s.var.terms[i].id],
                       !.end = IF fails THEN "error" ELSE @]

State(junk) == [var |-> var, hits |-> hits, measure |-> measure, known |-> known,
                weighed |-> weighed, j |-> 1, len |-> 0, junk |-> junk, end |-> "ok"]

Leaves(s) == /\ var' = s.var /\ hits' = s.hits /\ known' = s.known /\ weighed' = s.weighed
             /\ measure' = s.measure
             /\ UNCHANGED <<auto, calls>>

\* Up to the read callback.  An automatically balanced variable without terms
\* ends the process: it cannot be initialized.
Begin ==
    LET s == FoldLeft(RemoveQueued, State(0), queue)
    IN  /\ pc = "idle"
        /\ \A i \in DOMAIN hits : hits[i].n < MaxCount
        /\ Leaves(s)
        /\ queue' = IF s.end = "ok" THEN <<>> ELSE queue
        /\ pc' = CASE s.end = "crash" -> "crash"
                   [] s.end = "ok" /\ ~(auto /\ s.var.terms = <<>>) -> "reading"
                   [] OTHER -> "idle"
        /\ UNCHANGED total

ReadFails == /\ pc = "reading" /\ pc' = "idle"
             /\ UNCHANGED <<var, queue, auto, hits, total, measure, known, weighed, calls>>

Laid(v) == IF v.terms = <<>> THEN Created(v, v.min, v.max, TRUE, TRUE) ELSE v

\* _pre_process: the measure is taken anew (fresh) when the reading is stable,
\* or when a membership, also one of another variable, changed noticeably.
PreProcessed(x, fresh, junk) ==
    [State(junk) EXCEPT !.var = Laid(var),
                        !.measure = IF fresh THEN <<Measure(Laid(var), x)>> ELSE @]

MayKeep(x) == measure # <<>> /\ ~Differ(measure[1], Measure(Laid(var), x))

\* Learning and balancing, at the end of sml_process.  Erasing from within the
\* change callback leaves no measure for them.
Finish(s, learns, grows) ==
    LET learnt   == IF learns THEN Learnt(s, grows) ELSE s
        newTotal == IF total + 1 = MAX_HIT THEN 0 ELSE total + 1
        start    == [learnt EXCEPT !.len = Len(learnt.var.terms)]
        lost     == s.measure = <<>> /\ (learns \/ auto)
        balances == ~lost /\ learnt.end = "ok" /\ auto
        end      == IF balances THEN Balanced(start, newTotal = 0) ELSE IF lost THEN s ELSE learnt
    IN  /\ Leaves(end)
        /\ total' = IF balances THEN newTotal ELSE total
        /\ pc' = IF lost \/ end.end = "crash" THEN "crash" ELSE "idle"
        /\ UNCHANGED queue

\* The client returns from the read callback, and nothing is announced.
Read(x, fresh, learns, grows, junk) ==
    /\ pc = "reading"
    /\ fresh \/ MayKeep(x)
    /\ learns => fresh
    /\ Finish(PreProcessed(x, fresh, junk), learns, grows)

\* The reading is stable: the change is announced, or predicting it fails.
Act(x) == /\ pc = "reading"
          /\ Leaves(PreProcessed(x, TRUE, 0))
          /\ pc' \in {"announcing", "idle"}
          /\ UNCHANGED <<queue, total>>

\* The client returns from the change callback.
Announced(learns, grows, junk) == /\ pc = "announcing"
                                  /\ Finish(State(junk), learns, grows)

-----------------------------------------------------------------------------
(* The calls of a client, from outside or from within a callback           *)

Call(kind) == kind \in Calls /\ calls < MaxCalls /\ calls' = calls + 1 /\ UNCHANGED pc

SetRange(r) ==
    LET result == Rearranged(var, r[1], r[2])
    IN  /\ Call("range")
        /\ Len(result[1].terms) <= MaxTerms
        /\ var' = result[1]
        /\ queue' = queue \o result[2]
        /\ UNCHANGED <<auto, hits, total, measure, known, weighed>>

SetDefaultTermWidth(w) == /\ Call("width")
                          /\ var' = [var EXCEPT !.width = w]
                          /\ UNCHANGED <<queue, auto, hits, total, measure, known, weighed>>

SetIsId(b) == /\ Call("is_id")
              /\ var' = [var EXCEPT !.isId = b]
              /\ UNCHANGED <<queue, auto, hits, total, measure, known, weighed>>

AddTerm(t) == /\ Call("add_term")
              /\ Len(var.terms) < MaxTerms
              /\ var' = AddTo(var, t)
              /\ UNCHANGED <<queue, auto, hits, total, measure, known, weighed>>

RemoveTerm(i) == /\ Call("remove_term")
                 /\ queue' = Append(queue, var.terms[i].id)
                 /\ UNCHANGED <<var, auto, hits, total, measure, known, weighed>>

\* Switching auto balance off clears the terms manager.
SetAutoBalance(b) == /\ Call("auto_balance")
                     /\ auto' = b
                     /\ IF auto /\ ~b
                        THEN hits' = <<>> /\ total' = 0
                        ELSE UNCHANGED <<hits, total>>
                     /\ UNCHANGED <<var, queue, measure, known, weighed>>

EraseKnowledge == /\ Call("erase")
                  /\ known' = <<>> /\ hits' = <<>> /\ total' = 0
                  /\ weighed' = <<>> /\ measure' = <<>>
                  /\ UNCHANGED <<var, queue, auto>>

TermsInit == /\ \E r \in Ranges : var = [terms |-> <<>>, min |-> r[1], max |-> r[2],
                                         width |-> NaN, isId |-> FALSE]
             /\ queue = <<>> /\ auto = FALSE /\ hits = <<>> /\ total = 0
             /\ known = <<>> /\ weighed = <<>> /\ measure = <<>>
             /\ pc = "idle" /\ calls = 0

\* Room is a question only where something is learnt, and what lies behind the
\* weights only where terms may be merged.
Grows(learns) == IF learns THEN BOOLEAN ELSE {TRUE}
Junk == IF auto /\ total + 1 = MAX_HIT THEN {0, 1} ELSE {0}

TermsNext ==
    /\ pc # "crash"
    /\ \/ Begin
       \/ ReadFails
       \/ \E x \in Values, fresh, learns \in BOOLEAN :
             \E grows \in Grows(learns), junk \in Junk : Read(x, fresh, learns, grows, junk)
       \/ \E x \in Values : Act(x)
       \/ \E learns \in BOOLEAN :
             \E grows \in Grows(learns), junk \in Junk : Announced(learns, grows, junk)
       \/ \E r \in Ranges : SetRange(r)
       \/ \E w \in Widths : SetDefaultTermWidth(w)
       \/ \E b \in BOOLEAN : SetIsId(b)
       \/ \E t \in ClientTerms : AddTerm(t)
       \/ \E i \in DOMAIN var.terms : RemoveTerm(i)
       \/ \E b \in BOOLEAN : SetAutoBalance(b)
       \/ EraseKnowledge

TermsSpec == TermsInit /\ [][TermsNext]_termVars

-----------------------------------------------------------------------------
(* Properties                                                              *)

\* What is left of the terms once the queued ones are gone covers the range;
\* curves have no ends to the engine.
Lasting(v, q) == {i \in DOMAIN v.terms : HasRange(v.terms[i]) /\ v.terms[i].id \notin Range(q)}

Covered(v, q) == \A x \in v.min..v.max : \E i \in Lasting(v, q) :
                    v.terms[i].lo <= x /\ x <= v.terms[i].hi

\* A term's column of counts and its weight stay in the term's place, whatever is
\* created, removed and merged between readings and within callbacks, although
\* all of them refer to each other by index only (sml_terms_manager.c:_merge,
\* sml_fuzzy.c:_remove_terms).  It says whose counts they are, not that each
\* reading in them fell on the term: after a merge it need not have (Counted).
TermsAligned ==
    /\ Len(hits) <= Len(var.terms)
    /\ \A i \in DOMAIN hits : hits[i].term = var.terms[i].id
    /\ \A n \in DOMAIN known : Len(known[n].out[1]) = Len(weighed)
    /\ Len(weighed) <= Len(var.terms)
    /\ \A i \in DOMAIN weighed : weighed[i] = var.terms[i].id

\* sml_fuzzy.h: new terms are created to make sure that all of the variable's
\* range is covered each time the range is set.
RangeCovered == var.terms # <<>> => Covered(var, queue)

\* A step within a range that was covered, or over which terms are laid: neither
\* a wider range nor terms that the client adds or removes itself.
EngineAlone ==
    /\ var.min <= var'.min /\ var'.max <= var.max
    /\ Covered(var, queue) \/ (var.terms = <<>> /\ queue = <<>>)
    /\ ~(\E i \in DOMAIN var.terms : RemoveTerm(i))
    /\ ~(\E t \in ClientTerms : AddTerm(t))
    /\ var'.terms # <<>>

\* Terms were merged while some waited to be removed: only a callback queues
\* them after the removals of the same process.
MergedAmidQueued == pc # "idle" /\ queue # <<>> /\ Len(var'.terms) < Len(var.terms)

\* What lasts of the terms goes on covering the range when terms are laid out, when
\* the range is narrowed, when queued terms leave, and when terms are merged, unless
\* a callback queued a removal in that very process (sml_fuzzy.c:_rearrange_fuzzy_terms,
\* sml_terms_manager.c:_merge).
CoverKept == [][EngineAlone /\ ~MergedAmidQueued => Covered(var', queue')]_termVars

\* sml_fuzzy.h: when the range is set all of it stays covered, and terms that are no
\* longer necessary are removed; so none that is necessary is, also when the
\* range is narrowed from within a callback (machine_learning.c:set_variable).
NecessaryTermsStay == [][EngineAlone => Covered(var', queue')]_termVars

=============================================================================
