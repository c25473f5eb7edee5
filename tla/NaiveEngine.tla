---- MODULE NaiveEngine ----
(***************************************************************************)
(* The naive engine (src/sml/sml_naive/src/sml_naive.c): two lists of      *)
(* variables and nothing learnt.  A process only asks the client for a     *)
(* reading.  An engine is a record of its lists "in" and "out", the        *)
(* learn_disabled flag that sml_engine.c keeps for every engine, and       *)
(* "seen", a history of the readings the client has given it: it stands    *)
(* for whatever an engine that learns would make of them.                  *)
(*                                                                         *)
(* A handle is a list and a position in it.  Nothing stops a client from   *)
(* giving two variables one name.                                          *)
(***************************************************************************)
EXTENDS Integers, Sequences, SequencesExt

NaN == 0                      \* values and limits of ranges are positive

CreateVar(name) == [name |-> name, enabled |-> TRUE, min |-> NaN, max |-> NaN, val |-> NaN]

NaiveNew == [in |-> <<>>, out |-> <<>>, learn_disabled |-> FALSE, seen |-> <<>>]

NewVariable(e, k, name) == [e EXCEPT ![k] = Append(@, CreateVar(name))]

RemoveVariable(e, p) == [e EXCEPT ![p[1]] = RemoveAt(@, p[2])]

SetValue(e, p, v) == [e EXCEPT ![p[1]][p[2]].val = v]

SetEnabled(e, p, b) == [e EXCEPT ![p[1]][p[2]].enabled = b]

SetRange(e, p, min, max) ==
    [e EXCEPT ![p[1]][p[2]] = [@ EXCEPT !.min = min, !.max = max]]

GetRange(e, p) == LET v == e[p[1]][p[2]] IN <<v.min, v.max>>

\* What sml_process leaves behind when the client's callback gave a reading.
Process(e) == [e EXCEPT !.seen = Append(@, [in |-> e.in, out |-> e.out])]

\* The positions of the variables of a name, in the order of a list.
Positions(e, k, name) == {<<k, i>> : i \in {j \in 1..Len(e[k]) : e[k][j].name = name}}

\* _sml_get_input and _sml_get_output return the first variable of the name.
GetVariable(e, k, name) ==
    CHOOSE p \in Positions(e, k, name) : \A q \in Positions(e, k, name) : p[2] <= q[2]

Handles(e) == {"in"} \X (1..Len(e.in)) \cup {"out"} \X (1..Len(e.out))
====
