---- MODULE SmlFront ----
(***************************************************************************)
(* The front of the library (src/sml/common/src/sml_engine.c, built for    *)
(* debugging) over the naive engine: every call that changes the engine is *)
(* written to the debug log, and sml_load_debug_log_file runs such a log   *)
(* on another engine.  The log names variables, the calls use handles.     *)
(*                                                                         *)
(* The client sits outside sml_process ("idle") or in its read callback    *)
(* ("reading").  A log is the sequence of its lines.  The line of          *)
(* sml_remove_variable has no newline: the next line is glued to it, and   *)
(* the replay, which scans one name and drops the rest, loses it.          *)
(***************************************************************************)
EXTENDS NaiveEngine

CONSTANTS
    Names,        \* names of variables
    Values,       \* values a client sets, and limits of ranges
    FllFiles,     \* what FLL files hold, as sequences of their lines
    MaxCalls      \* bound: calls of a client

\* The lines of an FLL file that the loader looks at.
FllLines == [op : {"new"}, kind : {"in", "out"}, name : Names]
            \cup [op : {"set_enabled"}, on : BOOLEAN]
            \cup [op : {"set_range"}, min : Values \cup {NaN}, max : Values \cup {NaN}]

ASSUME FrontAssumption ==
    /\ Values \subseteq Nat \ {NaN}
    /\ FllFiles \subseteq Seq(FllLines)
    /\ MaxCalls \in Nat

VARIABLES
    engine,       \* the engine behind the front
    log,          \* lines of the debug file
    open,         \* the last line still lacks its newline
    pc,           \* where the client is
    calls,        \* calls made so far
    exact         \* history: no call yet that the log cannot express

frontVars == <<engine, log, open, pc, calls, exact>>

NoHandle == <<"in", 0>>

\* variable_find_by_name: an input hides an output of the same name.
FindByName(e, name) ==
    IF Positions(e, "in", name) # {} THEN GetVariable(e, "in", name)
    ELSE IF Positions(e, "out", name) # {} THEN GetVariable(e, "out", name)
    ELSE NoHandle

----------------------------------------------------------------------------
(* What a call does to the engine; "line" says which call, "p" on which    *)
(* variable.                                                               *)

OnVariable(line) == line.op \in {"set_value", "set_enabled", "set_range", "remove"}

\* sml_variable_set_range: a limit that is not a number keeps its value.
Filled(e, p, line) ==
    IF line.op # "set_range" THEN line
    ELSE LET old == GetRange(e, p) IN
         [line EXCEPT !.min = IF @ = NaN THEN old[1] ELSE @,
                      !.max = IF @ = NaN THEN old[2] ELSE @]

\* ... and limits in the wrong order are inverted.
Ordered(e, p, min, max) ==
    IF min # NaN /\ max # NaN /\ max < min THEN SetRange(e, p, max, min)
    ELSE SetRange(e, p, min, max)

\* sml_predict does nothing in the naive engine, and it has no
\* erase_knowledge: sml_erase_knowledge fails.
Effect(e, p, line) ==
    CASE line.op = "new" -> NewVariable(e, line.kind, line.name)
      [] line.op = "set_value" -> SetValue(e, p, line.val)
      [] line.op = "set_enabled" -> SetEnabled(e, p, line.on)
      [] line.op = "set_range" -> LET l == Filled(e, p, line) IN Ordered(e, p, l.min, l.max)
      [] line.op = "remove" -> RemoveVariable(e, p)
      [] line.op = "learn_disabled" -> [e EXCEPT !.learn_disabled = line.on]
      [] line.op = "process" -> Process(e)
      [] line.op \in {"predict", "erase"} -> e

----------------------------------------------------------------------------
(* The log.                                                                *)

\* SML_LOG_DEBUG_DATA_VAR(engine, "sml_remove_variable", "", ...)
LineEnds(line) == line.op # "remove"

\* A line after one without end belongs to that one.
Written(l, o, line) == IF o THEN l ELSE Append(l, line)

\* Mutant: the parser of sml_variable_set_enabled wants one more field.
ReplayedWithoutEnabled(e, line) ==
    IF line.op = "set_enabled" THEN e
    ELSE LET p == IF OnVariable(line) THEN FindByName(e, line.name) ELSE NoHandle IN
         IF OnVariable(line) /\ p = NoHandle THEN e ELSE Effect(e, p, line)

\* One round of sml_load_debug_log_file.  Its callbacks are empty: the
\* reading is what the lines before made of the variables, and a naive
\* engine fails at nothing that would stop the replay.
Replayed(e, line) ==
    LET p == IF OnVariable(line) THEN FindByName(e, line.name) ELSE NoHandle IN
    IF OnVariable(line) /\ p = NoHandle THEN e ELSE Effect(e, p, line)

Replay(l) == FoldLeft(Replayed, NaiveNew, l)

----------------------------------------------------------------------------
FrontInit ==
    /\ engine = NaiveNew
    /\ log = <<>> /\ open = FALSE
    /\ pc = "idle"
    /\ calls = 0
    /\ exact = TRUE

----------------------------------------------------------------------------
(* What the log cannot express: a line after the one that lacks its        *)
(* newline, unless it is a prediction, which changes nothing here; a name  *)
(* used twice; a call that failed.                                         *)

Taken(e, name) == Positions(e, "in", name) \cup Positions(e, "out", name) # {}

Expressible(e, o, line) ==
    /\ o => line.op = "predict"
    /\ line.op = "new" => ~Taken(e, line.name)

Logs(line) ==
    /\ log' = Written(log, open, line)
    /\ open' = ~LineEnds(line)

Call(p, line) ==
    /\ calls < MaxCalls /\ calls' = calls + 1
    /\ exact' = (exact /\ Expressible(engine, open, line))
    /\ engine' = Effect(engine, p, line)
    /\ Logs(Filled(engine, p, line))
    /\ UNCHANGED pc

NameOf(e, p) == e[p[1]][p[2]].name

NewInput(name) == Call(NoHandle, [op |-> "new", kind |-> "in", name |-> name])

NewOutput(name) == Call(NoHandle, [op |-> "new", kind |-> "out", name |-> name])

\* The call is written before the engine runs out of memory.
NewFails(k, name) ==
    /\ calls < MaxCalls /\ calls' = calls + 1
    /\ exact' = FALSE
    /\ Logs([op |-> "new", kind |-> k, name |-> name])
    /\ UNCHANGED <<engine, pc>>

VariableSetValue(p, v) == Call(p, [op |-> "set_value", name |-> NameOf(engine, p), val |-> v])

VariableSetEnabled(p, b) == Call(p, [op |-> "set_enabled", name |-> NameOf(engine, p), on |-> b])

VariableSetRange(p, min, max) ==
    Call(p, [op |-> "set_range", name |-> NameOf(engine, p), min |-> min, max |-> max])

RemoveVariableCall(p) == Call(p, [op |-> "remove", name |-> NameOf(engine, p)])

SetLearnDisabled(b) == Call(NoHandle, [op |-> "learn_disabled", on |-> b])

Predict == Call(NoHandle, [op |-> "predict"])

EraseKnowledge == Call(NoHandle, [op |-> "erase"])

\* sml_process calls the engine, and the engine the client, who may make
\* any of the calls above.  The line is written when the engine returns,
\* with a reading or without.
StartProcess ==
    /\ pc = "idle"
    /\ calls < MaxCalls /\ calls' = calls + 1
    /\ pc' = "reading"
    /\ UNCHANGED <<engine, log, open, exact>>

FinishProcess(read) ==
    /\ pc = "reading" /\ pc' = "idle"
    /\ exact' = (exact /\ read /\ ~open)
    /\ engine' = IF read THEN Process(engine) ELSE engine
    /\ Logs([op |-> "process"])
    /\ UNCHANGED calls

\* The loader of FLL files for engines without one of their own: it makes
\* the calls a client would make, each on the last variable of the file.
FllCall(e, last, line) ==
    CASE line.op = "new" -> line
      [] line.op = "set_enabled" -> [op |-> "set_enabled", name |-> NameOf(e, last), on |-> line.on]
      [] line.op = "set_range" ->
            [op |-> "set_range", name |-> NameOf(e, last), min |-> line.min, max |-> line.max]

\* Lines before the first variable are skipped.  That a new variable may be
\* refused for want of memory, and the lines after it skipped, is left out.
Loaded(s, line) ==
    LET p == IF line.op = "new" THEN NoHandle ELSE s.last
        call == FllCall(s.e, p, line)
    IN IF line.op # "new" /\ p = NoHandle THEN s
       ELSE [e |-> Effect(s.e, p, call),
             log |-> Written(s.log, s.open, Filled(s.e, p, call)),
             open |-> FALSE,
             exact |-> s.exact /\ Expressible(s.e, s.open, call),
             last |-> IF line.op = "new" THEN <<line.kind, Len(s.e[line.kind]) + 1>> ELSE s.last]

LoadFllFile(file) ==
    LET s == FoldLeft(Loaded, [e |-> engine, log |-> log, open |-> open, exact |-> exact,
                               last |-> NoHandle], file)
    IN /\ calls < MaxCalls /\ calls' = calls + 1
       /\ engine' = s.e /\ log' = s.log /\ open' = s.open /\ exact' = s.exact
       /\ UNCHANGED pc

FrontNext ==
    \/ \E n \in Names : NewInput(n) \/ NewOutput(n) \/ NewFails("in", n) \/ NewFails("out", n)
    \/ \E p \in Handles(engine) :
          \/ \E v \in Values : VariableSetValue(p, v)
          \/ \E b \in BOOLEAN : VariableSetEnabled(p, b)
          \/ \E min, max \in Values \cup {NaN} : VariableSetRange(p, min, max)
          \/ RemoveVariableCall(p)
    \/ \E b \in BOOLEAN : SetLearnDisabled(b)
    \/ Predict \/ EraseKnowledge
    \/ StartProcess \/ \E read \in BOOLEAN : FinishProcess(read)
    \/ \E file \in FllFiles : LoadFllFile(file)

FrontSpec == FrontInit /\ [][FrontNext]_frontVars

----------------------------------------------------------------------------
\* Outside sml_process, a fresh engine that runs the log has the variables,
\* settings and readings of the engine that wrote it (sml_set_debug_log_file
\* in sml.h: "may be used to reproduce the execution"), as long as no call
\* was made that the log cannot express.
ReplayReproduces == pc = "idle" /\ exact => Replay(log) = engine
====
