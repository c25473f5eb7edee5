---- MODULE MCSmlFront ----
(* Small instance of SmlFront: an FLL file with a line too early and an    *)
(* output of limited range that is switched off, and one that uses a name  *)
(* twice.                                                                  *)
EXTENDS SmlFront

Files == {<<[op |-> "set_enabled", on |-> FALSE],
            [op |-> "new", kind |-> "out", name |-> "b"],
            [op |-> "set_enabled", on |-> FALSE],
            [op |-> "set_range", min |-> 2, max |-> 1]>>,
          <<[op |-> "new", kind |-> "in", name |-> "a"],
            [op |-> "new", kind |-> "in", name |-> "a"],
            [op |-> "set_enabled", on |-> FALSE]>>}

\* Nothing is claimed after a call that the log cannot express.
StillExact == exact
====
