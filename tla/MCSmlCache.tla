----------------------------- MODULE MCSmlCache -----------------------------
(* SmlCache for TLC: sizes that are zero, small, equal to the default, and *)
(* just above 16 bits.                                                     *)
EXTENDS SmlCache

MCSizeArgs == {0, 1, 2, 3, U16 + 1}
=============================================================================
