---------------------------- MODULE MCAnnEngine ----------------------------
(* AnnEngine for TLC. *)
EXTENDS AnnEngine

CONSTANTS i1, i2, o1

MCInputVars == {i1, i2}
MCOneInput == {i1}
MCOutputVars == {o1}
=============================================================================
