--------------------------- MODULE MCFuzzyEngine ---------------------------
\* Instances of FuzzyEngine: one input and one output of two terms each.
EXTENDS FuzzyEngine

MCLayout == <<2>>
=============================================================================
