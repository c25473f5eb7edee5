---------------------------- MODULE MCFuzzyTerms ----------------------------
\* Instances of FuzzyTerms: ranges of a few widths of 20.
EXTENDS FuzzyTerms

MCRanges == {<<0, 40>>, <<0, 60>>, <<50, 90>>}
\* From 0..60 to 0..30 the last of three terms falls out of the range.
MCNarrowing == {<<0, 60>>, <<0, 30>>}
MCValues == {5, 45}
MCClientTerms == {Term("triangle", 20, 40, 60), Term("curve", 0, 20, 40)}
=============================================================================
