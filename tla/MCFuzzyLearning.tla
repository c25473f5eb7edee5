-------------------------- MODULE MCFuzzyLearning --------------------------
\* An instance of FuzzyLearning: variables of two terms.
EXTENDS FuzzyLearning

Others == {"variables", "enable", "simplify", "cache", "erase"}
AllChanges == Others \cup {"terms"}

\* Groups of one input that is read time and again, of two inputs that come and
\* go, and rules of two outputs.
MCLayouts ==
    {[inputs |-> <<2>>, outputs |-> <<2>>, size |-> 2,
      evidence |-> 3, calls |-> 1, changes |-> AllChanges],
     [inputs |-> <<2, 2>>, outputs |-> <<2>>, size |-> 2,
      evidence |-> 2, calls |-> 2, changes |-> AllChanges],
     [inputs |-> <<2>>, outputs |-> <<2, 2>>, size |-> 3,
      evidence |-> 3, calls |-> 1, changes |-> Others]}
=============================================================================
