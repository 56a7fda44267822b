------------------------------- MODULE MCBooks ------------------------------
(* Instances of Books for TLC.                                             *)
EXTENDS Books, TLC

MCPrice == [i \in Invoice |-> 2]

\* Bought: five to write off over two months, which takes three. Owned before:
\* half written off, and a month's part is nought until it is revalued.
Bought == [cost |-> 6, salvage |-> 1, life |-> 2, builtUp |-> 0, owned |-> FALSE]
OwnedBefore == [cost |-> 2, salvage |-> 0, life |-> 3, builtUp |-> 1, owned |-> TRUE]
MCShapes == {Bought, OwnedBefore}
MCAmounts == {2, -6}

\* No constant tells two assets, two people or two statement lines apart.
Symmetric == Permutations(Asset) \cup Permutations(Employee) \cup Permutations(StatementLine)
=============================================================================
