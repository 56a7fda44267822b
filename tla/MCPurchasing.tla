---------------------------- MODULE MCPurchasing ----------------------------
(* Instances of Purchasing for TLC.                                        *)
EXTENDS Purchasing, TLC

CONSTANTS t1, t2

\* Two of the first line, worth three in all, and one of the second for nothing.
MCOrdered == [l \in Line |-> IF l = 1 THEN 2 ELSE 1]
MCNet == [l \in Line |-> IF l = 1 THEN 3 ELSE 0]
\* One of each, or all of the first: twice the same is too much whatever the
\* tolerance, one of either completes the order only within it.
MCBodies == {[l \in Line |-> 1], [l \in Line |-> IF l = 1 THEN 2 ELSE 0]}

Symmetric == Permutations(Txn) \cup Permutations(Receipt) \cup Permutations(Bill)
=============================================================================
