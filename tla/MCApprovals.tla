---------------------------- MODULE MCApprovals ----------------------------
(* Instances of Approvals for TLC.                                         *)
EXTENDS Approvals, TLC

CONSTANTS t1, t2

MCDays == [r \in Leave \cup Encashment |-> 1]

\* No constant tells two transactions apart.
TxnSymmetry == Permutations(Txn)
=============================================================================
