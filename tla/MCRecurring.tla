---------------------------- MODULE MCRecurring ----------------------------
(* Instances of Recurring for TLC.                                         *)
EXTENDS Recurring

CONSTANTS t1, t2, t3, o1, o2

\* Two organisations; months of two days and of one.
MCOrgOf == [t \in Template |-> IF t = t3 THEN o2 ELSE o1]
MCPrefix == [t \in Template |-> "rent"]
MCPeriod == [t \in Template |-> IF t = t2 THEN 2 ELSE 1]
MCMonths == <<2, 1, 2, 1, 2, 1>>
=============================================================================
