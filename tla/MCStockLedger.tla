--------------------------- MODULE MCStockLedger ---------------------------
(***************************************************************************)
(* Instances of StockLedger for TLC: few documents with every order of     *)
(* their requests, quantities and costs small enough to enumerate and odd  *)
(* enough to round.                                                        *)
(***************************************************************************)
EXTENDS StockLedger, TLC

CONSTANTS i1, i2, a1, a2, w1, w2

(* i1 has a default cost; nothing values i2 before it has stock. *)
MCDefaultCost == [i \in Item |-> IF i = i1 THEN 1 ELSE None]

(* Nothing needs approval that need not, or everything from a value of 2. *)
MCPolicies == {[issue |-> FALSE, transfer |-> FALSE, limit |-> None],
               [issue |-> TRUE, transfer |-> TRUE, limit |-> 2]}

AdjustmentSymmetry == Permutations(Adjustment)
WarehouseSymmetry == Permutations(Warehouse)
=============================================================================
