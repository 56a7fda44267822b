----------------------------- MODULE MCPayRun -----------------------------
(***************************************************************************)
(* Instances of PayRun for TLC.  Each configuration gives the full action  *)
(* set a small world in which one group of tables is interesting; the      *)
(* tables it leaves empty switch nothing else off.                         *)
(***************************************************************************)
EXTENDS PayRun, TLC

CONSTANTS e1, e2, l1, l2, l3, l4, c1, c2

(* Every loan belongs to e1 and every claim of index i to e_i. *)
MCLoanOwner == [l \in Loan |-> e1]
MCClaimOwner == [c \in Claim |-> IF c = c1 THEN e1 ELSE e2]

(* l1 leaves a remainder after its installments; l2's installment is too   *)
(* small for a minor unit per payslip (2 over 3 installments rounds to 0); *)
(* l4 is a loan of nothing.                                                *)
MCRepayable == [l \in Loan |-> CASE l = l1 -> 3 [] l = l4 -> 0 [] OTHER -> 2]
MCInstallment == [l \in Loan |-> CASE l = l1 -> 2 [] l = l3 -> 1 [] OTHER -> 0]

(* Run ids are interchangeable. *)
RunSymmetry == Permutations(Run)
=============================================================================
