--------------------------- MODULE LoanAccounts ---------------------------
(***************************************************************************)
(* What an employee loan promises its borrower, whatever payroll does      *)
(* behind it: an amount still owed that is never negative and never more   *)
(* than what was lent, an account that reads paid_off from the collection  *)
(* that leaves nothing owed until it is undone, and a cancelled loan that  *)
(* stays cancelled.  PayRun implements it: the balance is derived there    *)
(* from append-only repayment rows.                                        *)
(***************************************************************************)
EXTENDS Integers

CONSTANTS Loan,         \* the loans
          Repayable     \* Repayable[l]: principal plus flat interest

VARIABLES account,      \* account[l]: the loan's status, "none" before it is granted
          balance       \* balance[l]: what is still owed

vars == <<account, balance>>

(* The amounts a loan may owe. *)
Owed == UNION {0..Repayable[l] : l \in Loan}

Init == /\ account = [l \in Loan |-> "none"]
        /\ balance = Repayable

(* A loan is granted once, with everything still to pay. *)
Grant(l) == /\ account[l] = "none"
            /\ account' = [account EXCEPT ![l] = "active"]
            /\ UNCHANGED balance

Cancel(l) == /\ account[l] = "active"
             /\ account' = [account EXCEPT ![l] = "cancelled"]
             /\ UNCHANGED balance

(* What a collection closes, and what undoing it opens again. *)
Settled(S) == {l \in S : balance'[l] = 0}
Reopened(S) == {l \in S : account[l] = "paid_off"}

(* One payroll collects from some active loans: each of them owes strictly *)
(* less afterwards, and one that owes nothing more is closed.              *)
Collect(S) ==
    /\ \A l \in S : account[l] = "active"
    /\ balance' \in [Loan -> Owed]
    /\ \A l \in S : balance'[l] < balance[l]
    /\ \A l \in Loan \ S : balance'[l] = balance[l]
    /\ account' = [l \in Loan |-> IF l \in Settled(S) THEN "paid_off" ELSE account[l]]

(* A payroll is undone: what it collected is owed again, and a loan closed *)
(* by it is open again.  A cancelled loan stays cancelled.                 *)
Restore(S) ==
    /\ \A l \in S : account[l] # "none"
    /\ balance' \in [Loan -> Owed]
    /\ \A l \in S : balance[l] < balance'[l] /\ balance'[l] <= Repayable[l]
    /\ \A l \in Loan \ S : balance'[l] = balance[l]
    /\ account' = [l \in Loan |-> IF l \in Reopened(S) THEN "active" ELSE account[l]]

Next == \/ \E l \in Loan : Grant(l) \/ Cancel(l)
        \/ \E S \in SUBSET Loan : Collect(S) \/ Restore(S)

Spec == Init /\ [][Next]_vars
=============================================================================
