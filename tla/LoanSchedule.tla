--------------------------- MODULE LoanSchedule ---------------------------
(***************************************************************************)
(* The arithmetic of one employee loan: what is owed in all, the equal     *)
(* installments it is divided into, and what the payslips really deduct.   *)
(* request_loan keeps only the first installment of the plan; every later  *)
(* payslip takes that amount, or what is left if that is less.             *)
(*                                                                         *)
(* Each payslip's net pay covers its installment here (PayRun models the   *)
(* one that does not); amounts are whole minor units.                      *)
(***************************************************************************)
EXTENDS Integers, Sequences, Functions

CONSTANTS Principals,       \* the amounts lent
          Rates,            \* flat interest, in basis points
          Terms             \* numbers of installments asked for

ASSUME TermsAssumption == /\ Principals \subseteq Nat /\ Rates \subseteq Nat
                          /\ Terms \subseteq Nat

VARIABLES principal, rate, term,    \* the request; term is 0 before it
          installment,              \* Loan.installment_minor
          deducted                  \* the amounts of the repayment rows, in order

vars == <<principal, rate, term, installment, deducted>>

Total(amounts) == SumFunction(amounts)

(* apply_flat_interest_minor *)
ApplyFlatInterest(p, bps) == p + (p * bps) \div 10000

(* Mutants: one installment too many, a remainder left out of the plan. *)
BaseOffByOne(amount, n) == amount \div (n + 1)
RemainderForgotten(amount, n) == 0

(* compute_equal_installments: the base, and what the last one adds to it. *)
Base(amount, n) == amount \div n
Remainder(amount, n) == amount - Base(amount, n) * n
EqualInstallments(amount, n) ==
    [i \in 1..n |-> IF i = n THEN Base(amount, n) + Remainder(amount, n)
                    ELSE Base(amount, n)]

(* Mutant: the scheduled amount whatever is left. *)
InstallmentUncapped(outstanding, scheduled) == scheduled

(* next_installment_amount *)
NextInstallment(outstanding, scheduled) ==
    IF outstanding < scheduled THEN outstanding ELSE scheduled

Repayable == ApplyFlatInterest(principal, rate)

(* outstanding_loan_balance *)
Outstanding == Repayable - Total(deducted)

Init == /\ principal = 0 /\ rate = 0 /\ term = 0 /\ installment = 0
        /\ deducted = <<>>

(* request_loan, its amounts only; a number of installments below 1 is     *)
(* refused.                                                                *)
RequestLoan(p, bps, n) ==
    /\ term = 0
    /\ n > 0
    /\ principal' = p /\ rate' = bps /\ term' = n
    /\ installment' = EqualInstallments(ApplyFlatInterest(p, bps), n)[1]
    /\ UNCHANGED deducted

(* A payslip while the loan is active: a row only for a positive amount.   *)
Deduct ==
    /\ term > 0
    /\ Outstanding > 0
    /\ NextInstallment(Outstanding, installment) > 0
    /\ deducted' = Append(deducted, NextInstallment(Outstanding, installment))
    /\ UNCHANGED <<principal, rate, term, installment>>

Next == \/ \E p \in Principals, bps \in Rates, n \in Terms : RequestLoan(p, bps, n)
        \/ Deduct

Spec == Init /\ [][Next]_vars
-----------------------------------------------------------------------------
Plan == EqualInstallments(Repayable, term)

(* The plan the borrower is given adds up to what is owed, to the unit.    *)
PlanSumsToTotal == term > 0 => Total(Plan) = Repayable

(* The deductions follow the plan up to its last installment and never     *)
(* take a unit more than it adds up to.  Only the first installment is     *)
(* kept, so after the last one exactly the remainder is still owed.        *)
DeductionsFollowPlan ==
    /\ \A i \in DOMAIN deducted : i < term => deducted[i] = Plan[i]
    /\ Outstanding >= 0
    /\ term > 0 /\ Len(deducted) = term => Outstanding = Remainder(Repayable, term)

(* A loan whose installment is not nothing is repaid in less than twice    *)
(* the number of payslips it was asked for.                                *)
RepaidWithinTwiceTheTerm ==
    term > 0 /\ installment > 0 /\ Len(deducted) >= 2 * term - 1 => Outstanding = 0
=============================================================================
