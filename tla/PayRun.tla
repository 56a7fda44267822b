------------------------------ MODULE PayRun ------------------------------
(***************************************************************************)
(* The payroll core of one organisation: the pay-run lifecycle (draft ->   *)
(* validated -> locked -> reversed) and everything locking or reversing a  *)
(* run touches: payslips, loans and their repayments, overtime and leave   *)
(* encashment, statutory liabilities and the journals in the ledger.       *)
(*                                                                         *)
(* Each action is one request, that is one database transaction that       *)
(* commits; a request that is refused or fails is rolled back and so is a  *)
(* step that changes nothing.  Requests do not overlap here.               *)
(*                                                                         *)
(* Abstracted: which amounts a payslip shows.  Whether an installment fits *)
(* the net pay, which schemes end up with a non-zero liability and whose   *)
(* gross has swung are free choices; loan amounts are exact.               *)
(***************************************************************************)
EXTENDS Integers, FiniteSets

CONSTANTS
    Emp,            \* employees
    Run,            \* pay-run ids, each used for at most one run
    Loan,           \* loan ids
    Claim,          \* overtime entries and leave-encashment requests
    Scheme,         \* statutory schemes a run can owe
    Accrued,        \* the schemes charged per run, not per payslip (NSITF, levies)
    LoanOwner,      \* LoanOwner[l], ClaimOwner[c]: the employee
    ClaimOwner,
    Repayable,      \* Repayable[l]: principal plus flat interest
    Installment,    \* Installment[l]: the scheduled deduction per payslip
    Days,           \* the period_end dates runs may have
    Today,          \* the day requests are made
    LockDates,      \* the lock dates the settings may take; 0 is none
    NoRun

ASSUME OwnerAssumption == /\ LoanOwner \in [Loan -> Emp]
                          /\ ClaimOwner \in [Claim -> Emp]
ASSUME AmountAssumption == /\ Repayable \in [Loan -> Nat]
                           /\ Installment \in [Loan -> Nat]
ASSUME DateAssumption == /\ Days \subseteq Nat \ {0}
                         /\ Today \in Nat \ {0}
                         /\ LockDates \subseteq Nat
ASSUME IdAssumption == /\ IsFiniteSet(Run)
                       /\ NoRun \notin Run
                       /\ Accrued \subseteq Scheme

VARIABLES
    employed,       \* employed[e]: lifecycle_state is ACTIVE (else TERMINATED)
    tin,            \* tin[e]: the employee has a TIN
    status,         \* status[r]: "none" before the draft, "discarded" once deleted
    period,         \* period[r]: period_end
    pinned,         \* pinned[r]: employee_ids, resolved when the draft is made
    flags,          \* flags[r]: employees with a variance flag
    acknowledged,   \* acknowledged[r]: its flags were acknowledged
    disbursed,      \* disbursed[r]: disbursed_at is set
    payslips,       \* the <<run, employee>> pairs with a payslip row
    loan,           \* loan[l]: status of the loan
    repaid,         \* repaid[l][r]: amount of the repayment row run r wrote
    claim,          \* claim[c]: status of the overtime entry or encashment
    paidBy,         \* paidBy[c]: its pay_run_id
    liability,      \* liability[r][s]: status of the run's liability for s
    journals,       \* ledger journals, each named by what it was posted for
    reversed,       \* the journals a reversal points at (reversal_of_id)
    postRemittances,\* AccountingSettings.post_statutory_remittances
    lockDate        \* AccountingSettings.lock_date; 0 is none

people == <<employed, tin>>
runs == <<status, period, pinned, flags, acknowledged, disbursed>>
loans == <<loan, repaid>>
claims == <<claim, paidBy>>
ledger == <<journals, reversed>>
settings == <<postRemittances, lockDate>>
vars == <<people, runs, payslips, loans, claims, liability, ledger, settings>>

RunStatus == {"none", "draft", "validated", "locked", "reversed", "discarded"}
LoanStatus == {"none", "active", "paid_off", "cancelled"}
ClaimStatus == {"none", "pending", "approved", "rejected", "paid"}
LiabilityStatus == {"none", "pending", "filed", "remitted"}

(* A journal is named <<source_type, run, source>>: its payslip's employee, *)
(* the run itself for the accrual, the liability's scheme for a remittance. *)
PayslipJournals(r, emps) == {"payroll"} \X {r} \X emps
AccrualJournal(r) == <<"statutory_accrual", r, r>>
RemittanceJournal(r, s) == <<"statutory_remittance", r, s>>

JournalId == ({"payroll"} \X Run \X Emp)
                \cup ({"statutory_accrual"} \X Run \X Run)
                \cup ({"statutory_remittance"} \X Run \X Scheme)

(* Mutant: a reversal that picks the journals by run, remittances included. *)
TaggedWithRemittances(r) == {j \in journals : j[2] = r}

(* The journals whose lines carry the run's pay_run_id: a remittance's do not. *)
Tagged(r) == {j \in journals : j[2] = r /\ j[1] # "statutory_remittance"}

TypeOK ==
    /\ employed \in [Emp -> BOOLEAN]
    /\ tin \in [Emp -> BOOLEAN]
    /\ status \in [Run -> RunStatus]
    /\ period \in [Run -> Nat]
    /\ pinned \in [Run -> SUBSET Emp]
    /\ flags \in [Run -> SUBSET Emp]
    /\ acknowledged \in [Run -> BOOLEAN]
    /\ disbursed \in [Run -> BOOLEAN]
    /\ payslips \subseteq Run \X Emp
    /\ loan \in [Loan -> LoanStatus]
    /\ repaid \in [Loan -> [Run -> Nat]]
    /\ claim \in [Claim -> ClaimStatus]
    /\ paidBy \in [Claim -> Run \cup {NoRun}]
    /\ liability \in [Run -> [Scheme -> LiabilityStatus]]
    /\ journals \subseteq JournalId
    /\ reversed \subseteq JournalId
    /\ postRemittances \in BOOLEAN
    /\ lockDate \in Nat

Init ==
    /\ employed = [e \in Emp |-> TRUE]
    /\ tin = [e \in Emp |-> TRUE]
    /\ status = [r \in Run |-> "none"]
    /\ period = [r \in Run |-> 0]
    /\ pinned = [r \in Run |-> {}]
    /\ flags = [r \in Run |-> {}]
    /\ acknowledged = [r \in Run |-> FALSE]
    /\ disbursed = [r \in Run |-> FALSE]
    /\ payslips = {}
    /\ loan = [l \in Loan |-> "none"]
    /\ repaid = [l \in Loan |-> [r \in Run |-> 0]]
    /\ claim = [c \in Claim |-> "none"]
    /\ paidBy = [c \in Claim |-> NoRun]
    /\ liability = [r \in Run |-> [s \in Scheme |-> "none"]]
    /\ journals = {}
    /\ reversed = {}
    /\ postRemittances = FALSE
    /\ lockDate = 0
-----------------------------------------------------------------------------
(* Helpers *)

(* Mutant: the lock date itself still open. *)
OpenFromLockDate(day) == day >= lockDate

OpenPeriod(day) == day > lockDate

(* The repayments of loan l that count, one element per minor unit: those  *)
(* of a reversed run are left out.  Counting the set is the SUM.           *)
UnitsRepaid(l) ==
    {u \in Run \X (1..Repayable[l]) :
        status[u[1]] # "reversed" /\ u[2] <= repaid[l][u[1]]}

(* Mutant: the balance with its operands swapped. *)
OutstandingSwapped(l) == Cardinality(UnitsRepaid(l)) - Repayable[l]

(* outstanding_loan_balance *)
Outstanding(l) == Repayable[l] - Cardinality(UnitsRepaid(l))

(* Mutant: the last installment is not capped at the balance. *)
DeductionUncapped(l, full) == IF full THEN Outstanding(l) ELSE Installment[l]

(* next_installment_amount, or the whole balance when closing a loan at exit. *)
Deduction(l, full) ==
    IF full \/ Installment[l] > Outstanding(l) THEN Outstanding(l) ELSE Installment[l]

(* The loans a payroll of emps may deduct from.  active_loan returns one   *)
(* active loan per employee, and an installment that does not fit in the   *)
(* net pay is skipped altogether.                                          *)
Deductible(emps) ==
    {ls \in SUBSET {l \in Loan : loan[l] = "active" /\ LoanOwner[l] \in emps} :
        \A l, m \in ls : LoanOwner[l] = LoanOwner[m] => l = m}

(* Approved, unpaid overtime and encashments, swept into the next payslip. *)
Swept(emps) == {c \in Claim : /\ ClaimOwner[c] \in emps
                              /\ claim[c] = "approved"
                              /\ paidBy[c] = NoRun}

(* process_employee_payslip for every employee of run r, the liabilities   *)
(* `due` of the run and their journals.  `deducted` are the loans whose    *)
(* installment fits.                                                       *)
ProcessPayslips(r, emps, end, full, deducted, due) ==
    /\ \A e \in emps : tin[e]
    /\ OpenPeriod(end)
    /\ due \cap Accrued # {} => AccrualJournal(r) \notin journals
    /\ deducted \in Deductible(emps)
    /\ payslips' = payslips \cup ({r} \X emps)
    /\ repaid' = [l \in Loan |->
                    IF l \in deducted THEN [repaid[l] EXCEPT ![r] = Deduction(l, full)]
                    ELSE repaid[l]]
    /\ loan' = [l \in Loan |->
                    IF l \in deducted /\ Deduction(l, full) > 0
                                      /\ Outstanding(l) - Deduction(l, full) <= 0
                    THEN "paid_off" ELSE loan[l]]
    /\ claim' = [c \in Claim |-> IF c \in Swept(emps) THEN "paid" ELSE claim[c]]
    /\ paidBy' = [c \in Claim |-> IF c \in Swept(emps) THEN r ELSE paidBy[c]]
    /\ liability' = [liability EXCEPT ![r] =
                        [s \in Scheme |-> IF s \in due THEN "pending" ELSE liability[r][s]]]
    /\ journals' = journals \cup PayslipJournals(r, emps)
                     \cup (IF due \cap Accrued # {} THEN {AccrualJournal(r)} ELSE {})
    /\ UNCHANGED reversed

(* The locked runs that ended before run r, and the latest of them. *)
Earlier(r) == {p \in Run : status[p] = "locked" /\ period[p] < period[r]}
PreviousLocked(r) == {p \in Earlier(r) : \A q \in Earlier(r) : period[q] <= period[p]}

PaidIn(r) == {e \in Emp : <<r, e>> \in payslips}

(* The employees _detect_variance may flag: any of those whose gross has   *)
(* swung since the previous run, and all who were paid then, are still     *)
(* active and are not in this run.                                         *)
PossibleFlags(r) ==
    IF Earlier(r) = {} THEN {{}}
    ELSE UNION {{swung \cup {e \in PaidIn(p) \ pinned[r] : employed[e]} :
                    swung \in SUBSET (pinned[r] \cap PaidIn(p))} : p \in PreviousLocked(r)}

(* Mutant: flags are recorded and never looked at. *)
NeverBlocks(found, override) == FALSE

(* Flags nobody acknowledged stop a validation. *)
Blocks(found, override) == found # {} /\ ~override

(* Mutant: the employees of a run re-resolved when it is locked. *)
ActiveEmployees(r) == {e \in Emp : employed[e]}

(* The employees lock_pay_run pays. *)
EmployeesOf(r) == pinned[r]
-----------------------------------------------------------------------------
(* The pay-run lifecycle *)

(* POST /pay-runs: the employees are resolved and pinned now. *)
CreateDraft(r, wanted, end) ==
    /\ status[r] = "none"
    /\ \E e \in wanted : employed[e]
    /\ status' = [status EXCEPT ![r] = "draft"]
    /\ period' = [period EXCEPT ![r] = end]
    /\ pinned' = [pinned EXCEPT ![r] = {e \in wanted : employed[e]}]
    /\ UNCHANGED <<people, flags, acknowledged, disbursed, payslips, loans, claims,
                   liability, ledger, settings>>

(* POST /pay-runs/{id}/validate: flags are recomputed each time, and kept  *)
(* (committed) even when they make the request fail.                       *)
Validate(r, override) ==
    /\ status[r] = "draft"
    /\ \A e \in pinned[r] : tin[e]
    /\ \E found \in PossibleFlags(r) :
          /\ flags' = [flags EXCEPT ![r] = found]
          /\ acknowledged' = [acknowledged EXCEPT ![r] = override]
          /\ status' = IF Blocks(found, override) THEN status
                       ELSE [status EXCEPT ![r] = "validated"]
    /\ UNCHANGED <<people, period, pinned, disbursed, payslips, loans, claims,
                   liability, ledger, settings>>

(* POST /pay-runs/{id}/lock *)
LockRun(r, deducted, due) ==
    /\ status[r] = "validated"
    /\ ProcessPayslips(r, EmployeesOf(r), period[r], FALSE, deducted, due)
    /\ status' = [status EXCEPT ![r] = "locked"]
    /\ UNCHANGED <<people, period, pinned, flags, acknowledged, disbursed, settings>>

(* POST /pay-runs/{id}/mark-paid *)
MarkPaid(r) ==
    /\ status[r] = "locked"
    /\ disbursed' = [disbursed EXCEPT ![r] = TRUE]
    /\ UNCHANGED <<people, status, period, pinned, flags, acknowledged, payslips, loans,
                   claims, liability, ledger, settings>>

(* POST /pay-runs/{id}/discard: the row and its flags are deleted. *)
Discard(r) ==
    /\ status[r] \in {"draft", "validated"}
    /\ status' = [status EXCEPT ![r] = "discarded"]
    /\ pinned' = [pinned EXCEPT ![r] = {}]
    /\ flags' = [flags EXCEPT ![r] = {}]
    /\ acknowledged' = [acknowledged EXCEPT ![r] = FALSE]
    /\ UNCHANGED <<people, period, disbursed, payslips, loans, claims, liability, ledger,
                   settings>>

ActedOn(r) == {s \in Scheme : liability[r][s] \in {"filed", "remitted"}}

(* Mutants: every liability of the run withdrawn, or none. *)
WithdrawnWhateverTheStatus(r) == {s \in Scheme : liability[r][s] # "none"}
WithdrawnNever(r) == {}

(* The liabilities a reversal deletes. *)
Withdrawn(r) == {s \in Scheme : liability[r][s] = "pending"}

(* Mutant: overtime and encashments stay with the reversed run. *)
PaidOutByForgotten(r) == {}

PaidOutBy(r) == {c \in Claim : paidBy[c] = r}

(* Mutant: no loan is looked at again. *)
AffectedLoansForgotten(r) == {}

(* The loans a repayment of run r was taken from. *)
AffectedLoans(r) == {l \in Loan : repaid[l][r] > 0}

(* POST /pay-runs/{id}/reverse: the loan balances are read after the new   *)
(* status is flushed, so the run's own repayments no longer count.         *)
Reverse(r, acknowledge) ==
    /\ status[r] = "locked"
    /\ ActedOn(r) = {} \/ acknowledge
    /\ Tagged(r) # {} => OpenPeriod(Today)
    /\ Tagged(r) \cap reversed = {}
    /\ reversed' = reversed \cup Tagged(r)
    /\ liability' = [liability EXCEPT ![r] =
                        [s \in Scheme |-> IF s \in Withdrawn(r) THEN "none"
                                          ELSE liability[r][s]]]
    /\ claim' = [c \in Claim |-> IF c \in PaidOutBy(r) THEN "approved" ELSE claim[c]]
    /\ paidBy' = [c \in Claim |-> IF c \in PaidOutBy(r) THEN NoRun ELSE paidBy[c]]
    /\ status' = [status EXCEPT ![r] = "reversed"]
    /\ UNCHANGED repaid
    /\ loan' = [l \in Loan |->
                  IF l \in AffectedLoans(r) /\ loan[l] = "paid_off" /\ Outstanding(l)' > 0
                  THEN "active" ELSE loan[l]]
    /\ UNCHANGED <<people, period, pinned, flags, acknowledged, disbursed, payslips, journals,
                   settings>>

(* POST /final-settlements/{employee}: a run of its own, locked in the     *)
(* same transaction, whatever the employee's state was before.             *)
FinalSettlement(r, e, end, deducted, due) ==
    /\ status[r] = "none"
    /\ ProcessPayslips(r, {e}, end, TRUE, deducted, due)
    /\ status' = [status EXCEPT ![r] = "locked"]
    /\ period' = [period EXCEPT ![r] = end]
    /\ pinned' = [pinned EXCEPT ![r] = {e}]
    /\ employed' = [employed EXCEPT ![e] = FALSE]
    /\ UNCHANGED <<tin, flags, acknowledged, disbursed, settings>>
-----------------------------------------------------------------------------
(* Loans, claims, liabilities, employees and settings *)

ActiveLoans(e) == {l \in Loan : LoanOwner[l] = e /\ loan[l] = "active"}

RequestLoan(l) ==
    /\ loan[l] = "none"
    /\ ActiveLoans(LoanOwner[l]) = {}
    /\ loan' = [loan EXCEPT ![l] = "active"]
    /\ UNCHANGED <<people, runs, payslips, repaid, claims, liability, ledger, settings>>

CancelLoan(l) ==
    /\ loan[l] = "active"
    /\ loan' = [loan EXCEPT ![l] = "cancelled"]
    /\ UNCHANGED <<people, runs, payslips, repaid, claims, liability, ledger, settings>>

SubmitClaim(c) ==
    /\ claim[c] = "none"
    /\ claim' = [claim EXCEPT ![c] = "pending"]
    /\ UNCHANGED <<people, runs, payslips, loans, paidBy, liability, ledger, settings>>

DecideClaim(c, approve) ==
    /\ claim[c] = "pending"
    /\ claim' = [claim EXCEPT ![c] = IF approve THEN "approved" ELSE "rejected"]
    /\ UNCHANGED <<people, runs, payslips, loans, paidBy, liability, ledger, settings>>

MarkFiled(r, s) ==
    /\ liability[r][s] = "pending"
    /\ liability' = [liability EXCEPT ![r][s] = "filed"]
    /\ UNCHANGED <<people, runs, payslips, loans, claims, ledger, settings>>

(* Remitting does not need the liability to be filed first. *)
MarkRemitted(r, s) ==
    /\ liability[r][s] \in {"pending", "filed"}
    /\ liability' = [liability EXCEPT ![r][s] = "remitted"]
    /\ \/ /\ postRemittances
          /\ OpenPeriod(Today)
          /\ RemittanceJournal(r, s) \notin journals
          /\ journals' = journals \cup {RemittanceJournal(r, s)}
       \/ /\ ~postRemittances
          /\ UNCHANGED journals
    /\ UNCHANGED <<people, runs, payslips, loans, claims, reversed, settings>>

UpdateTin(e) ==
    /\ tin' = [tin EXCEPT ![e] = ~tin[e]]
    /\ UNCHANGED <<employed, runs, payslips, loans, claims, liability, ledger, settings>>

UpdateSettings(post, day) ==
    /\ postRemittances' = post
    /\ day <= Today
    /\ lockDate' = day
    /\ UNCHANGED <<people, runs, payslips, loans, claims, liability, ledger>>

Next ==
    \/ \E r \in Run, wanted \in SUBSET Emp, end \in Days : CreateDraft(r, wanted, end)
    \/ \E r \in Run, override \in BOOLEAN : Validate(r, override)
    \/ \E r \in Run, deducted \in SUBSET Loan, due \in SUBSET Scheme :
          \/ LockRun(r, deducted, due)
          \/ \E e \in Emp, end \in Days : FinalSettlement(r, e, end, deducted, due)
    \/ \E r \in Run : MarkPaid(r) \/ Discard(r)
    \/ \E r \in Run, acknowledge \in BOOLEAN : Reverse(r, acknowledge)
    \/ \E l \in Loan : RequestLoan(l) \/ CancelLoan(l)
    \/ \E c \in Claim : SubmitClaim(c) \/ \E approve \in BOOLEAN : DecideClaim(c, approve)
    \/ \E r \in Run, s \in Scheme : MarkFiled(r, s) \/ MarkRemitted(r, s)
    \/ \E e \in Emp : UpdateTin(e)
    \/ \E post \in BOOLEAN, day \in LockDates : UpdateSettings(post, day)

Spec == Init /\ [][Next]_vars
-----------------------------------------------------------------------------
(* Properties *)

(* Overtime and encashment are paid out once: an entry reads paid exactly  *)
(* while it names a run that is locked and that paid its employee, and a   *)
(* reversed run holds on to none of them (_record_period_effects against   *)
(* the restoration in reverse_pay_run).                                    *)
ClaimsPaidByLockedRuns ==
    \A c \in Claim :
        /\ claim[c] = "paid" <=> paidBy[c] # NoRun
        /\ paidBy[c] # NoRun => /\ status[paidBy[c]] = "locked"
                                /\ <<paidBy[c], ClaimOwner[c]>> \in payslips

(* A loan's status and the balance derived from its repayment rows agree   *)
(* through any order of locks, reversals, settlements and cancellations:   *)
(* never over-collected, closed only once all of it is repaid, open only   *)
(* while something is owed.  A loan of nothing is the exception: it is     *)
(* granted active, no payslip has anything to deduct, and so none closes   *)
(* it.                                                                     *)
LoanStatusMatchesBalance ==
    \A l \in Loan :
        /\ Outstanding(l) >= 0
        /\ loan[l] = "paid_off" => Outstanding(l) = 0 /\ Repayable[l] > 0
        /\ loan[l] = "active" => Outstanding(l) > 0 \/ Repayable[l] = 0

(* A liability still to be filed belongs to a run that stands; one already *)
(* acted on may outlive the reversal of its run, and only that.            *)
LiabilitiesBelongToRuns ==
    \A r \in Run, s \in Scheme :
        /\ liability[r][s] = "pending" => status[r] = "locked"
        /\ liability[r][s] \in {"filed", "remitted"} => status[r] \in {"locked", "reversed"}

(* The ledger follows the lifecycle: exactly the payslips of a locked or   *)
(* reversed run are posted, each reversed once the run is and not before,  *)
(* and a remittance to an authority is never mirrored back.                *)
LedgerMatchesRuns ==
    /\ \A j \in reversed : j \in journals /\ status[j[2]] = "reversed"
    /\ \A r \in Run :
        /\ status[r] = "reversed" => Tagged(r) \subseteq reversed
        /\ status[r] \notin {"locked", "reversed"} => Tagged(r) = {}
        /\ \A e \in Emp : <<r, e>> \in payslips <=> <<"payroll", r, e>> \in journals
        /\ \A s \in Scheme : RemittanceJournal(r, s) \in journals =>
                                /\ liability[r][s] = "remitted"
                                /\ RemittanceJournal(r, s) \notin reversed

(* Who a run pays is settled when it is drafted: a run that was locked has *)
(* a payslip for each employee pinned then and for nobody else, whoever is *)
(* hired, terminated or paid by another run in the meantime.               *)
PayslipsMatchPinned ==
    \A r \in Run : PaidIn(r) = IF status[r] \in {"locked", "reversed"} THEN pinned[r] ELSE {}

(* No run goes past validation with a flag nobody acknowledged.            *)
FlagsReviewed ==
    \A r \in Run : status[r] \in {"validated", "locked", "reversed"} =>
                        flags[r] = {} \/ acknowledged[r]

(* What was filed with or paid to an authority is never undone, whatever   *)
(* happens to the run (reverse_pay_run deletes pending liabilities only).  *)
ActedOnStands ==
    [][\A r \in Run, s \in Scheme :
        /\ liability[r][s] = "filed" => liability'[r][s] \in {"filed", "remitted"}
        /\ liability[r][s] = "remitted" => liability'[r][s] = "remitted"]_vars

EntryDate(j) == IF j[1] = "statutory_remittance" THEN Today ELSE period[j[2]]

(* The ledger's entries dated `day`; a reversal is dated the day it is made. *)
EntriesOn(day) == {j \in journals : EntryDate(j) = day}
                    \cup (IF day = Today THEN {<<"reversal", j>> : j \in reversed} ELSE {})

(* Nothing is added to the books on or before the lock date, by a run, an  *)
(* accrual, a remittance or a reversal.                                    *)
SealedPeriodsStand ==
    [][\A day \in Days \cup {Today} : day <= lockDate => EntriesOn(day)' = EntriesOn(day)]_vars

(* Seen from one loan, payroll is the account of LoanAccounts.             *)
Accounts == INSTANCE LoanAccounts
                WITH account <- loan, balance <- [l \in Loan |-> Outstanding(l)]
ImplementsLoanAccounts == Accounts!Spec

(* "At most one active loan per employee": what active_loan says of the    *)
(* rule request_loan enforces.                                             *)
AtMostOneActiveLoan == \A e \in Emp : Cardinality(ActiveLoans(e)) <= 1
=============================================================================
