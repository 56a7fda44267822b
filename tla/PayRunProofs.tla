--------------------------- MODULE PayRunProofs ---------------------------
(***************************************************************************)
(* What PayRun guarantees for every set of employees, runs, loans, claims, *)
(* schemes and dates.                                                      *)
(***************************************************************************)
EXTENDS PayRun, FiniteSetTheorems, TLAPS

(* UnitsRepaid, with its state as parameters: the minor units of a loan of *)
(* n that the rows of `row` repay, leaving out the runs reversed in `st`.  *)
Units(st, row, n) == {u \in Run \X (1..n) : st[u[1]] # "reversed" /\ u[2] <= row[u[1]]}

LEMMA UnitsFinite ==
    ASSUME NEW st, NEW row, NEW n \in Nat
    PROVE  IsFiniteSet(Units(st, row, n)) /\ Cardinality(Units(st, row, n)) \in Nat
<1>1. IsFiniteSet(1..n)
  BY FS_Interval
<1>2. IsFiniteSet(Run \X (1..n))
  BY <1>1, FS_Product, IdAssumption
<1>3. Units(st, row, n) \in SUBSET (Run \X (1..n))
  BY DEF Units
<1> QED
  BY <1>2, <1>3, FS_Subset, FS_CardinalityType

(* One run's row counts for its amount. *)
LEMMA RowCount ==
    ASSUME NEW r \in Run, NEW d \in Nat
    PROVE  IsFiniteSet({r} \X (1..d)) /\ Cardinality({r} \X (1..d)) = d
<1>1. IsFiniteSet({r}) /\ Cardinality({r}) = 1
  BY FS_Singleton
<1>2. IsFiniteSet(1..d) /\ Cardinality(1..d) = d
  BY FS_Interval
<1>3. /\ IsFiniteSet({r} \X (1..d))
      /\ Cardinality({r} \X (1..d)) = 1 * Cardinality(1..d)
  BY <1>1, <1>2, FS_Product
<1> QED
  BY <1>2, <1>3

(* Adding the row of a run that had none adds its amount to the count. *)
LEMMA UnitsGrow ==
    ASSUME NEW n \in Nat, NEW r \in Run, NEW d \in 0..n,
           NEW st \in [Run -> RunStatus], NEW row \in [Run -> Nat],
           row[r] = 0, st[r] # "reversed",
           NEW stNew, stNew[r] # "reversed", \A q \in Run \ {r} : stNew[q] = st[q],
           NEW rowNew, rowNew[r] = d, \A q \in Run \ {r} : rowNew[q] = row[q]
    PROVE  Cardinality(Units(stNew, rowNew, n)) = Cardinality(Units(st, row, n)) + d
<1> DEFINE old == Units(st, row, n)
           add == {r} \X (1..d)
<1>1. Units(stNew, rowNew, n) = old \cup add
  BY DEF Units, RunStatus
<1>2. old \cap add = {}
  BY DEF Units
<1>3. IsFiniteSet(old) /\ IsFiniteSet(add) /\ Cardinality(add) = d
  BY UnitsFinite, RowCount
<1>4. Cardinality(old \cup add) = Cardinality(old) + d - Cardinality(old \cap add)
  BY <1>3, FS_Union
<1>5. Cardinality(old) \in Nat
  BY UnitsFinite
<1>6. Cardinality(old \cap add) = 0
  BY <1>2, FS_EmptySet
<1> HIDE DEF old, add
<1>7. Cardinality(old \cup add) = Cardinality(old) + d
  BY <1>4, <1>5, <1>6
<1> QED
  BY <1>1, <1>7 DEF old

(* Reversing a run takes the amount of its row out of the count. *)
LEMMA UnitsShrink ==
    ASSUME NEW n \in Nat, NEW r \in Run,
           NEW st \in [Run -> RunStatus], NEW row \in [Run -> Nat],
           row[r] <= n, st[r] # "reversed",
           NEW stNew, stNew[r] = "reversed", \A q \in Run \ {r} : stNew[q] = st[q]
    PROVE  Cardinality(Units(stNew, row, n)) = Cardinality(Units(st, row, n)) - row[r]
<1> DEFINE old == Units(st, row, n)
           gone == {r} \X (1..row[r])
<1>1. Units(stNew, row, n) = old \ gone
  BY DEF Units, RunStatus
<1>2. old \cap gone = gone
  BY DEF Units
<1>3. IsFiniteSet(old) /\ Cardinality(gone) = row[r]
  BY UnitsFinite, RowCount
<1>4. Cardinality(old \ gone) = Cardinality(old) - Cardinality(old \cap gone)
  BY <1>3, FS_Difference
<1> HIDE DEF old, gone
<1> QED
  BY <1>1, <1>2, <1>3, <1>4 DEF old

(* A row of nothing may come and go. *)
LEMMA UnitsSame ==
    ASSUME NEW n \in Nat, NEW r \in Run,
           NEW st \in [Run -> RunStatus], NEW row \in [Run -> Nat],
           NEW stNew, \A q \in Run \ {r} : stNew[q] = st[q],
           row[r] = 0 \/ (stNew[r] # "reversed" /\ st[r] # "reversed")
    PROVE  Units(stNew, row, n) = Units(st, row, n)
BY DEF Units
-----------------------------------------------------------------------------
(* Loans.  The balance is derived from repayment rows that are never       *)
(* edited, so what makes it sound is inductive only together with who may  *)
(* own a row: a run that has not been locked owns none, a loan that has    *)
(* not been granted has none, and no row exceeds its loan.                 *)

FreshRunsRepayNothing ==
    \A r \in Run, l \in Loan : status[r] \notin {"locked", "reversed"} => repaid[l][r] = 0

UngrantedLoansUnpaid ==
    \A r \in Run, l \in Loan : loan[l] = "none" => repaid[l][r] = 0

RepaymentsFit == \A r \in Run, l \in Loan : repaid[l][r] <= Repayable[l]

LoanInv == /\ TypeOK
           /\ LoanStatusMatchesBalance
           /\ FreshRunsRepayNothing
           /\ UngrantedLoansUnpaid
           /\ RepaymentsFit

LEMMA OutstandingCounts ==
    ASSUME NEW l \in Loan
    PROVE  /\ Outstanding(l) = Repayable[l] - Cardinality(Units(status, repaid[l], Repayable[l]))
           /\ Outstanding(l)' =
                 Repayable[l] - Cardinality(Units(status', repaid'[l], Repayable[l]))
           /\ Cardinality(Units(status, repaid[l], Repayable[l])) \in Nat
           /\ Outstanding(l) \in Int /\ Outstanding(l) <= Repayable[l]
<1>1. Repayable[l] \in Nat
  BY AmountAssumption
<1>2. Cardinality(Units(status, repaid[l], Repayable[l])) \in Nat
  BY <1>1, UnitsFinite
<1>3. UnitsRepaid(l) = Units(status, repaid[l], Repayable[l])
  BY DEF UnitsRepaid, Units
<1>4. UnitsRepaid(l)' = Units(status', repaid'[l], Repayable[l])
  BY DEF UnitsRepaid, Units
<1> QED
  BY <1>1, <1>2, <1>3, <1>4 DEF Outstanding

(* What locking a run and settling a leaver have in common. *)
PayrollStep(r, emps, end, full, deducted, due) ==
    /\ status[r] \notin {"locked", "reversed"}
    /\ ProcessPayslips(r, emps, end, full, deducted, due)
    /\ status' = [status EXCEPT ![r] = "locked"]

(* A payroll takes each deduction off the balance of its loan and leaves   *)
(* the other balances alone.                                               *)
LEMMA PayrollCollects ==
    ASSUME LoanInv,
           NEW r \in Run, NEW emps, NEW end, NEW full \in BOOLEAN, NEW deducted, NEW due,
           PayrollStep(r, emps, end, full, deducted, due),
           NEW l \in Loan
    PROVE  /\ l \in deducted =>
                /\ loan[l] = "active"
                /\ Deduction(l, full) \in 0..Outstanding(l)
                /\ Deduction(l, full) <= Repayable[l]
                /\ \A q \in Run : repaid'[l][q] = IF q = r THEN Deduction(l, full)
                                                 ELSE repaid[l][q]
                /\ Outstanding(l)' = Outstanding(l) - Deduction(l, full)
                /\ loan'[l] = IF Deduction(l, full) > 0 /\ Outstanding(l)' <= 0
                              THEN "paid_off" ELSE loan[l]
           /\ l \notin deducted =>
                /\ repaid'[l] = repaid[l]
                /\ Outstanding(l)' = Outstanding(l)
                /\ loan'[l] = loan[l]
<1> DEFINE n == Repayable[l]
           d == Deduction(l, full)
<1> USE DEF PayrollStep
<1>1. /\ n \in Nat /\ Installment[l] \in Nat
      /\ status \in [Run -> RunStatus] /\ repaid[l] \in [Run -> Nat]
      /\ repaid[l][r] = 0 /\ status[r] # "reversed"
  BY AmountAssumption DEF LoanInv, TypeOK, FreshRunsRepayNothing
<1>2. /\ Outstanding(l) \in Int /\ Outstanding(l) <= n
      /\ Outstanding(l) = n - Cardinality(Units(status, repaid[l], n))
      /\ Outstanding(l)' = n - Cardinality(Units(status', repaid'[l], n))
      /\ Cardinality(Units(status, repaid[l], n)) \in Nat
  BY OutstandingCounts
<1>3. ASSUME l \in deducted
      PROVE  /\ loan[l] = "active"
             /\ d \in 0..Outstanding(l)
             /\ d <= n
             /\ \A q \in Run : repaid'[l][q] = IF q = r THEN d ELSE repaid[l][q]
             /\ Outstanding(l)' = Outstanding(l) - d
             /\ loan'[l] = IF d > 0 /\ Outstanding(l)' <= 0 THEN "paid_off" ELSE loan[l]
  <2>1. loan[l] = "active"
    BY <1>3 DEF ProcessPayslips, Deductible
  <2>2. Outstanding(l) >= 0
    BY DEF LoanInv, LoanStatusMatchesBalance
  <2>3. d \in 0..Outstanding(l) /\ d \in 0..n
    BY <1>1, <1>2, <2>2 DEF Deduction
  <2>4. repaid'[l] = [repaid[l] EXCEPT ![r] = d]
    BY <1>3 DEF ProcessPayslips
  <2>5. Cardinality(Units(status', repaid'[l], n)) = Cardinality(Units(status, repaid[l], n)) + d
    <3>1. /\ \A q \in Run \ {r} : status'[q] = status[q] /\ repaid'[l][q] = repaid[l][q]
          /\ status'[r] = "locked" /\ repaid'[l][r] = d
      BY <1>1, <2>4
    <3>2. PICK st, row, k, m : /\ st = status' /\ row = repaid'[l]
                               /\ k = n /\ m = d
      OBVIOUS
    <3>3. /\ k \in Nat /\ m \in 0..k
          /\ st[r] # "reversed" /\ \A q \in Run \ {r} : st[q] = status[q]
          /\ row[r] = m /\ \A q \in Run \ {r} : row[q] = repaid[l][q]
      BY <1>1, <2>3, <3>1, <3>2
    <3>4. Cardinality(Units(st, row, k)) = Cardinality(Units(status, repaid[l], k)) + m
      BY <1>1, <3>3, UnitsGrow
    <3> QED
      BY <3>2, <3>4
  <2>6. Outstanding(l)' = Outstanding(l) - d
    BY <1>1, <1>2, <2>3, <2>5
  <2>7. loan'[l] = IF d > 0 /\ Outstanding(l) - d <= 0 THEN "paid_off" ELSE loan[l]
    BY <1>3 DEF ProcessPayslips
  <2> QED
    BY <1>1, <2>1, <2>3, <2>4, <2>6, <2>7
<1>4. ASSUME l \notin deducted
      PROVE  /\ repaid'[l] = repaid[l]
             /\ Outstanding(l)' = Outstanding(l)
             /\ loan'[l] = loan[l]
  <2>1. repaid'[l] = repaid[l] /\ loan'[l] = loan[l]
    BY <1>4 DEF ProcessPayslips
  <2>2. Units(status', repaid'[l], n) = Units(status, repaid[l], n)
    <3>1. PICK st : st = status'
      OBVIOUS
    <3>2. st[r] = "locked" /\ \A q \in Run \ {r} : st[q] = status[q]
      BY <1>1, <3>1
    <3> HIDE DEF n
    <3>3. Units(st, repaid[l], n) = Units(status, repaid[l], n)
      BY <1>1, <3>2, UnitsSame
    <3> QED
      BY <2>1, <3>1, <3>3
  <2> QED
    BY <1>2, <2>1, <2>2
<1> QED
  BY <1>3, <1>4

(* A reversal gives back exactly what the run had taken. *)
LEMMA ReversalRestores ==
    ASSUME LoanInv, NEW r \in Run, NEW acknowledge, Reverse(r, acknowledge), NEW l \in Loan
    PROVE  /\ Outstanding(l)' = Outstanding(l) + repaid[l][r]
           /\ loan'[l] = IF repaid[l][r] > 0 /\ loan[l] = "paid_off" THEN "active"
                         ELSE loan[l]
<1> DEFINE n == Repayable[l]
<1>1. /\ n \in Nat
      /\ status \in [Run -> RunStatus] /\ repaid[l] \in [Run -> Nat]
      /\ repaid[l][r] \in Nat /\ repaid[l][r] <= n /\ status[r] # "reversed"
  BY AmountAssumption DEF LoanInv, TypeOK, RepaymentsFit, Reverse
<1>2. /\ Outstanding(l) \in Int
      /\ Outstanding(l) = n - Cardinality(Units(status, repaid[l], n))
      /\ Outstanding(l)' = n - Cardinality(Units(status', repaid'[l], n))
      /\ Cardinality(Units(status, repaid[l], n)) \in Nat
  BY OutstandingCounts
<1>3. status' = [status EXCEPT ![r] = "reversed"] /\ repaid' = repaid
  BY DEF Reverse
<1>4. Cardinality(Units(status', repaid'[l], n))
        = Cardinality(Units(status, repaid[l], n)) - repaid[l][r]
  <2>1. PICK st, k : st = status' /\ k = n
    OBVIOUS
  <2>2. /\ st[r] = "reversed" /\ \A q \in Run \ {r} : st[q] = status[q]
        /\ k \in Nat /\ repaid[l][r] <= k
    BY <1>1, <1>3, <2>1
  <2>3. Cardinality(Units(st, repaid[l], k))
          = Cardinality(Units(status, repaid[l], k)) - repaid[l][r]
    BY <1>1, <2>2, UnitsShrink
  <2> QED
    BY <1>3, <2>1, <2>3
<1>5. Outstanding(l)' = Outstanding(l) + repaid[l][r]
  BY <1>1, <1>2, <1>4
<1>6. loan'[l] = IF repaid[l][r] > 0 /\ loan[l] = "paid_off" /\ Outstanding(l)' > 0
                 THEN "active" ELSE loan[l]
  BY DEF Reverse, AffectedLoans
<1>7. loan[l] = "paid_off" => Outstanding(l) = 0
  BY DEF LoanInv, LoanStatusMatchesBalance
<1> QED
  BY <1>1, <1>5, <1>6, <1>7

(* Every other step leaves the balances alone: it writes no repayment, and *)
(* changes the status of no run that owns one.                             *)
LEMMA OthersKeepBalances ==
    ASSUME LoanInv, UNCHANGED repaid,
           NEW r \in Run, NEW s \in RunStatus \ {"reversed"},
           status' = status \/ (status[r] # "reversed" /\ status' = [status EXCEPT ![r] = s]),
           NEW l \in Loan
    PROVE  Outstanding(l)' = Outstanding(l)
<1> DEFINE n == Repayable[l]
<1>1. /\ n \in Nat /\ status \in [Run -> RunStatus] /\ repaid[l] \in [Run -> Nat]
  BY AmountAssumption DEF LoanInv, TypeOK
<1>2. Units(status', repaid'[l], n) = Units(status, repaid[l], n)
  <2>1. CASE status' = status
    BY <2>1
  <2>2. CASE status[r] # "reversed" /\ status' = [status EXCEPT ![r] = s]
    <3>1. PICK st : st = status'
      OBVIOUS
    <3>2. st[r] # "reversed" /\ \A q \in Run \ {r} : st[q] = status[q]
      BY <1>1, <2>2, <3>1
    <3> HIDE DEF n
    <3>3. Units(st, repaid[l], n) = Units(status, repaid[l], n)
      BY <1>1, <2>2, <3>2, UnitsSame
    <3> QED
      BY <3>1, <3>3
  <2> QED
    BY <2>1, <2>2
<1> QED
  BY <1>2, OutstandingCounts
-----------------------------------------------------------------------------
(* Types *)

LEMMA PayrollTypes ==
    ASSUME LoanInv,
           NEW r \in Run, NEW emps \in SUBSET Emp, NEW end, NEW full \in BOOLEAN,
           NEW deducted, NEW due \in SUBSET Scheme,
           PayrollStep(r, emps, end, full, deducted, due)
    PROVE  /\ payslips' \subseteq Run \X Emp
           /\ loan' \in [Loan -> LoanStatus]
           /\ repaid' \in [Loan -> [Run -> Nat]]
           /\ claim' \in [Claim -> ClaimStatus]
           /\ paidBy' \in [Claim -> Run \cup {NoRun}]
           /\ liability' \in [Run -> [Scheme -> LiabilityStatus]]
           /\ journals' \subseteq JournalId
           /\ reversed' \subseteq JournalId
<1>0. ASSUME NEW l \in deducted \cap Loan
      PROVE  Deduction(l, full) \in Nat
  <2>1. Deduction(l, full) \in 0..Outstanding(l)
    BY PayrollCollects
  <2>2. Outstanding(l) \in Int
    BY OutstandingCounts
  <2> QED
    BY <2>1, <2>2
<1> USE DEF LoanInv, TypeOK, PayrollStep
<1>1. payslips' \subseteq Run \X Emp
  BY DEF ProcessPayslips
<1>2. loan' \in [Loan -> LoanStatus]
  BY DEF ProcessPayslips, LoanStatus
<1>3. repaid' \in [Loan -> [Run -> Nat]]
  <2>1. ASSUME NEW l \in Loan
        PROVE  repaid'[l] \in [Run -> Nat]
    <3>1. CASE l \in deducted
      <4>1. Deduction(l, full) \in Nat
        BY <1>0, <3>1
      <4> QED
        BY <3>1, <4>1 DEF ProcessPayslips
    <3>2. CASE l \notin deducted
      BY <3>2 DEF ProcessPayslips
    <3> QED
      BY <3>1, <3>2
  <2>2. repaid' = [l \in Loan |-> repaid'[l]]
    BY DEF ProcessPayslips
  <2> QED
    BY <2>1, <2>2
<1>4. claim' \in [Claim -> ClaimStatus]
  BY DEF ProcessPayslips, ClaimStatus
<1>5. paidBy' \in [Claim -> Run \cup {NoRun}]
  BY DEF ProcessPayslips
<1>6. liability' \in [Run -> [Scheme -> LiabilityStatus]]
  BY DEF ProcessPayslips, LiabilityStatus
<1>7. journals' \subseteq JournalId
  BY DEF ProcessPayslips, PayslipJournals, AccrualJournal, JournalId
<1>8. reversed' \subseteq JournalId
  BY DEF ProcessPayslips
<1> QED
  BY <1>1, <1>2, <1>3, <1>4, <1>5, <1>6, <1>7, <1>8

LEMMA TypeOKStep ==
    ASSUME LoanInv, [Next]_vars
    PROVE  TypeOK'
<1> USE DEF people, runs, loans, claims, ledger, settings
<1>0. TypeOK
  BY DEF LoanInv
<1>1. ASSUME NEW r \in Run, NEW wanted \in SUBSET Emp, NEW end \in Days,
             CreateDraft(r, wanted, end)
      PROVE  TypeOK'
  <2>1. end \in Nat
    BY DateAssumption
  <2> QED
    BY <1>0, <1>1, <2>1 DEF TypeOK, CreateDraft, RunStatus
<1>2. ASSUME NEW r \in Run, NEW override \in BOOLEAN, Validate(r, override)
      PROVE  TypeOK'
  <2>1. PICK found \in PossibleFlags(r) :
           /\ flags' = [flags EXCEPT ![r] = found]
           /\ acknowledged' = [acknowledged EXCEPT ![r] = override]
           /\ status' = IF Blocks(found, override) THEN status
                        ELSE [status EXCEPT ![r] = "validated"]
    BY <1>2 DEF Validate
  <2>2. found \in SUBSET Emp
    <3>1. pinned[r] \subseteq Emp
      BY <1>0 DEF TypeOK
    <3>2. CASE Earlier(r) = {}
      BY <3>2 DEF PossibleFlags
    <3>3. CASE Earlier(r) # {}
      <4>1. PICK p \in PreviousLocked(r) :
               found \in {swung \cup {e \in PaidIn(p) \ pinned[r] : employed[e]} :
                            swung \in SUBSET (pinned[r] \cap PaidIn(p))}
        BY <3>3 DEF PossibleFlags
      <4>2. PaidIn(p) \subseteq Emp
        BY DEF PaidIn
      <4> QED
        BY <3>1, <4>1, <4>2
    <3> QED
      BY <3>2, <3>3
  <2>3. status' \in [Run -> RunStatus]
    BY <1>0, <2>1 DEF TypeOK, RunStatus
  <2>4. flags' \in [Run -> SUBSET Emp] /\ acknowledged' \in [Run -> BOOLEAN]
    BY <1>0, <2>1, <2>2 DEF TypeOK
  <2> QED
    BY <1>0, <1>2, <2>3, <2>4 DEF TypeOK, Validate
<1>3. ASSUME NEW r \in Run, NEW deducted \in SUBSET Loan, NEW due \in SUBSET Scheme,
             LockRun(r, deducted, due)
      PROVE  TypeOK'
  <2>1. EmployeesOf(r) \in SUBSET Emp
    BY <1>0 DEF TypeOK, EmployeesOf
  <2>2. PayrollStep(r, EmployeesOf(r), period[r], FALSE, deducted, due)
    BY <1>3 DEF LockRun, PayrollStep
  <2>3. /\ payslips' \subseteq Run \X Emp
        /\ loan' \in [Loan -> LoanStatus]
        /\ repaid' \in [Loan -> [Run -> Nat]]
        /\ claim' \in [Claim -> ClaimStatus]
        /\ paidBy' \in [Claim -> Run \cup {NoRun}]
        /\ liability' \in [Run -> [Scheme -> LiabilityStatus]]
        /\ journals' \subseteq JournalId
        /\ reversed' \subseteq JournalId
    BY <2>1, <2>2, PayrollTypes
  <2> QED
    BY <1>0, <1>3, <2>3 DEF TypeOK, LockRun, RunStatus
<1>4. ASSUME NEW r \in Run, NEW e \in Emp, NEW end \in Days,
             NEW deducted \in SUBSET Loan, NEW due \in SUBSET Scheme,
             FinalSettlement(r, e, end, deducted, due)
      PROVE  TypeOK'
  <2>1. {e} \in SUBSET Emp /\ end \in Nat
    BY DateAssumption
  <2>2. PayrollStep(r, {e}, end, TRUE, deducted, due)
    BY <1>4 DEF FinalSettlement, PayrollStep
  <2>3. /\ payslips' \subseteq Run \X Emp
        /\ loan' \in [Loan -> LoanStatus]
        /\ repaid' \in [Loan -> [Run -> Nat]]
        /\ claim' \in [Claim -> ClaimStatus]
        /\ paidBy' \in [Claim -> Run \cup {NoRun}]
        /\ liability' \in [Run -> [Scheme -> LiabilityStatus]]
        /\ journals' \subseteq JournalId
        /\ reversed' \subseteq JournalId
    BY <2>1, <2>2, PayrollTypes
  <2> QED
    BY <1>0, <1>4, <2>1, <2>3 DEF TypeOK, FinalSettlement, RunStatus
<1>5. ASSUME NEW r \in Run, MarkPaid(r) PROVE TypeOK'
  BY <1>0, <1>5 DEF TypeOK, MarkPaid
<1>6. ASSUME NEW r \in Run, Discard(r) PROVE TypeOK'
  BY <1>0, <1>6 DEF TypeOK, Discard, RunStatus
<1>7. ASSUME NEW r \in Run, NEW acknowledge \in BOOLEAN, Reverse(r, acknowledge)
      PROVE  TypeOK'
  <2>1. status' \in [Run -> RunStatus] /\ loan' \in [Loan -> LoanStatus]
    BY <1>0, <1>7 DEF TypeOK, Reverse, RunStatus, LoanStatus
  <2>2. claim' \in [Claim -> ClaimStatus] /\ paidBy' \in [Claim -> Run \cup {NoRun}]
    BY <1>0, <1>7 DEF TypeOK, Reverse, ClaimStatus
  <2>3. liability' \in [Run -> [Scheme -> LiabilityStatus]]
    BY <1>0, <1>7 DEF TypeOK, Reverse, LiabilityStatus
  <2>4. reversed' \subseteq JournalId
    BY <1>0, <1>7 DEF TypeOK, Reverse, Tagged
  <2> QED
    BY <1>0, <1>7, <2>1, <2>2, <2>3, <2>4 DEF TypeOK, Reverse
<1>8. ASSUME NEW l \in Loan, RequestLoan(l) PROVE TypeOK'
  BY <1>0, <1>8 DEF TypeOK, RequestLoan, LoanStatus
<1>9. ASSUME NEW l \in Loan, CancelLoan(l) PROVE TypeOK'
  BY <1>0, <1>9 DEF TypeOK, CancelLoan, LoanStatus
<1>10. ASSUME NEW c \in Claim, SubmitClaim(c) PROVE TypeOK'
  BY <1>0, <1>10 DEF TypeOK, SubmitClaim, ClaimStatus
<1>11. ASSUME NEW c \in Claim, NEW approve \in BOOLEAN, DecideClaim(c, approve) PROVE TypeOK'
  BY <1>0, <1>11 DEF TypeOK, DecideClaim, ClaimStatus
<1>12. ASSUME NEW r \in Run, NEW s \in Scheme, MarkFiled(r, s) PROVE TypeOK'
  BY <1>0, <1>12 DEF TypeOK, MarkFiled, LiabilityStatus
<1>13. ASSUME NEW r \in Run, NEW s \in Scheme, MarkRemitted(r, s) PROVE TypeOK'
  <2>1. journals' \subseteq JournalId
    BY <1>0, <1>13 DEF TypeOK, MarkRemitted, RemittanceJournal, JournalId
  <2>2. liability' \in [Run -> [Scheme -> LiabilityStatus]]
    BY <1>0, <1>13 DEF TypeOK, MarkRemitted, LiabilityStatus
  <2> QED
    BY <1>0, <1>13, <2>1, <2>2 DEF TypeOK, MarkRemitted
<1>14. ASSUME NEW e \in Emp, UpdateTin(e) PROVE TypeOK'
  BY <1>0, <1>14 DEF TypeOK, UpdateTin
<1>15. ASSUME NEW post \in BOOLEAN, NEW day \in LockDates, UpdateSettings(post, day)
       PROVE  TypeOK'
  BY <1>0, <1>15, DateAssumption DEF TypeOK, UpdateSettings
<1>16. ASSUME UNCHANGED vars PROVE TypeOK'
  BY <1>0, <1>16 DEF TypeOK, vars
<1> QED
  BY <1>1, <1>2, <1>3, <1>4, <1>5, <1>6, <1>7, <1>8, <1>9, <1>10, <1>11, <1>12, <1>13,
     <1>14, <1>15, <1>16 DEF Next
-----------------------------------------------------------------------------
(* The loan invariant *)

LEMMA LoanInvInit == Init => LoanInv
<1> SUFFICES ASSUME Init PROVE LoanInv
  OBVIOUS
<1>1. TypeOK
  BY DEF Init, TypeOK, RunStatus, LoanStatus, ClaimStatus, LiabilityStatus
<1>2. ASSUME NEW l \in Loan PROVE Outstanding(l) = Repayable[l] /\ loan[l] = "none"
  <2>1. Repayable[l] \in Nat
    BY AmountAssumption
  <2>2. UnitsRepaid(l) = {}
    BY <2>1 DEF UnitsRepaid, Init
  <2>3. Cardinality(UnitsRepaid(l)) = 0
    BY <2>2, FS_EmptySet
  <2> QED
    BY <2>1, <2>3 DEF Outstanding, Init
<1>3. LoanStatusMatchesBalance
  BY <1>2, AmountAssumption DEF LoanStatusMatchesBalance
<1>4. FreshRunsRepayNothing /\ UngrantedLoansUnpaid
  BY DEF Init, FreshRunsRepayNothing, UngrantedLoansUnpaid
<1>5. RepaymentsFit
  BY AmountAssumption DEF Init, RepaymentsFit
<1> QED
  BY <1>1, <1>3, <1>4, <1>5 DEF LoanInv

LoanFacts == /\ LoanStatusMatchesBalance
             /\ FreshRunsRepayNothing
             /\ UngrantedLoansUnpaid
             /\ RepaymentsFit

LEMMA PayrollKeepsLoans ==
    ASSUME LoanInv,
           NEW r \in Run, NEW emps, NEW end, NEW full \in BOOLEAN, NEW deducted, NEW due,
           PayrollStep(r, emps, end, full, deducted, due)
    PROVE  LoanFacts'
<1>1. ASSUME NEW l \in Loan
      PROVE  /\ Outstanding(l)' >= 0
             /\ loan'[l] = "paid_off" => Outstanding(l)' = 0 /\ Repayable[l] > 0
             /\ loan'[l] = "active" => Outstanding(l)' > 0 \/ Repayable[l] = 0
             /\ loan'[l] = "none" => loan[l] = "none" /\ l \notin deducted
  <2>1. /\ Outstanding(l) >= 0
        /\ loan[l] = "paid_off" => Outstanding(l) = 0 /\ Repayable[l] > 0
        /\ loan[l] = "active" => Outstanding(l) > 0 \/ Repayable[l] = 0
    BY DEF LoanInv, LoanStatusMatchesBalance
  <2>2. /\ Outstanding(l) \in Int /\ Outstanding(l) <= Repayable[l]
        /\ Repayable[l] \in Nat
    BY OutstandingCounts, AmountAssumption
  <2>3. CASE l \in deducted
    <3>1. /\ loan[l] = "active"
          /\ Deduction(l, full) \in 0..Outstanding(l)
          /\ Outstanding(l)' = Outstanding(l) - Deduction(l, full)
          /\ loan'[l] = IF Deduction(l, full) > 0 /\ Outstanding(l)' <= 0
                        THEN "paid_off" ELSE loan[l]
      BY <2>3, PayrollCollects
    <3> QED
      BY <2>1, <2>2, <3>1
  <2>4. CASE l \notin deducted
    BY <2>1, <2>2, <2>4, PayrollCollects
  <2> QED
    BY <2>3, <2>4
<1>2. ASSUME NEW l \in Loan, NEW q \in Run
      PROVE  /\ repaid'[l][q] <= Repayable[l]
             /\ q # r \/ l \notin deducted => repaid'[l][q] = repaid[l][q]
  <2>1. repaid[l][q] <= Repayable[l]
    BY DEF LoanInv, RepaymentsFit
  <2>2. CASE l \in deducted
    <3>1. /\ Deduction(l, full) <= Repayable[l]
          /\ repaid'[l][q] = IF q = r THEN Deduction(l, full) ELSE repaid[l][q]
      BY <2>2, PayrollCollects
    <3> QED
      BY <2>1, <2>2, <3>1
  <2>3. CASE l \notin deducted
    <3>1. repaid'[l] = repaid[l]
      BY <2>3, PayrollCollects
    <3> QED
      BY <2>1, <2>3, <3>1
  <2> QED
    BY <2>2, <2>3
<1>3. LoanStatusMatchesBalance'
  BY <1>1 DEF LoanStatusMatchesBalance
<1>4. FreshRunsRepayNothing'
  <2>1. /\ status'[r] = "locked"
        /\ \A q \in Run \ {r} : status'[q] = status[q]
    BY DEF PayrollStep, LoanInv, TypeOK
  <2> QED
    BY <1>2, <2>1 DEF LoanInv, FreshRunsRepayNothing
<1>5. UngrantedLoansUnpaid'
  BY <1>1, <1>2 DEF LoanInv, UngrantedLoansUnpaid
<1>6. RepaymentsFit'
  BY <1>2 DEF RepaymentsFit
<1> QED
  BY <1>3, <1>4, <1>5, <1>6 DEF LoanFacts

LEMMA ReversalKeepsLoans ==
    ASSUME LoanInv, NEW r \in Run, NEW acknowledge, Reverse(r, acknowledge)
    PROVE  LoanFacts'
<1>1. ASSUME NEW l \in Loan
      PROVE  /\ Outstanding(l)' >= 0
             /\ loan'[l] = "paid_off" => Outstanding(l)' = 0 /\ Repayable[l] > 0
             /\ loan'[l] = "active" => Outstanding(l)' > 0 \/ Repayable[l] = 0
             /\ loan'[l] = "none" => loan[l] = "none"
  <2>1. /\ Outstanding(l) >= 0
        /\ loan[l] = "paid_off" => Outstanding(l) = 0 /\ Repayable[l] > 0
        /\ loan[l] = "active" => Outstanding(l) > 0 \/ Repayable[l] = 0
        /\ Outstanding(l) \in Int /\ repaid[l][r] \in Nat
    BY OutstandingCounts DEF LoanInv, LoanStatusMatchesBalance, TypeOK
  <2>2. /\ Outstanding(l)' = Outstanding(l) + repaid[l][r]
        /\ loan'[l] = IF repaid[l][r] > 0 /\ loan[l] = "paid_off" THEN "active"
                      ELSE loan[l]
    BY ReversalRestores
  <2> QED
    BY <2>1, <2>2
<1>2. repaid' = repaid
  BY DEF Reverse
<1>3. LoanStatusMatchesBalance'
  BY <1>1 DEF LoanStatusMatchesBalance
<1>4. FreshRunsRepayNothing'
  <2>1. /\ status'[r] = "reversed"
        /\ \A q \in Run \ {r} : status'[q] = status[q]
    BY DEF Reverse, LoanInv, TypeOK
  <2> QED
    BY <1>2, <2>1 DEF LoanInv, FreshRunsRepayNothing
<1>5. UngrantedLoansUnpaid'
  BY <1>1, <1>2 DEF LoanInv, UngrantedLoansUnpaid
<1>6. RepaymentsFit'
  BY <1>2 DEF LoanInv, RepaymentsFit
<1> QED
  BY <1>3, <1>4, <1>5, <1>6 DEF LoanFacts

(* Steps that touch neither rows nor loans, and lock or reverse nothing. *)
LEMMA OthersKeepLoans ==
    ASSUME LoanInv, UNCHANGED loans,
           NEW r \in Run, NEW s \in RunStatus \ {"locked", "reversed"},
           \/ status' = status
           \/ status[r] \notin {"locked", "reversed"} /\ status' = [status EXCEPT ![r] = s]
    PROVE  LoanFacts'
<1>1. repaid' = repaid /\ loan' = loan
  BY DEF loans
<1>2. ASSUME NEW l \in Loan PROVE Outstanding(l)' = Outstanding(l)
  BY <1>1, OthersKeepBalances
<1>3. LoanStatusMatchesBalance'
  BY <1>1, <1>2 DEF LoanInv, LoanStatusMatchesBalance
<1>4. FreshRunsRepayNothing'
  BY <1>1 DEF LoanInv, TypeOK, FreshRunsRepayNothing
<1>5. UngrantedLoansUnpaid' /\ RepaymentsFit'
  BY <1>1 DEF LoanInv, UngrantedLoansUnpaid, RepaymentsFit
<1> QED
  BY <1>3, <1>4, <1>5 DEF LoanFacts

LEMMA LoanInvStep ==
    ASSUME LoanInv, [Next]_vars
    PROVE  LoanInv'
<1>0. TypeOK
  BY DEF LoanInv
<1>1. ASSUME NEW r \in Run, NEW wanted \in SUBSET Emp, NEW end \in Days,
             CreateDraft(r, wanted, end)
      PROVE  LoanFacts'
  <2>1. /\ "draft" \in RunStatus \ {"locked", "reversed"}
        /\ status[r] \notin {"locked", "reversed"}
        /\ status' = [status EXCEPT ![r] = "draft"]
        /\ UNCHANGED loans
    BY <1>1 DEF CreateDraft, RunStatus
  <2> QED
    BY <2>1, OthersKeepLoans
<1>2. ASSUME NEW r \in Run, NEW override \in BOOLEAN, Validate(r, override)
      PROVE  LoanFacts'
  <2>1. /\ "validated" \in RunStatus \ {"locked", "reversed"}
        /\ status[r] \notin {"locked", "reversed"}
        /\ status' = status \/ status' = [status EXCEPT ![r] = "validated"]
        /\ UNCHANGED loans
    BY <1>2 DEF Validate, RunStatus
  <2> QED
    BY <2>1, OthersKeepLoans
<1>3. ASSUME NEW r \in Run, NEW deducted \in SUBSET Loan, NEW due \in SUBSET Scheme,
             LockRun(r, deducted, due)
      PROVE  LoanFacts'
  <2>1. PayrollStep(r, EmployeesOf(r), period[r], FALSE, deducted, due)
    BY <1>3 DEF LockRun, PayrollStep
  <2> QED
    BY <2>1, PayrollKeepsLoans
<1>4. ASSUME NEW r \in Run, NEW e \in Emp, NEW end \in Days,
             NEW deducted \in SUBSET Loan, NEW due \in SUBSET Scheme,
             FinalSettlement(r, e, end, deducted, due)
      PROVE  LoanFacts'
  <2>1. PayrollStep(r, {e}, end, TRUE, deducted, due)
    BY <1>4 DEF FinalSettlement, PayrollStep
  <2> QED
    BY <2>1, PayrollKeepsLoans
<1>5. ASSUME NEW r \in Run, Discard(r) PROVE LoanFacts'
  <2>1. /\ "discarded" \in RunStatus \ {"locked", "reversed"}
        /\ status[r] \notin {"locked", "reversed"}
        /\ status' = [status EXCEPT ![r] = "discarded"]
        /\ UNCHANGED loans
    BY <1>5 DEF Discard, RunStatus
  <2> QED
    BY <2>1, OthersKeepLoans
<1>6. ASSUME NEW r \in Run, NEW acknowledge \in BOOLEAN, Reverse(r, acknowledge)
      PROVE  LoanFacts'
  BY <1>6, ReversalKeepsLoans
<1>7. ASSUME UNCHANGED <<loans, status>> PROVE LoanFacts'
  <2>1. ASSUME NEW r \in Run PROVE LoanFacts'
    <3>1. "none" \in RunStatus \ {"locked", "reversed"}
      BY DEF RunStatus
    <3> QED
      BY <1>7, <3>1, OthersKeepLoans
  <2>2. CASE Run = {}
    <3>1. ASSUME NEW l \in Loan PROVE Outstanding(l)' = Outstanding(l)
      BY <1>7 DEF Outstanding, UnitsRepaid, loans
    <3> QED
      BY <1>7, <2>2, <3>1 DEF LoanInv, LoanFacts, LoanStatusMatchesBalance,
         FreshRunsRepayNothing, UngrantedLoansUnpaid, RepaymentsFit, loans
  <2> QED
    BY <2>1, <2>2
<1>8. ASSUME NEW l \in Loan, RequestLoan(l) \/ CancelLoan(l) PROVE LoanFacts'
  <2>1. /\ repaid' = repaid /\ status' = status
        /\ \A m \in Loan \ {l} : loan'[m] = loan[m]
        /\ loan'[l] \in {"active", "cancelled"}
        /\ loan'[l] = "active" => loan[l] = "none"
    BY <1>0, <1>8 DEF RequestLoan, CancelLoan, runs, TypeOK
  <2>2. ASSUME NEW m \in Loan PROVE Outstanding(m)' = Outstanding(m)
    BY <2>1 DEF Outstanding, UnitsRepaid
  <2>3. loan[l] = "none" => Outstanding(l) = Repayable[l] /\ Repayable[l] \in Nat
    <3>1. ASSUME loan[l] = "none" PROVE UnitsRepaid(l) = {}
      BY <3>1, AmountAssumption DEF UnitsRepaid, LoanInv, UngrantedLoansUnpaid
    <3>2. ASSUME loan[l] = "none" PROVE Cardinality(UnitsRepaid(l)) = 0
      BY <3>1, <3>2, FS_EmptySet
    <3> QED
      BY <3>2, AmountAssumption DEF Outstanding
  <2>4. LoanStatusMatchesBalance'
    BY <2>1, <2>2, <2>3 DEF LoanInv, LoanStatusMatchesBalance
  <2>5. FreshRunsRepayNothing' /\ UngrantedLoansUnpaid' /\ RepaymentsFit'
    BY <2>1 DEF LoanInv, FreshRunsRepayNothing, UngrantedLoansUnpaid, RepaymentsFit
  <2> QED
    BY <2>4, <2>5 DEF LoanFacts
<1>9. LoanFacts'
  <2> USE DEF runs, loans
  <2>1. ASSUME NEW r \in Run, MarkPaid(r) PROVE UNCHANGED <<loans, status>>
    BY <2>1 DEF MarkPaid
  <2>2. ASSUME NEW c \in Claim, SubmitClaim(c) \/ \E approve \in BOOLEAN : DecideClaim(c, approve)
        PROVE  UNCHANGED <<loans, status>>
    BY <2>2 DEF SubmitClaim, DecideClaim
  <2>3. ASSUME NEW r \in Run, NEW s \in Scheme, MarkFiled(r, s) \/ MarkRemitted(r, s)
        PROVE  UNCHANGED <<loans, status>>
    BY <2>3 DEF MarkFiled, MarkRemitted
  <2>4. ASSUME NEW e \in Emp, UpdateTin(e) PROVE UNCHANGED <<loans, status>>
    BY <2>4 DEF UpdateTin
  <2>5. ASSUME NEW post \in BOOLEAN, NEW day \in LockDates, UpdateSettings(post, day)
        PROVE  UNCHANGED <<loans, status>>
    BY <2>5 DEF UpdateSettings
  <2>6. ASSUME UNCHANGED vars PROVE UNCHANGED <<loans, status>>
    BY <2>6 DEF vars
  <2> HIDE DEF runs, loans
  <2> QED
    BY <1>1, <1>2, <1>3, <1>4, <1>5, <1>6, <1>7, <1>8, <2>1, <2>2, <2>3, <2>4, <2>5, <2>6
    DEF Next
<1> QED
  BY <1>9, TypeOKStep DEF LoanInv, LoanFacts

LEMMA LoanInvAlways == Spec => []LoanInv
<1>1. LoanInv /\ UNCHANGED vars => LoanInv'
  BY LoanInvStep
<1>2. LoanInv /\ Next => LoanInv'
  BY LoanInvStep
<1> QED
  BY LoanInvInit, <1>1, <1>2, PTL DEF Spec

(* Every table holds only what its columns allow, whatever the order of    *)
(* the requests: in particular no repayment is ever negative.              *)
THEOREM TypeCorrect == Spec => []TypeOK
<1>1. LoanInv => TypeOK
  BY DEF LoanInv
<1> QED
  BY LoanInvAlways, <1>1, PTL

(* No loan is ever over-collected or closed early, however many runs       *)
(* deduct from it and are reversed, and however it is settled or cancelled *)
(* in between; and only a loan of nothing is active with nothing owed.     *)
THEOREM LoansSound == Spec => []LoanStatusMatchesBalance
<1>1. LoanInv => LoanStatusMatchesBalance
  BY DEF LoanInv
<1> QED
  BY LoanInvAlways, <1>1, PTL
-----------------------------------------------------------------------------
(* Claims, payslips, flags and liabilities.  Each is inductive with the    *)
(* types; the flags need to know that a run starts without any.            *)

FreshRunsUnflagged == \A r \in Run : status[r] = "none" => flags[r] = {}

RunInv == /\ TypeOK
          /\ ClaimsPaidByLockedRuns
          /\ LiabilitiesBelongToRuns
          /\ PayslipsMatchPinned
          /\ FreshRunsUnflagged
          /\ FlagsReviewed

LEMMA ClaimsStep ==
    ASSUME TypeOK, ClaimsPaidByLockedRuns, [Next]_vars
    PROVE  ClaimsPaidByLockedRuns'
<1> USE DEF TypeOK, ClaimsPaidByLockedRuns
<1>1. ASSUME NEW r \in Run, NEW emps, NEW end, NEW full, NEW deducted, NEW due,
             PayrollStep(r, emps, end, full, deducted, due)
      PROVE  ClaimsPaidByLockedRuns'
  <2>1. /\ status'[r] = "locked"
        /\ \A q \in Run : status[q] = "locked" => status'[q] = "locked"
    BY <1>1 DEF PayrollStep
  <2>2. payslips \subseteq payslips' /\ \A e \in emps : <<r, e>> \in payslips'
    BY <1>1 DEF PayrollStep, ProcessPayslips
  <2> QED
    BY <1>1, <2>1, <2>2, IdAssumption DEF PayrollStep, ProcessPayslips, Swept
<1>2. ASSUME NEW r \in Run, NEW acknowledge, Reverse(r, acknowledge)
      PROVE  ClaimsPaidByLockedRuns'
  BY <1>2 DEF Reverse, PaidOutBy
<1>3. ASSUME NEW c \in Claim, SubmitClaim(c) PROVE ClaimsPaidByLockedRuns'
  BY <1>3 DEF SubmitClaim, runs
<1>4. ASSUME NEW c \in Claim, NEW approve \in BOOLEAN, DecideClaim(c, approve)
      PROVE  ClaimsPaidByLockedRuns'
  BY <1>4 DEF DecideClaim, runs
<1>5. ASSUME UNCHANGED <<claims, payslips>>,
             \A r \in Run : status[r] = "locked" => status'[r] = "locked"
      PROVE  ClaimsPaidByLockedRuns'
  BY <1>5 DEF claims
<1>6. ASSUME NEW r \in Run,
             \/ \E wanted \in SUBSET Emp, end \in Days : CreateDraft(r, wanted, end)
             \/ \E override \in BOOLEAN : Validate(r, override)
             \/ MarkPaid(r) \/ Discard(r)
      PROVE  ClaimsPaidByLockedRuns'
  <2>1. /\ UNCHANGED <<claims, payslips>>
        /\ \A q \in Run : status[q] = "locked" => status'[q] = "locked"
    BY <1>6 DEF CreateDraft, Validate, MarkPaid, Discard
  <2> QED
    BY <1>5, <2>1
<1>7. ASSUME \/ \E l \in Loan : RequestLoan(l) \/ CancelLoan(l)
             \/ \E r \in Run, s \in Scheme : MarkFiled(r, s) \/ MarkRemitted(r, s)
             \/ \E e \in Emp : UpdateTin(e)
             \/ \E post \in BOOLEAN, day \in LockDates : UpdateSettings(post, day)
             \/ UNCHANGED vars
      PROVE  ClaimsPaidByLockedRuns'
  <2>1. UNCHANGED <<claims, payslips>> /\ status' = status
    BY <1>7 DEF RequestLoan, CancelLoan, MarkFiled, MarkRemitted, UpdateTin, UpdateSettings,
       vars, runs
  <2> QED
    BY <1>5, <2>1
<1>8. ASSUME NEW r \in Run, NEW deducted \in SUBSET Loan, NEW due \in SUBSET Scheme,
             \/ LockRun(r, deducted, due)
             \/ \E e \in Emp, end \in Days : FinalSettlement(r, e, end, deducted, due)
      PROVE  \E emps, end, full : PayrollStep(r, emps, end, full, deducted, due)
  BY <1>8 DEF LockRun, FinalSettlement, PayrollStep
<1> HIDE DEF TypeOK, ClaimsPaidByLockedRuns
<1> QED
  BY <1>1, <1>2, <1>3, <1>4, <1>6, <1>7, <1>8 DEF Next

(* Filing or remitting moves one liability forward. *)
LEMMA HandlingLiability ==
    ASSUME TypeOK, NEW r \in Run, NEW s \in Scheme, MarkFiled(r, s) \/ MarkRemitted(r, s)
    PROVE  /\ liability[r][s] = "pending" \/ (liability[r][s] = "filed" /\ liability'[r][s] = "remitted")
           /\ liability'[r][s] \in {"filed", "remitted"}
           /\ \A q \in Run, t \in Scheme : q # r \/ t # s => liability'[q][t] = liability[q][t]
           /\ UNCHANGED runs
<1>1. CASE MarkFiled(r, s)
  BY <1>1 DEF MarkFiled, TypeOK
<1>2. CASE MarkRemitted(r, s)
  BY <1>2 DEF MarkRemitted, TypeOK
<1> QED
  BY <1>1, <1>2

LEMMA LiabilitiesStep ==
    ASSUME TypeOK, LiabilitiesBelongToRuns, [Next]_vars
    PROVE  LiabilitiesBelongToRuns'
<1> USE DEF TypeOK, LiabilitiesBelongToRuns
<1>1. ASSUME NEW r \in Run, NEW emps, NEW end, NEW full, NEW deducted, NEW due,
             PayrollStep(r, emps, end, full, deducted, due)
      PROVE  LiabilitiesBelongToRuns'
  BY <1>1 DEF PayrollStep, ProcessPayslips
<1>2. ASSUME NEW r \in Run, NEW acknowledge, Reverse(r, acknowledge)
      PROVE  LiabilitiesBelongToRuns'
  BY <1>2 DEF Reverse, Withdrawn
<1>3. ASSUME NEW r \in Run, NEW s \in Scheme, MarkFiled(r, s) \/ MarkRemitted(r, s)
      PROVE  LiabilitiesBelongToRuns'
  <2>1. /\ liability[r][s] \in {"pending", "filed"}
        /\ liability'[r][s] \in {"filed", "remitted"}
        /\ \A q \in Run, t \in Scheme : q # r \/ t # s => liability'[q][t] = liability[q][t]
        /\ status' = status
    BY <1>3, HandlingLiability DEF runs
  <2> HIDE DEF TypeOK
  <2> QED
    BY <2>1
<1>4. ASSUME UNCHANGED liability,
             \A r \in Run : status[r] \in {"locked", "reversed"} => status'[r] = status[r]
      PROVE  LiabilitiesBelongToRuns'
  BY <1>4
<1>5. ASSUME NEW r \in Run,
             \/ \E wanted \in SUBSET Emp, end \in Days : CreateDraft(r, wanted, end)
             \/ \E override \in BOOLEAN : Validate(r, override)
             \/ MarkPaid(r) \/ Discard(r)
      PROVE  LiabilitiesBelongToRuns'
  <2>1. /\ UNCHANGED liability
        /\ \A q \in Run : status[q] \in {"locked", "reversed"} => status'[q] = status[q]
    BY <1>5 DEF CreateDraft, Validate, MarkPaid, Discard
  <2> QED
    BY <1>4, <2>1
<1>6. ASSUME \/ \E l \in Loan : RequestLoan(l) \/ CancelLoan(l)
             \/ \E c \in Claim : SubmitClaim(c) \/ \E approve \in BOOLEAN : DecideClaim(c, approve)
             \/ \E e \in Emp : UpdateTin(e)
             \/ \E post \in BOOLEAN, day \in LockDates : UpdateSettings(post, day)
             \/ UNCHANGED vars
      PROVE  LiabilitiesBelongToRuns'
  <2>1. UNCHANGED liability /\ status' = status
    BY <1>6 DEF RequestLoan, CancelLoan, SubmitClaim, DecideClaim, UpdateTin, UpdateSettings,
       vars, runs
  <2> QED
    BY <1>4, <2>1
<1>7. ASSUME NEW r \in Run, NEW deducted \in SUBSET Loan, NEW due \in SUBSET Scheme,
             \/ LockRun(r, deducted, due)
             \/ \E e \in Emp, end \in Days : FinalSettlement(r, e, end, deducted, due)
      PROVE  \E emps, end, full : PayrollStep(r, emps, end, full, deducted, due)
  BY <1>7 DEF LockRun, FinalSettlement, PayrollStep
<1> QED
  BY <1>1, <1>2, <1>3, <1>5, <1>6, <1>7 DEF Next

LEMMA PayslipsStep ==
    ASSUME TypeOK, PayslipsMatchPinned, [Next]_vars
    PROVE  PayslipsMatchPinned'
<1> USE DEF TypeOK, PayslipsMatchPinned, PaidIn
<1>1. ASSUME NEW r \in Run, NEW emps \in SUBSET Emp, NEW end, NEW full, NEW deducted, NEW due,
             PayrollStep(r, emps, end, full, deducted, due),
             pinned'[r] = emps, \A q \in Run \ {r} : pinned'[q] = pinned[q]
      PROVE  PayslipsMatchPinned'
  <2>1. payslips' = payslips \cup ({r} \X emps) /\ status[r] \notin {"locked", "reversed"}
    BY <1>1 DEF PayrollStep, ProcessPayslips
  <2>2. /\ status'[r] = "locked" /\ \A q \in Run \ {r} : status'[q] = status[q]
    BY <1>1 DEF PayrollStep
  <2>3. {e \in Emp : <<r, e>> \in payslips'} = emps
    BY <2>1
  <2>4. ASSUME NEW q \in Run \ {r}
        PROVE  {e \in Emp : <<q, e>> \in payslips'} = {e \in Emp : <<q, e>> \in payslips}
    BY <2>1
  <2> QED
    BY <1>1, <2>2, <2>3, <2>4
<1>2. ASSUME NEW r \in Run, NEW deducted \in SUBSET Loan, NEW due \in SUBSET Scheme,
             LockRun(r, deducted, due)
      PROVE  PayslipsMatchPinned'
  <2>1. /\ PayrollStep(r, pinned[r], period[r], FALSE, deducted, due)
        /\ pinned' = pinned
    BY <1>2 DEF LockRun, PayrollStep, EmployeesOf
  <2> QED
    BY <1>1, <2>1
<1>3. ASSUME NEW r \in Run, NEW e \in Emp, NEW end \in Days,
             NEW deducted \in SUBSET Loan, NEW due \in SUBSET Scheme,
             FinalSettlement(r, e, end, deducted, due)
      PROVE  PayslipsMatchPinned'
  <2>1. /\ PayrollStep(r, {e}, end, TRUE, deducted, due)
        /\ pinned' = [pinned EXCEPT ![r] = {e}]
    BY <1>3 DEF FinalSettlement, PayrollStep
  <2> QED
    BY <1>1, <2>1
<1>4. ASSUME NEW r \in Run, NEW acknowledge, Reverse(r, acknowledge)
      PROVE  PayslipsMatchPinned'
  BY <1>4 DEF Reverse
<1>5. ASSUME NEW r \in Run,
             \/ \E wanted \in SUBSET Emp, end \in Days : CreateDraft(r, wanted, end)
             \/ \E override \in BOOLEAN : Validate(r, override)
             \/ MarkPaid(r) \/ Discard(r)
      PROVE  PayslipsMatchPinned'
  BY <1>5 DEF CreateDraft, Validate, MarkPaid, Discard
<1>6. ASSUME \/ \E l \in Loan : RequestLoan(l) \/ CancelLoan(l)
             \/ \E c \in Claim : SubmitClaim(c) \/ \E approve \in BOOLEAN : DecideClaim(c, approve)
             \/ \E r \in Run, s \in Scheme : MarkFiled(r, s) \/ MarkRemitted(r, s)
             \/ \E e \in Emp : UpdateTin(e)
             \/ \E post \in BOOLEAN, day \in LockDates : UpdateSettings(post, day)
             \/ UNCHANGED vars
      PROVE  PayslipsMatchPinned'
  BY <1>6 DEF RequestLoan, CancelLoan, SubmitClaim, DecideClaim, MarkFiled, MarkRemitted,
     UpdateTin, UpdateSettings, vars, runs
<1> QED
  BY <1>2, <1>3, <1>4, <1>5, <1>6 DEF Next

LEMMA FlagsStep ==
    ASSUME TypeOK, FreshRunsUnflagged, FlagsReviewed, [Next]_vars
    PROVE  FreshRunsUnflagged' /\ FlagsReviewed'
<1> USE DEF TypeOK, FreshRunsUnflagged, FlagsReviewed
<1>1. ASSUME NEW r \in Run, NEW override \in BOOLEAN, Validate(r, override)
      PROVE  FreshRunsUnflagged' /\ FlagsReviewed'
  BY <1>1 DEF Validate, Blocks
<1>2. ASSUME NEW r \in Run,
             \/ \E wanted \in SUBSET Emp, end \in Days : CreateDraft(r, wanted, end)
             \/ MarkPaid(r) \/ Discard(r)
             \/ \E deducted \in SUBSET Loan, due \in SUBSET Scheme :
                   \/ LockRun(r, deducted, due)
                   \/ \E e \in Emp, end \in Days : FinalSettlement(r, e, end, deducted, due)
             \/ \E acknowledge \in BOOLEAN : Reverse(r, acknowledge)
      PROVE  FreshRunsUnflagged' /\ FlagsReviewed'
  BY <1>2 DEF CreateDraft, MarkPaid, Discard, LockRun, FinalSettlement, Reverse
<1>3. ASSUME \/ \E l \in Loan : RequestLoan(l) \/ CancelLoan(l)
             \/ \E c \in Claim : SubmitClaim(c) \/ \E approve \in BOOLEAN : DecideClaim(c, approve)
             \/ \E r \in Run, s \in Scheme : MarkFiled(r, s) \/ MarkRemitted(r, s)
             \/ \E e \in Emp : UpdateTin(e)
             \/ \E post \in BOOLEAN, day \in LockDates : UpdateSettings(post, day)
             \/ UNCHANGED vars
      PROVE  FreshRunsUnflagged' /\ FlagsReviewed'
  BY <1>3 DEF RequestLoan, CancelLoan, SubmitClaim, DecideClaim, MarkFiled, MarkRemitted,
     UpdateTin, UpdateSettings, vars, runs
<1> QED
  BY <1>1, <1>2, <1>3 DEF Next

LEMMA RunInvInit == Init => RunInv
<1> SUFFICES ASSUME Init PROVE RunInv
  OBVIOUS
<1>1. TypeOK
  BY LoanInvInit DEF LoanInv
<1>2. ClaimsPaidByLockedRuns
  BY DEF Init, ClaimsPaidByLockedRuns
<1>3. LiabilitiesBelongToRuns
  BY DEF Init, LiabilitiesBelongToRuns
<1>4. PayslipsMatchPinned
  BY DEF Init, PayslipsMatchPinned, PaidIn
<1>5. FreshRunsUnflagged /\ FlagsReviewed
  BY DEF Init, FreshRunsUnflagged, FlagsReviewed
<1> QED
  BY <1>1, <1>2, <1>3, <1>4, <1>5 DEF RunInv

LEMMA RunInvAlways == Spec => []RunInv
<1>1. LoanInv /\ RunInv /\ [Next]_vars => RunInv'
  BY TypeOKStep, ClaimsStep, LiabilitiesStep, PayslipsStep, FlagsStep DEF RunInv
<1> QED
  BY RunInvInit, LoanInvAlways, <1>1, PTL DEF Spec

(* Overtime and encashments are paid by one locked run each, and a run     *)
(* that is reversed gives back every one of them.                          *)
THEOREM ClaimsPaidOnce == Spec => []ClaimsPaidByLockedRuns
<1>1. RunInv => ClaimsPaidByLockedRuns
  BY DEF RunInv
<1> QED
  BY RunInvAlways, <1>1, PTL

(* A statutory liability waiting to be filed has a locked run behind it;   *)
(* only one that was acted on outlives a reversal.                         *)
THEOREM LiabilitiesHaveRuns == Spec => []LiabilitiesBelongToRuns
<1>1. RunInv => LiabilitiesBelongToRuns
  BY DEF RunInv
<1> QED
  BY RunInvAlways, <1>1, PTL

(* A locked run pays exactly the employees its draft pinned.               *)
THEOREM PinnedArePaid == Spec => []PayslipsMatchPinned
<1>1. RunInv => PayslipsMatchPinned
  BY DEF RunInv
<1> QED
  BY RunInvAlways, <1>1, PTL

(* No run gets past validation with a variance flag nobody acknowledged.   *)
THEOREM FlagsAreReviewed == Spec => []FlagsReviewed
<1>1. RunInv => FlagsReviewed
  BY DEF RunInv
<1> QED
  BY RunInvAlways, <1>1, PTL

(* What was filed or remitted stays so, through every reversal.            *)
THEOREM ActedOnNeverUndone == Spec => ActedOnStands
<1>1. RunInv /\ [Next]_vars =>
        [\A r \in Run, s \in Scheme :
            /\ liability[r][s] = "filed" => liability'[r][s] \in {"filed", "remitted"}
            /\ liability[r][s] = "remitted" => liability'[r][s] = "remitted"]_vars
  <2> SUFFICES ASSUME RunInv, Next, NEW r \in Run, NEW s \in Scheme
               PROVE  /\ liability[r][s] = "filed" => liability'[r][s] \in {"filed", "remitted"}
                      /\ liability[r][s] = "remitted" => liability'[r][s] = "remitted"
    OBVIOUS
  <2>0. TypeOK
    BY DEF RunInv
  <2>1. ASSUME NEW q \in Run, NEW deducted \in SUBSET Loan, NEW due \in SUBSET Scheme,
               \/ LockRun(q, deducted, due)
               \/ \E e \in Emp, end \in Days : FinalSettlement(q, e, end, deducted, due)
        PROVE  liability[r][s] \notin {"filed", "remitted"} \/ liability'[r] = liability[r]
    <3>1. /\ status[q] \notin {"locked", "reversed"}
          /\ liability' = [liability EXCEPT ![q] =
                              [t \in Scheme |-> IF t \in due THEN "pending" ELSE liability[q][t]]]
      BY <2>1 DEF LockRun, FinalSettlement, ProcessPayslips
    <3>2. CASE r = q
      BY <3>1, <3>2 DEF RunInv, LiabilitiesBelongToRuns
    <3>3. CASE r # q
      BY <2>0, <3>1, <3>3 DEF TypeOK
    <3> QED
      BY <3>2, <3>3
  <2>2. ASSUME NEW q \in Run, NEW acknowledge \in BOOLEAN, Reverse(q, acknowledge)
        PROVE  liability[r][s] = "pending" \/ liability'[r][s] = liability[r][s]
    BY <2>0, <2>2 DEF Reverse, Withdrawn, TypeOK
  <2>3. ASSUME NEW q \in Run, NEW t \in Scheme, MarkFiled(q, t) \/ MarkRemitted(q, t)
        PROVE  \/ liability'[r][s] = liability[r][s] \/ liability[r][s] = "pending"
               \/ liability[r][s] = "filed" /\ liability'[r][s] = "remitted"
    BY <2>0, <2>3, HandlingLiability
  <2>4. ASSUME \/ \E l \in Loan : RequestLoan(l) \/ CancelLoan(l)
               \/ \E c \in Claim : SubmitClaim(c) \/ \E approve \in BOOLEAN : DecideClaim(c, approve)
               \/ \E q \in Run, wanted \in SUBSET Emp, end \in Days : CreateDraft(q, wanted, end)
               \/ \E q \in Run, override \in BOOLEAN : Validate(q, override)
               \/ \E q \in Run : MarkPaid(q) \/ Discard(q)
               \/ \E e \in Emp : UpdateTin(e)
               \/ \E post \in BOOLEAN, day \in LockDates : UpdateSettings(post, day)
        PROVE  liability' = liability
    BY <2>4 DEF RequestLoan, CancelLoan, SubmitClaim, DecideClaim, CreateDraft, Validate,
       MarkPaid, Discard, UpdateTin, UpdateSettings
  <2> QED
    BY <2>1, <2>2, <2>3, <2>4 DEF Next
<1> QED
  BY RunInvAlways, <1>1, PTL DEF Spec, ActedOnStands
-----------------------------------------------------------------------------
(* The ledger.  A remittance journal hangs on its run only through the     *)
(* liability, so the ledger is inductive only together with those.         *)

LedgerInv == TypeOK /\ LiabilitiesBelongToRuns /\ LedgerMatchesRuns

(* What a payroll posts names its own run, and is no remittance. *)
LEMMA PayrollPosts ==
    ASSUME NEW r \in Run, NEW emps, NEW end, NEW full, NEW deducted, NEW due,
           PayrollStep(r, emps, end, full, deducted, due)
    PROVE  /\ journals \subseteq journals'
           /\ \A j \in journals' \ journals : j[2] = r /\ j[1] # "statutory_remittance"
           /\ \A q, e : <<"payroll", q, e>> \in journals' <=>
                          <<"payroll", q, e>> \in journals \/ (q = r /\ e \in emps)
           /\ \A q, s : RemittanceJournal(q, s) \in journals' <=> RemittanceJournal(q, s) \in journals
           /\ UNCHANGED reversed
<1> DEFINE new == PayslipJournals(r, emps)
                    \cup (IF due \cap Accrued # {} THEN {AccrualJournal(r)} ELSE {})
<1>1. journals' = journals \cup new /\ reversed' = reversed
  BY DEF PayrollStep, ProcessPayslips
<1>2. \A j \in new : j[2] = r /\ j[1] \in {"payroll", "statutory_accrual"}
  BY DEF PayslipJournals, AccrualJournal
<1>3. \A q, e : <<"payroll", q, e>> \in new <=> q = r /\ e \in emps
  BY DEF PayslipJournals, AccrualJournal
<1>4. \A q, s : RemittanceJournal(q, s) \notin new
  BY DEF PayslipJournals, AccrualJournal, RemittanceJournal
<1> HIDE DEF new
<1> QED
  BY <1>1, <1>2, <1>3, <1>4

LEMMA LedgerAfterPayroll ==
    ASSUME LedgerInv,
           NEW r \in Run, NEW emps, NEW end, NEW full, NEW deducted, NEW due,
           PayrollStep(r, emps, end, full, deducted, due)
    PROVE  LedgerMatchesRuns'
<1>1. /\ status[r] \notin {"locked", "reversed"} /\ status'[r] = "locked"
      /\ \A q \in Run \ {r} : status'[q] = status[q] /\ liability'[q] = liability[q]
      /\ payslips' = payslips \cup ({r} \X emps)
  BY DEF LedgerInv, TypeOK, PayrollStep, ProcessPayslips
<1>2. /\ journals \subseteq journals'
      /\ \A j \in journals' \ journals : j[2] = r /\ j[1] # "statutory_remittance"
      /\ \A q, e : <<"payroll", q, e>> \in journals' <=>
                     <<"payroll", q, e>> \in journals \/ (q = r /\ e \in emps)
      /\ \A q, s : RemittanceJournal(q, s) \in journals' <=> RemittanceJournal(q, s) \in journals
      /\ UNCHANGED reversed
  BY PayrollPosts
<1>3. \A j \in reversed : j[2] \in Run
  BY DEF LedgerInv, TypeOK, JournalId
<1>4. \A q \in Run \ {r} : Tagged(q)' = Tagged(q)
  BY <1>2 DEF Tagged
<1>5. \A j \in reversed' : j \in journals' /\ status'[j[2]] = "reversed"
  BY <1>1, <1>2, <1>3 DEF LedgerInv, LedgerMatchesRuns
<1>6. ASSUME NEW q \in Run
      PROVE  /\ status'[q] = "reversed" => Tagged(q)' \subseteq reversed'
             /\ status'[q] \notin {"locked", "reversed"} => Tagged(q)' = {}
  BY <1>1, <1>2, <1>4 DEF LedgerInv, LedgerMatchesRuns
<1>7. ASSUME NEW q \in Run, NEW e \in Emp
      PROVE  <<q, e>> \in payslips' <=> <<"payroll", q, e>> \in journals'
  <2>1. <<q, e>> \in payslips' <=> <<q, e>> \in payslips \/ (q = r /\ e \in emps)
    BY <1>1
  <2>2. <<q, e>> \in payslips <=> <<"payroll", q, e>> \in journals
    BY DEF LedgerInv, LedgerMatchesRuns
  <2> QED
    BY <1>2, <2>1, <2>2
<1>8. ASSUME NEW q \in Run, NEW s \in Scheme, RemittanceJournal(q, s) \in journals'
      PROVE  liability'[q][s] = "remitted" /\ RemittanceJournal(q, s) \notin reversed'
  <2>1. /\ liability[q][s] = "remitted"
        /\ RemittanceJournal(q, s) \notin reversed
        /\ q # r
    BY <1>1, <1>2, <1>8 DEF LedgerInv, LedgerMatchesRuns, LiabilitiesBelongToRuns
  <2> QED
    BY <1>1, <1>2, <2>1
<1> QED
  BY <1>5, <1>6, <1>7, <1>8 DEF LedgerMatchesRuns

LEMMA LedgerAfterReversal ==
    ASSUME LedgerInv, NEW r \in Run, NEW acknowledge, Reverse(r, acknowledge)
    PROVE  LedgerMatchesRuns'
<1>1. /\ status[r] = "locked" /\ status'[r] = "reversed"
      /\ \A q \in Run \ {r} : status'[q] = status[q]
      /\ journals' = journals /\ payslips' = payslips
      /\ reversed' = reversed \cup Tagged(r)
  BY DEF LedgerInv, TypeOK, Reverse
<1>2. \A q \in Run, s \in Scheme : liability[q][s] = "remitted" => liability'[q][s] = "remitted"
  BY DEF LedgerInv, TypeOK, Reverse, Withdrawn
<1>3. \A j \in Tagged(r) : j \in journals /\ j[2] = r /\ j[1] # "statutory_remittance"
  BY DEF Tagged
<1>4. \A q \in Run : Tagged(q)' = Tagged(q)
  BY <1>1 DEF Tagged
<1>5. \A j \in reversed : j[2] \in Run
  BY DEF LedgerInv, TypeOK, JournalId
<1>6. \A j \in reversed' : j \in journals' /\ status'[j[2]] = "reversed"
  BY <1>1, <1>3, <1>5 DEF LedgerInv, LedgerMatchesRuns
<1>7. ASSUME NEW q \in Run
      PROVE  /\ status'[q] = "reversed" => Tagged(q)' \subseteq reversed'
             /\ status'[q] \notin {"locked", "reversed"} => Tagged(q)' = {}
  BY <1>1, <1>4 DEF LedgerInv, LedgerMatchesRuns
<1>8. ASSUME NEW q \in Run, NEW s \in Scheme, RemittanceJournal(q, s) \in journals'
      PROVE  liability'[q][s] = "remitted" /\ RemittanceJournal(q, s) \notin reversed'
  <2>1. liability[q][s] = "remitted" /\ RemittanceJournal(q, s) \notin reversed
    BY <1>1, <1>8 DEF LedgerInv, LedgerMatchesRuns
  <2>2. RemittanceJournal(q, s) \notin Tagged(r)
    BY <1>3 DEF RemittanceJournal
  <2> QED
    BY <1>1, <1>2, <2>1, <2>2
<1> QED
  BY <1>1, <1>6, <1>7, <1>8 DEF LedgerInv, LedgerMatchesRuns

LEMMA LedgerAfterRemittance ==
    ASSUME LedgerInv, NEW r \in Run, NEW s \in Scheme, MarkFiled(r, s) \/ MarkRemitted(r, s)
    PROVE  LedgerMatchesRuns'
<1>1. /\ liability[r][s] = "pending" \/ (liability[r][s] = "filed" /\ liability'[r][s] = "remitted")
      /\ liability'[r][s] \in {"filed", "remitted"}
      /\ \A q \in Run, t \in Scheme : q # r \/ t # s => liability'[q][t] = liability[q][t]
      /\ UNCHANGED runs
  BY HandlingLiability DEF LedgerInv
<1>2. /\ journals' \subseteq journals \cup {RemittanceJournal(r, s)}
      /\ journals \subseteq journals'
      /\ RemittanceJournal(r, s) \in journals' \ journals => liability'[r][s] = "remitted"
      /\ reversed' = reversed /\ payslips' = payslips
  <2>1. CASE MarkFiled(r, s)
    BY <2>1 DEF MarkFiled, ledger
  <2>2. CASE MarkRemitted(r, s)
    <3>1. liability'[r][s] = "remitted"
      BY <2>2 DEF MarkRemitted, LedgerInv, TypeOK
    <3> QED
      BY <2>2, <3>1 DEF MarkRemitted
  <2> QED
    BY <2>1, <2>2
<1>3. status' = status
  BY <1>1 DEF runs
<1>4. \A q \in Run : Tagged(q)' = Tagged(q)
  BY <1>2 DEF Tagged, RemittanceJournal
<1>5. \A q \in Run, e \in Emp : <<"payroll", q, e>> \in journals' <=> <<"payroll", q, e>> \in journals
  BY <1>2 DEF RemittanceJournal
<1>6. ASSUME NEW q \in Run, NEW t \in Scheme, RemittanceJournal(q, t) \in journals'
      PROVE  liability'[q][t] = "remitted" /\ RemittanceJournal(q, t) \notin reversed'
  <2>1. CASE RemittanceJournal(q, t) \in journals
    <3>1. liability[q][t] = "remitted" /\ RemittanceJournal(q, t) \notin reversed
      BY <2>1 DEF LedgerInv, LedgerMatchesRuns
    <3>2. ~(q = r /\ t = s)
      BY <1>1, <3>1
    <3> QED
      BY <1>1, <1>2, <3>1, <3>2
  <2>2. CASE RemittanceJournal(q, t) \notin journals
    <3>1. q = r /\ t = s
      BY <1>2, <1>6, <2>2 DEF RemittanceJournal
    <3>2. RemittanceJournal(q, t) \notin reversed
      BY <2>2 DEF LedgerInv, LedgerMatchesRuns
    <3> QED
      BY <1>2, <1>6, <2>2, <3>1, <3>2
  <2> QED
    BY <2>1, <2>2
<1> QED
  BY <1>2, <1>3, <1>4, <1>5, <1>6 DEF LedgerInv, LedgerMatchesRuns

LEMMA LedgerStep ==
    ASSUME LedgerInv, [Next]_vars
    PROVE  LedgerMatchesRuns'
<1>0. TypeOK
  BY DEF LedgerInv
<1>1. ASSUME NEW r \in Run, NEW deducted \in SUBSET Loan, NEW due \in SUBSET Scheme,
             LockRun(r, deducted, due)
      PROVE  LedgerMatchesRuns'
  <2>1. PayrollStep(r, EmployeesOf(r), period[r], FALSE, deducted, due)
    BY <1>1 DEF LockRun, PayrollStep
  <2> QED
    BY <2>1, LedgerAfterPayroll
<1>2. ASSUME NEW r \in Run, NEW e \in Emp, NEW end \in Days,
             NEW deducted \in SUBSET Loan, NEW due \in SUBSET Scheme,
             FinalSettlement(r, e, end, deducted, due)
      PROVE  LedgerMatchesRuns'
  <2>1. PayrollStep(r, {e}, end, TRUE, deducted, due)
    BY <1>2 DEF FinalSettlement, PayrollStep
  <2> QED
    BY <2>1, LedgerAfterPayroll
<1>3. ASSUME UNCHANGED <<ledger, liability, payslips>>,
             \A r \in Run : status[r] \in {"locked", "reversed"} \/ status'[r] \in {"locked", "reversed"}
                               => status'[r] = status[r]
      PROVE  LedgerMatchesRuns'
  <2>1. journals' = journals /\ reversed' = reversed /\ liability' = liability /\ payslips' = payslips
    BY <1>3 DEF ledger
  <2>2. \A r \in Run : Tagged(r)' = Tagged(r)
    BY <2>1 DEF Tagged
  <2>3. \A j \in reversed : j[2] \in Run
    BY <1>0 DEF TypeOK, JournalId
  <2> QED
    BY <1>3, <2>1, <2>2, <2>3 DEF LedgerInv, LedgerMatchesRuns
<1>4. ASSUME NEW r \in Run,
             \/ \E wanted \in SUBSET Emp, end \in Days : CreateDraft(r, wanted, end)
             \/ \E override \in BOOLEAN : Validate(r, override)
             \/ MarkPaid(r) \/ Discard(r)
      PROVE  LedgerMatchesRuns'
  <2>1. /\ UNCHANGED <<ledger, liability, payslips>>
        /\ \A q \in Run : status[q] \in {"locked", "reversed"} \/ status'[q] \in {"locked", "reversed"}
                           => status'[q] = status[q]
    BY <1>0, <1>4 DEF TypeOK, CreateDraft, Validate, MarkPaid, Discard
  <2> QED
    BY <1>3, <2>1
<1>5. ASSUME \/ \E l \in Loan : RequestLoan(l) \/ CancelLoan(l)
             \/ \E c \in Claim : SubmitClaim(c) \/ \E approve \in BOOLEAN : DecideClaim(c, approve)
             \/ \E e \in Emp : UpdateTin(e)
             \/ \E post \in BOOLEAN, day \in LockDates : UpdateSettings(post, day)
             \/ UNCHANGED vars
      PROVE  LedgerMatchesRuns'
  <2>1. UNCHANGED <<ledger, liability, payslips>> /\ status' = status
    BY <1>5 DEF RequestLoan, CancelLoan, SubmitClaim, DecideClaim, UpdateTin, UpdateSettings,
       vars, runs
  <2> QED
    BY <1>3, <2>1
<1> QED
  BY <1>1, <1>2, <1>4, <1>5, LedgerAfterReversal, LedgerAfterRemittance DEF Next

(* The ledger holds exactly what the runs say: each payslip of a locked or *)
(* reversed run is posted, its reversal exactly once the run is reversed,  *)
(* and no remittance is ever mirrored back.                                *)
THEOREM LedgerFollowsRuns == Spec => []LedgerMatchesRuns
<1>1. Init => LedgerMatchesRuns
  BY DEF Init, LedgerMatchesRuns, Tagged
<1>2. RunInv /\ LedgerMatchesRuns /\ [Next]_vars => LedgerMatchesRuns'
  BY LedgerStep DEF RunInv, LedgerInv
<1> QED
  BY RunInvAlways, <1>1, <1>2, PTL DEF Spec
-----------------------------------------------------------------------------
(* Closed periods.  A journal keeps its date because a run that has one    *)
(* keeps its period, which is what the ledger's invariant is for.          *)

(* The books of a day stand if no journal changes its date, none is added  *)
(* on that day, and no reversal is made on it.                             *)
LEMMA DayStands ==
    ASSUME NEW day,
           journals \subseteq journals',
           \A j \in journals : EntryDate(j)' = EntryDate(j),
           \A j \in journals' \ journals : EntryDate(j)' # day,
           day = Today => reversed' = reversed
    PROVE  EntriesOn(day)' = EntriesOn(day)
<1>1. {j \in journals : EntryDate(j) = day}' = {j \in journals : EntryDate(j) = day}
  OBVIOUS
<1>2. CASE day = Today  BY <1>1, <1>2 DEF EntriesOn
<1>3. CASE day # Today  BY <1>1, <1>3 DEF EntriesOn
<1> QED  BY <1>2, <1>3

(* A run without journals may take a new period. *)
LEMMA DatesKept ==
    ASSUME NEW r, Tagged(r) = {}, \A q \in Run \ {r} : period'[q] = period[q], TypeOK
    PROVE  \A j \in journals : EntryDate(j)' = EntryDate(j)
BY DEF EntryDate, Tagged, TypeOK, JournalId

LEMMA SealedAfterPayroll ==
    ASSUME LedgerInv,
           NEW r \in Run, NEW emps, NEW end \in Nat, NEW full, NEW deducted, NEW due,
           PayrollStep(r, emps, end, full, deducted, due),
           period'[r] = end, \A q \in Run \ {r} : period'[q] = period[q],
           NEW day \in Nat, day <= lockDate
    PROVE  EntriesOn(day)' = EntriesOn(day)
<1>1. status[r] \notin {"locked", "reversed"} /\ end > lockDate
  BY DEF PayrollStep, ProcessPayslips, OpenPeriod
<1>2. \A j \in journals : EntryDate(j)' = EntryDate(j)
  BY <1>1, DatesKept DEF LedgerInv, LedgerMatchesRuns
<1>3. \A j \in journals' \ journals : EntryDate(j)' = end
  BY PayrollPosts DEF EntryDate
<1>4. lockDate \in Nat  BY DEF LedgerInv, TypeOK
<1>5. \A j \in journals' \ journals : EntryDate(j)' # day  BY <1>1, <1>3, <1>4
<1>6. journals \subseteq journals' /\ reversed' = reversed  BY PayrollPosts
<1> QED  BY <1>2, <1>5, <1>6, DayStands

LEMMA SealedStep ==
    ASSUME LedgerInv, Next, NEW day \in Days \cup {Today}, day <= lockDate
    PROVE  EntriesOn(day)' = EntriesOn(day)
<1>0. /\ TypeOK /\ lockDate \in Nat /\ Today \in Nat /\ day \in Nat /\ Days \subseteq Nat
      /\ \A r \in Run : status[r] \notin {"locked", "reversed"} => Tagged(r) = {}
  BY DateAssumption DEF LedgerInv, TypeOK, LedgerMatchesRuns
<1>1. ASSUME NEW r \in Run, NEW deducted \in SUBSET Loan, NEW due \in SUBSET Scheme,
             LockRun(r, deducted, due)
      PROVE  EntriesOn(day)' = EntriesOn(day)
  <2>1. PayrollStep(r, EmployeesOf(r), period[r], FALSE, deducted, due) /\ period' = period
    BY <1>1 DEF LockRun, PayrollStep
  <2>2. period[r] \in Nat  BY <1>0 DEF TypeOK
  <2> QED  BY <1>0, <2>1, <2>2, SealedAfterPayroll
<1>2. ASSUME NEW r \in Run, NEW e \in Emp, NEW end \in Days,
             NEW deducted \in SUBSET Loan, NEW due \in SUBSET Scheme,
             FinalSettlement(r, e, end, deducted, due)
      PROVE  EntriesOn(day)' = EntriesOn(day)
  <2>1. PayrollStep(r, {e}, end, TRUE, deducted, due)
    BY <1>2 DEF FinalSettlement, PayrollStep
  <2>2. end \in Nat /\ period'[r] = end /\ \A q \in Run \ {r} : period'[q] = period[q]
    BY <1>0, <1>2 DEF FinalSettlement, TypeOK
  <2> QED  BY <1>0, <2>1, <2>2, SealedAfterPayroll
<1>3. ASSUME NEW r \in Run, NEW wanted \in SUBSET Emp, NEW end \in Days,
             CreateDraft(r, wanted, end)
      PROVE  EntriesOn(day)' = EntriesOn(day)
  <2>1. /\ status[r] = "none" /\ journals' = journals /\ reversed' = reversed
        /\ \A q \in Run \ {r} : period'[q] = period[q]
    BY <1>0, <1>3 DEF CreateDraft, TypeOK, ledger
  <2>2. \A j \in journals : EntryDate(j)' = EntryDate(j)  BY <1>0, <2>1, DatesKept
  <2> QED  BY <2>1, <2>2, DayStands
<1>4. ASSUME NEW r \in Run, NEW acknowledge \in BOOLEAN, Reverse(r, acknowledge)
      PROVE  EntriesOn(day)' = EntriesOn(day)
  <2>1. /\ journals' = journals /\ period' = period
        /\ Tagged(r) # {} => Today > lockDate
        /\ reversed' = reversed \cup Tagged(r)
    BY <1>4 DEF Reverse, OpenPeriod
  <2>2. day = Today => reversed' = reversed  BY <1>0, <2>1
  <2>3. \A j \in journals : EntryDate(j)' = EntryDate(j)  BY <2>1 DEF EntryDate
  <2> QED  BY <2>1, <2>2, <2>3, DayStands
<1>5. ASSUME NEW r \in Run, NEW s \in Scheme, MarkRemitted(r, s)
      PROVE  EntriesOn(day)' = EntriesOn(day)
  <2>1. /\ period' = period /\ reversed' = reversed /\ journals \subseteq journals'
        /\ \A j \in journals' \ journals : Today > lockDate /\ j = RemittanceJournal(r, s)
    BY <1>5 DEF MarkRemitted, OpenPeriod, runs
  <2>2. \A j \in journals : EntryDate(j)' = EntryDate(j)  BY <2>1 DEF EntryDate
  <2>3. \A j \in journals' \ journals : EntryDate(j)' # day
    BY <1>0, <2>1 DEF EntryDate, RemittanceJournal
  <2> QED  BY <2>1, <2>2, <2>3, DayStands
<1>6. ASSUME UNCHANGED <<journals, reversed, period>>
      PROVE  EntriesOn(day)' = EntriesOn(day)
  <2>1. \A j \in journals : EntryDate(j)' = EntryDate(j)  BY <1>6 DEF EntryDate
  <2> QED  BY <1>6, <2>1, DayStands
<1>7. ASSUME \/ \E r \in Run, override \in BOOLEAN : Validate(r, override)
             \/ \E r \in Run : MarkPaid(r) \/ Discard(r)
             \/ \E r \in Run, s \in Scheme : MarkFiled(r, s)
             \/ \E l \in Loan : RequestLoan(l) \/ CancelLoan(l)
             \/ \E c \in Claim : SubmitClaim(c) \/ \E approve \in BOOLEAN : DecideClaim(c, approve)
             \/ \E e \in Emp : UpdateTin(e)
             \/ \E post \in BOOLEAN, d \in LockDates : UpdateSettings(post, d)
      PROVE  UNCHANGED <<journals, reversed, period>>
  BY <1>7 DEF Validate, MarkPaid, Discard, MarkFiled, RequestLoan, CancelLoan, SubmitClaim,
     DecideClaim, UpdateTin, UpdateSettings, runs, ledger
<1> QED
  BY <1>1, <1>2, <1>3, <1>4, <1>5, <1>6, <1>7 DEF Next

(* On or before the lock date the books do not change, whatever is locked, *)
(* settled, reversed or remitted and however the lock date moves.          *)
THEOREM SealedPeriodsKept == Spec => SealedPeriodsStand
<1>1. LedgerInv /\ [Next]_vars =>
        [\A day \in Days \cup {Today} : day <= lockDate => EntriesOn(day)' = EntriesOn(day)]_vars
  BY SealedStep
<1> QED
  BY RunInvAlways, LedgerFollowsRuns, <1>1, PTL DEF Spec, SealedPeriodsStand, RunInv, LedgerInv
-----------------------------------------------------------------------------
(* The refinement of LoanAccounts.  A payroll is a Collect from the loans  *)
(* it takes something from, a reversal a Restore of those it gives back.   *)

LEMMA BalancesMove ==
    ASSUME LoanInv, NEW l \in Loan
    PROVE  /\ Outstanding(l) \in 0..Repayable[l]
           /\ loan[l] \in LoanStatus
<1>1. Outstanding(l) \in Int /\ Outstanding(l) <= Repayable[l] /\ Outstanding(l) >= 0
  BY OutstandingCounts DEF LoanInv, LoanStatusMatchesBalance
<1>2. Repayable[l] \in Nat
  BY AmountAssumption
<1> QED
  BY <1>1, <1>2 DEF LoanInv, TypeOK

LEMMA NextBalances ==
    ASSUME LoanInv', NEW l \in Loan
    PROVE  Outstanding(l)' \in 0..Repayable[l]
<1>1. Outstanding(l)' = Repayable[l] - Cardinality(Units(status', repaid'[l], Repayable[l]))
  BY OutstandingCounts
<1>2. Repayable[l] \in Nat
  BY AmountAssumption
<1>3. Cardinality(Units(status', repaid'[l], Repayable[l])) \in Nat
  <2>1. PICK st, row : st = status' /\ row = repaid'[l]
    OBVIOUS
  <2> QED
    BY <1>2, <2>1, UnitsFinite
<1>4. Outstanding(l)' >= 0
  BY DEF LoanInv, LoanStatusMatchesBalance
<1> QED
  BY <1>1, <1>2, <1>3, <1>4

LEMMA PayrollLowersBalances ==
    ASSUME LoanInv,
           NEW r \in Run, NEW emps, NEW end, NEW full \in BOOLEAN, NEW deducted, NEW due,
           PayrollStep(r, emps, end, full, deducted, due),
           NEW l \in Loan
    PROVE  /\ Outstanding(l)' <= Outstanding(l)
           /\ Outstanding(l)' < Outstanding(l) => loan[l] = "active"
           /\ loan'[l] = IF Outstanding(l)' < Outstanding(l) /\ Outstanding(l)' <= 0
                         THEN "paid_off" ELSE loan[l]
<1>1. Outstanding(l) \in 0..Repayable[l] /\ Repayable[l] \in Int
  BY BalancesMove, AmountAssumption
<1>2. CASE l \in deducted
  <2>1. /\ loan[l] = "active"
        /\ Deduction(l, full) \in 0..Outstanding(l)
        /\ Outstanding(l)' = Outstanding(l) - Deduction(l, full)
        /\ loan'[l] = IF Deduction(l, full) > 0 /\ Outstanding(l)' <= 0
                      THEN "paid_off" ELSE loan[l]
    BY <1>2, PayrollCollects
  <2> QED
    BY <1>1, <2>1
<1>3. CASE l \notin deducted
  <2>1. Outstanding(l)' = Outstanding(l)
    BY <1>1, <1>3, PayrollCollects
  <2>2. loan'[l] = loan[l]
    BY <1>3, PayrollCollects
  <2> QED
    BY <1>1, <2>1, <2>2
<1> QED
  BY <1>2, <1>3

LEMMA PayrollIsCollect ==
    ASSUME LoanInv, LoanInv',
           NEW r \in Run, NEW emps, NEW end, NEW full \in BOOLEAN, NEW deducted, NEW due,
           PayrollStep(r, emps, end, full, deducted, due)
    PROVE  \E S \in SUBSET Loan : Accounts!Collect(S)
<1>1. ASSUME NEW l \in Loan
      PROVE  /\ Outstanding(l)' \in Accounts!Owed
             /\ Outstanding(l)' < Outstanding(l) \/ Outstanding(l)' = Outstanding(l)
             /\ Outstanding(l)' < Outstanding(l) => loan[l] = "active"
             /\ loan'[l] = IF Outstanding(l)' < Outstanding(l) /\ Outstanding(l)' = 0
                           THEN "paid_off" ELSE loan[l]
  <2>1. /\ Outstanding(l) \in 0..Repayable[l] /\ Repayable[l] \in Int
        /\ Outstanding(l)' \in 0..Repayable[l]
    BY BalancesMove, NextBalances, AmountAssumption
  <2>2. /\ Outstanding(l)' <= Outstanding(l)
        /\ Outstanding(l)' < Outstanding(l) => loan[l] = "active"
        /\ loan'[l] = IF Outstanding(l)' < Outstanding(l) /\ Outstanding(l)' <= 0
                      THEN "paid_off" ELSE loan[l]
    BY PayrollLowersBalances
  <2>3. Outstanding(l)' \in Accounts!Owed
    BY <2>1 DEF Accounts!Owed
  <2> QED
    BY <2>1, <2>2, <2>3
<1> DEFINE S == {l \in Loan : Outstanding(l)' < Outstanding(l)}
<1>2. loan' = [l \in Loan |-> loan'[l]]
  BY DEF LoanInv, TypeOK
<1>3. S \in SUBSET Loan
  OBVIOUS
<1>4. ASSUME NEW l \in Loan PROVE l \in S <=> Outstanding(l)' < Outstanding(l)
  OBVIOUS
<1>5. ASSUME NEW l \in Loan
      PROVE  /\ l \in S => loan[l] = "active"
             /\ l \notin S => Outstanding(l)' = Outstanding(l)
             /\ loan'[l] = IF l \in S /\ Outstanding(l)' = 0 THEN "paid_off" ELSE loan[l]
  BY <1>1, <1>4
<1> HIDE DEF S
<1>6. Accounts!Collect(S)
  BY <1>1, <1>2, <1>3, <1>4, <1>5 DEF Accounts!Collect, Accounts!Settled
<1> QED
  BY <1>3, <1>6

LEMMA ReversalIsRestore ==
    ASSUME LoanInv, LoanInv', NEW r \in Run, NEW acknowledge, Reverse(r, acknowledge)
    PROVE  \E S \in SUBSET Loan : Accounts!Restore(S)
<1> DEFINE S == {l \in Loan : repaid[l][r] > 0}
<1>1. ASSUME NEW l \in Loan
      PROVE  /\ Outstanding(l)' \in Accounts!Owed /\ Outstanding(l)' <= Repayable[l]
             /\ l \in S => loan[l] # "none" /\ Outstanding(l) < Outstanding(l)'
             /\ l \notin S => Outstanding(l)' = Outstanding(l)
             /\ loan'[l] = IF l \in S /\ loan[l] = "paid_off" THEN "active" ELSE loan[l]
  <2>1. /\ Outstanding(l) \in Int /\ Repayable[l] \in Int /\ Outstanding(l)' \in 0..Repayable[l]
        /\ repaid[l][r] \in Nat
    BY BalancesMove, NextBalances, AmountAssumption DEF LoanInv, TypeOK
  <2>2. /\ Outstanding(l)' = Outstanding(l) + repaid[l][r]
        /\ loan'[l] = IF repaid[l][r] > 0 /\ loan[l] = "paid_off" THEN "active" ELSE loan[l]
    BY ReversalRestores
  <2>3. loan[l] = "none" => repaid[l][r] = 0
    BY DEF LoanInv, UngrantedLoansUnpaid
  <2>4. Outstanding(l)' \in Accounts!Owed
    BY <2>1 DEF Accounts!Owed
  <2> QED
    BY <2>1, <2>2, <2>3, <2>4
<1>2. loan' = [l \in Loan |-> loan'[l]]
  BY DEF LoanInv, TypeOK
<1>3. S \in SUBSET Loan
  OBVIOUS
<1> HIDE DEF S
<1>4. Accounts!Restore(S)
  BY <1>1, <1>2, <1>3 DEF Accounts!Restore, Accounts!Reopened
<1> QED
  BY <1>3, <1>4

LEMMA StepsImplement ==
    ASSUME LoanInv, LoanInv', [Next]_vars
    PROVE  [Accounts!Next]_(Accounts!vars)
<1>1. ASSUME NEW r \in Run, NEW deducted \in SUBSET Loan, NEW due \in SUBSET Scheme,
             LockRun(r, deducted, due)
      PROVE  Accounts!Next
  <2>1. PayrollStep(r, EmployeesOf(r), period[r], FALSE, deducted, due)
    BY <1>1 DEF LockRun, PayrollStep
  <2> QED
    BY <2>1, PayrollIsCollect DEF Accounts!Next
<1>2. ASSUME NEW r \in Run, NEW e \in Emp, NEW end \in Days,
             NEW deducted \in SUBSET Loan, NEW due \in SUBSET Scheme,
             FinalSettlement(r, e, end, deducted, due)
      PROVE  Accounts!Next
  <2>1. PayrollStep(r, {e}, end, TRUE, deducted, due)
    BY <1>2 DEF FinalSettlement, PayrollStep
  <2> QED
    BY <2>1, PayrollIsCollect DEF Accounts!Next
<1>3. ASSUME NEW r \in Run, NEW acknowledge \in BOOLEAN, Reverse(r, acknowledge)
      PROVE  Accounts!Next
  BY <1>3, ReversalIsRestore DEF Accounts!Next
<1>4. ASSUME UNCHANGED repaid,
             NEW r \in Run, NEW s \in RunStatus \ {"reversed"},
             status' = status \/ (status[r] # "reversed" /\ status' = [status EXCEPT ![r] = s])
      PROVE  [l \in Loan |-> Outstanding(l)'] = [l \in Loan |-> Outstanding(l)]
  BY <1>4, OthersKeepBalances
<1>5. ASSUME NEW l \in Loan, RequestLoan(l) \/ CancelLoan(l)
      PROVE  Accounts!Next
  <2>1. [m \in Loan |-> Outstanding(m)'] = [m \in Loan |-> Outstanding(m)]
    BY <1>5 DEF RequestLoan, CancelLoan, runs, Outstanding, UnitsRepaid
  <2>2. CASE RequestLoan(l)
    <3>1. loan[l] = "none" /\ loan' = [loan EXCEPT ![l] = "active"]
      BY <2>2 DEF RequestLoan
    <3>2. Accounts!Grant(l)
      BY <2>1, <3>1, Zenon DEF Accounts!Grant
    <3> QED
      BY <3>2 DEF Accounts!Next
  <2>3. CASE CancelLoan(l)
    <3>1. loan[l] = "active" /\ loan' = [loan EXCEPT ![l] = "cancelled"]
      BY <2>3 DEF CancelLoan
    <3>2. Accounts!Cancel(l)
      BY <2>1, <3>1, Zenon DEF Accounts!Cancel
    <3> QED
      BY <3>2 DEF Accounts!Next
  <2> QED
    BY <1>5, <2>2, <2>3
<1>6. ASSUME NEW r \in Run,
             \/ \E wanted \in SUBSET Emp, end \in Days : CreateDraft(r, wanted, end)
             \/ \E override \in BOOLEAN : Validate(r, override)
             \/ Discard(r)
      PROVE  UNCHANGED Accounts!vars
  <2>1. /\ UNCHANGED loans
        /\ \E s \in RunStatus \ {"reversed"} :
              status' = status \/ (status[r] # "reversed" /\ status' = [status EXCEPT ![r] = s])
    BY <1>6 DEF CreateDraft, Validate, Discard, RunStatus
  <2>2. repaid' = repaid /\ loan' = loan
    BY <2>1 DEF loans
  <2>3. [l \in Loan |-> Outstanding(l)'] = [l \in Loan |-> Outstanding(l)]
    BY <1>4, <2>1, <2>2
  <2> QED
    BY <2>2, <2>3 DEF Accounts!vars
<1>7. ASSUME \/ \E r \in Run : MarkPaid(r)
             \/ \E c \in Claim : SubmitClaim(c) \/ \E approve \in BOOLEAN : DecideClaim(c, approve)
             \/ \E r \in Run, s \in Scheme : MarkFiled(r, s) \/ MarkRemitted(r, s)
             \/ \E e \in Emp : UpdateTin(e)
             \/ \E post \in BOOLEAN, day \in LockDates : UpdateSettings(post, day)
             \/ UNCHANGED vars
      PROVE  UNCHANGED Accounts!vars
  <2>1. status' = status /\ repaid' = repaid /\ loan' = loan
    BY <1>7 DEF MarkPaid, SubmitClaim, DecideClaim, MarkFiled, MarkRemitted, UpdateTin,
       UpdateSettings, vars, runs, loans
  <2>2. [l \in Loan |-> Outstanding(l)'] = [l \in Loan |-> Outstanding(l)]
    BY <2>1 DEF Outstanding, UnitsRepaid
  <2> QED
    BY <2>1, <2>2 DEF Accounts!vars
<1> QED
  BY <1>1, <1>2, <1>3, <1>5, <1>6, <1>7 DEF Next

(* Whatever payroll does with runs, settlements and reversals, each loan   *)
(* is an account of LoanAccounts to its borrower.                          *)
THEOREM PayrollImplementsLoanAccounts == Spec => ImplementsLoanAccounts
<1>1. Init => Accounts!Init
  <2> SUFFICES ASSUME Init PROVE Accounts!Init
    OBVIOUS
  <2>1. ASSUME NEW l \in Loan PROVE Outstanding(l) = Repayable[l]
    <3>1. Repayable[l] \in Nat
      BY AmountAssumption
    <3>2. UnitsRepaid(l) = {}
      BY <3>1 DEF UnitsRepaid, Init
    <3>3. Cardinality(UnitsRepaid(l)) = 0
      BY <3>2, FS_EmptySet
    <3> QED
      BY <3>1, <3>3 DEF Outstanding
  <2>2. [l \in Loan |-> Outstanding(l)] = Repayable
    BY <2>1, AmountAssumption
  <2> QED
    BY <2>2 DEF Init, Accounts!Init
<1>2. LoanInv /\ LoanInv' /\ [Next]_vars => [Accounts!Next]_(Accounts!vars)
  BY StepsImplement
<1> QED
  BY LoanInvAlways, <1>1, <1>2, PTL DEF Spec, ImplementsLoanAccounts, Accounts!Spec
=============================================================================
