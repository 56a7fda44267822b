SPECIFICATION Spec
CONSTANTS
    e1 = e1
    e2 = e2
    l1 = l1
    l2 = l2
    l3 = l3
    l4 = l4
    c1 = c1
    c2 = c2
    NoRun = NoRun
    Emp = {e1}
    Run = {r1, r2}
    Loan = {l1, l3}
    Claim = {}
    Scheme = {}
    Accrued = {}
    Days = {1}
    Today = 2
    LockDates = {0}
    LoanOwner <- MCLoanOwner
    ClaimOwner <- MCClaimOwner
    Repayable <- MCRepayable
    Installment <- MCInstallment
SYMMETRY RunSymmetry
INVARIANT
    AtMostOneActiveLoan
