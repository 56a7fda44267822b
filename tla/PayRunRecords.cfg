SPECIFICATION Spec
CONSTANTS
    e1 = e1
    e2 = e2
    l1 = l1
    l2 = l2
    l3 = l3
    l4 = l4
    c1 = c1
    c2 = c2
    NoRun = NoRun
    Emp = {e1, e2}
    Run = {r1, r2}
    Loan = {}
    Claim = {c2}
    Scheme = {nsitf}
    Accrued = {nsitf}
    Days = {1, 2}
    Today = 2
    LockDates = {1}
    LoanOwner <- MCLoanOwner
    ClaimOwner <- MCClaimOwner
    Repayable <- MCRepayable
    Installment <- MCInstallment
SYMMETRY RunSymmetry
INVARIANTS
    ClaimsPaidByLockedRuns
    PayslipsMatchPinned
    FlagsReviewed
    LiabilitiesBelongToRuns
    LedgerMatchesRuns
PROPERTIES
    ActedOnStands
    SealedPeriodsStand
