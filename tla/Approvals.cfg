SPECIFICATION Spec
CONSTANTS
    None = None
    t1 = t1
    t2 = t2
    Txn = {t1, t2}
    Leave = {l1}
    Encashment = {c1}
    Expense = {x1}
    Stock = {s1}
    Days <- MCDays
    Entitlement = 1
    MaxSteps = 2
    MaxRequests = 2
SYMMETRY TxnSymmetry
INVARIANTS
    TypeOK
    StatusesAgree
    StepsSigned
    LockedTrailInOrder
PROPERTIES
    ImplementsApprovalChain
