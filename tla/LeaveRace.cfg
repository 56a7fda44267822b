SPECIFICATION Spec
CONSTANTS
    None = None
    t1 = t1
    t2 = t2
    Txn = {t1, t2}
    Leave = {l1, l2}
    Encashment = {}
    Expense = {}
    Stock = {}
    Days <- MCDays
    Entitlement = 1
    MaxSteps = 1
    MaxRequests = 2
SYMMETRY TxnSymmetry
INVARIANT
    LeaveWithinEntitlement
