SPECIFICATION Spec
CONSTANTS
    None = None
    t1 = t1
    t2 = t2
    Txn = {t1, t2}
    Order = {p1}
    Line = {1, 2}
    Ordered <- MCOrdered
    Net <- MCNet
    Receipt = {g1}
    Bodies <- MCBodies
    Bill = {b1}
    Amounts = {2}
    Withheld = {1}
    Tolerances = {0, 50}
SYMMETRY Symmetric
INVARIANT
    GrniReconciles
