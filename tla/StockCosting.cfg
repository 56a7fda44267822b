SPECIFICATION Spec
CONSTANTS
    i1 = i1
    i2 = i2
    a1 = a1
    a2 = a2
    w1 = w1
    w2 = w2
    None = None
    Transit = transit
    Item = {i1, i2}
    Warehouse = {w1}
    Adjustment = {a1, a2}
    Issue = {s1}
    Transfer = {}
    Stocktake = {}
    Quantities = {1}
    Costs = {1, 2}
    Days = {1}
    Today = 2
    LockDates = {0}
    DefaultCost <- MCDefaultCost
    Policies <- MCPolicies
SYMMETRY AdjustmentSymmetry
INVARIANTS
    StockMatchesMovements
    GlMatchesStock
    RemovalsApproved
