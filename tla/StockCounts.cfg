SPECIFICATION Spec
CONSTANTS
    i1 = i1
    i2 = i2
    a1 = a1
    a2 = a2
    w1 = w1
    w2 = w2
    None = None
    Transit = transit
    Item = {i1}
    Warehouse = {w1, w2}
    Adjustment = {a1}
    Issue = {}
    Transfer = {t1}
    Stocktake = {k1}
    Quantities = {1, 2}
    Costs = {1}
    Days = {1}
    Today = 2
    LockDates = {0, 1}
    DefaultCost <- MCDefaultCost
    Policies <- MCPolicies
SYMMETRY WarehouseSymmetry
INVARIANTS
    TypeOK
    StockFollowsDocuments
PROPERTIES
    CountsKeepLaterMovements
