SPECIFICATION Spec
CONSTANTS
    None = None
    t1 = t1
    t2 = t2
    t3 = t3
    o1 = o1
    o2 = o2
    Org = {o1, o2}
    Template = {t1, t2, t3}
    OrgOf <- MCOrgOf
    Prefix <- MCPrefix
    Period <- MCPeriod
    MonthLengths <- MCMonths
    Starts = {2}
    Horizon = 3
    MaxByHand = 1
    MaxCrashes = 1
INVARIANTS
    TypeOK
    NextFollowsLast
    OneDocumentPerPeriod
PROPERTIES
    CaughtUp
