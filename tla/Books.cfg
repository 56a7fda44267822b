SPECIFICATION Spec
CONSTANTS
    Nobody = Nobody
    Invoice = {i1}
    Price <- MCPrice
    Credits = {1}
    Asset = {a1, a2}
    Shapes <- MCShapes
    Values = {3}
    Proceeds = {2}
    MaxRevaluations = 1
    Employee = {e1, e2}
    StatementLine = {l1, l2}
    Amounts <- MCAmounts
SYMMETRY Symmetric
INVARIANTS
    TypeOK
    ReceivablesReconcile
    AssetsReconcile
    HistoryExplains
    CustodyMatches
    DifferenceExplained
