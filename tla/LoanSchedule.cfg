SPECIFICATION Spec
CONSTANTS
    Principals = {0, 1, 2, 5, 7, 9, 12}
    Rates = {0, 500, 3300}
    Terms = {0, 1, 2, 3, 5}
INVARIANTS
    PlanSumsToTotal
    DeductionsFollowPlan
    RepaidWithinTwiceTheTerm
CHECK_DEADLOCK FALSE
