CONSTANTS
    AbuseEnabled = TRUE
    FallbackMax = 2
    Sessions = {s1, s2, s3}
    MaxCalls = 5
SPECIFICATION MCSpec
INVARIANTS CountsExact BudgetKept
PROPERTIES ImplementsBudget CallsReturn
CHECK_DEADLOCK FALSE
