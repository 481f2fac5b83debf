SPECIFICATION Spec
CONSTANTS
    Plans <- TwoPlans
CHECK_DEADLOCK FALSE
INVARIANTS
    LiveThreadNeverAbandoned
