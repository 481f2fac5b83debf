SPECIFICATION FairSpec
CONSTANTS
    Plans <- TwoPlans
CHECK_DEADLOCK FALSE
INVARIANTS
    BridgeTypeOK
    OnePostPerRun
    UnsentIsUnsent
    AtMostOneLegAfterKill
    ThreadNotAbandoned
    EscapeOnRecord
PROPERTIES
    RunEnds
