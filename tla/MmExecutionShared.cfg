SPECIFICATION Spec
CONSTANTS
    a1 = a1
    a2 = a2
    a3 = a3
    a4 = a4
    s1 = s1
    s2 = s2
    c1 = c1
    c2 = c2
    Sessions = {s1, s2}
    Attempts = {a1, a2, a3, a4}
    SessionOf <- TwoSessions
    Days = {0, 1}
    MaxOrdersPerSession = 0
    MaxOrdersPerDay = 2
    EnvMaxSessionLoss = 2
    EnvMaxDailyLoss = 2
    ManMaxSessionLoss = 0
    ManMaxDailyLoss = 0
    Callers = {c1, c2}
    LiveAttempts = {a1, a2, a3}
    IntentOf <- ReplaceAndCancel
    Replaces <- NameFirst
    FillPnls = {}
    MaxFills = 0
SYMMETRY Symmetry
INVARIANTS
    NothingLeftToReplace
