SPECIFICATION Spec
CONSTANTS
    a1 = a1
    a2 = a2
    a3 = a3
    a4 = a4
    s1 = s1
    s2 = s2
    c1 = c1
    c2 = c2
    Sessions = {s1}
    Attempts = {a1, a2, a3}
    SessionOf <- OneSession
    Days = {0}
    MaxOrdersPerSession = 2
    MaxOrdersPerDay = 0
    EnvMaxSessionLoss = 2
    EnvMaxDailyLoss = 2
    ManMaxSessionLoss = 0
    ManMaxDailyLoss = 0
    Callers = {c1, c2}
    LiveAttempts = {a1, a2, a3}
    IntentOf <- TakeAndCancel
    Replaces <- NameFirst
    FillPnls = {}
    MaxFills = 0
PROPERTIES
    CancelAllWithdraws
