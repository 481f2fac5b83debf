SPECIFICATION DeploySpec
CONSTANTS
    Configs <- MCConfigs
    Tasks = {r1, r2}
    Window = 1
    MaxTime = 1
    MaxReentries = 2
    MaxKills = 1
    MaxCrashes = 1
    None = None
INVARIANTS
    DeployTypeOK
    OneWallet
    RunHasWallet
    OneMarketMakerRun
    OnlyVettedRuns
    KilledNeverCompletes
PROPERTIES
    CustodyForward
    LaunchSettles
CHECK_DEADLOCK FALSE
