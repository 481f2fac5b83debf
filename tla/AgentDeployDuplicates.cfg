SPECIFICATION DeploySpec
CONSTANTS
    Configs <- MCConfigs
    Tasks = {r1, r2}
    Window = 1
    MaxTime = 1
    MaxReentries = 2
    MaxKills = 0
    MaxCrashes = 0
    None = None
INVARIANTS
    OneRunPerDeploy
CHECK_DEADLOCK FALSE
