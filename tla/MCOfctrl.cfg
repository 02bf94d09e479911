SPECIFICATION Spec
CONSTANTS
    MaxFlows = 2
    MaxCfg = 2
    MaxLosses = 1
    MonitorAll = FALSE
INVARIANTS
    ReportedIsInstalled
    InstalledMatchesSwitch
    NothingLost
