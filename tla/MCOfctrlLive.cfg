SPECIFICATION FairSpec
CONSTANTS
    MaxFlows = 2
    MaxCfg = 1
    MaxLosses = 1
    MonitorAll = TRUE
PROPERTIES
    FlowsConverge
    
