SPECIFICATION FairSpec
CONSTANTS
    p1 = p1
    t1 = t1
    Pids = {p1}
    Tids = {t1}
    None = None
    HistorySize = 2
    MaxSamples = 3
    MaxTicks = 2
    MaxStarts = 3
INVARIANTS
    
    
    HistoryIsSeamless
PROPERTIES
    SamplesEnd
CHECK_DEADLOCK FALSE
