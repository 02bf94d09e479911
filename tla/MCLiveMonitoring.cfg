\* One connection, a collector and a thread that publishes runs.
SPECIFICATION FairSpec
CONSTANTS
    c1 = c1
    t1 = t1
    Clients = {c1}
    Tracers = {t1}
    Collector = Collector
    None = None
    Components = {"capacity", "latency"}
    QueueSize = 2
    MaxRefreshes = 3
    MaxUpdates = 1
INVARIANTS
    StreamInOrder
    NothingMissed
    OkIsComplete
    
PROPERTIES
    PublishersReturn
CHECK_DEADLOCK FALSE
