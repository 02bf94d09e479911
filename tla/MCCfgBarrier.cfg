SPECIFICATION FairSpec
CONSTANTS
    Clients = {c1}
    Chassis = {h1}
    MaxWrites = 2
    MaxFaults = 1
INVARIANTS
    NumberNotAhead
    WaitSbIsDone
    WaitHvIsDone
PROPERTIES
    WaitsEnd
CHECK_DEADLOCK FALSE
