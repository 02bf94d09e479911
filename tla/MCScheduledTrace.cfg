\* One request thread, one reload, which may find the list changed.
SPECIFICATION FairSpec
CONSTANTS
    Names <- MCTwo
    Schedulers <- MCTwo
    Caller1 = Caller1
    Caller2 = Caller2
    Callers = {Caller1}
    Main = Main
    None = None
    Results = {"success"}
    Loads <- MCLists
    FirstLoad <- MCFirst
    Interval = 1
    MaxTime = 1
    MaxLoads = 1
INVARIANTS
    SingleScheduler
    
    
PROPERTIES
    StopEndsSchedulers
    DueProfileRuns
    ReloadReturns
CHECK_DEADLOCK FALSE
