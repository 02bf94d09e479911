\* Two requests that reload at the same time, and three schedulers.
SPECIFICATION Spec
CONSTANTS
    Names <- MCOne
    Schedulers <- MCThree
    Caller1 = Caller1
    Caller2 = Caller2
    Callers = {Caller1, Caller2}
    Main = Main
    None = None
    Results = {"success"}
    Loads <- MCSoloLists
    FirstLoad <- MCSolo
    Interval = 1
    MaxTime = 0
    MaxLoads = 2
INVARIANTS
    RunsAccounted
PROPERTIES
    CountersOnlyGrow
SYMMETRY MCSymmetry
CHECK_DEADLOCK FALSE
