CONSTANTS
  Clients = {c1, c2}
  Workers = {w1}
  Probes = {p1, p2}
  Main = Main
  None = None
  Results = {"success"}
  MaxRuns = 1
  MaxFaults = 0
  MaxCrashes = 0
SPECIFICATION FairSpec
PROPERTIES QueuedRunsFinish 
CHECK_DEADLOCK FALSE
