CONSTANTS
  Clients = {c1, c2}
  Workers = {w1, w2, w3}
  Probes = {p1, p2}
  Main = Main
  None = None
  Results = {"success"}
  MaxRuns = 1
  MaxFaults = 1
  MaxCrashes = 1
SPECIFICATION Spec
SYMMETRY Symmetry
INVARIANTS AtMostOnce SingleWorker ActiveRowsOwned HistoryBounded
PROPERTIES ResultIsFinal PruneSparesActive ImplementsLifecycle
CHECK_DEADLOCK FALSE
