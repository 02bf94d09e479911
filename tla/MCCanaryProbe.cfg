CONSTANTS
  p1 = p1
  p2 = p2
  o1 = o1
  o2 = o2
  Probes = {p1}
  Requests <- AllRequests
  Octets <- OneAddress
  Occurs <- PairOccurs
  None = None
  Target = Target
  Timeout = 3
  Delays = {0, 1}
SPECIFICATION FairSpec
INVARIANTS VerdictIsFirstMissingStage
PROPERTIES ProbesEnd
CHECK_DEADLOCK FALSE
