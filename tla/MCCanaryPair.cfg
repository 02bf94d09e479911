CONSTANTS
  p1 = p1
  p2 = p2
  o1 = o1
  o2 = o2
  Probes = {p1, p2}
  Requests <- PairRequests
  Octets <- TwoAddresses
  Occurs <- PairOccurs
  None = None
  Target = Target
  Timeout = 0
  Delays = {0}
SPECIFICATION Spec
INVARIANTS NothingLeftBehind ObservedIsOwn Undisturbed
CHECK_DEADLOCK FALSE
