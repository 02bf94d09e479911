--------------------------- MODULE MCTraceManager ---------------------------
(* Model values and symmetry for the checks of TraceManager.               *)
EXTENDS TraceManager, TLC

Symmetry == Permutations(Clients) \cup Permutations(Workers) \cup Permutations(Probes)
=============================================================================
