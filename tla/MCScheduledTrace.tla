-------------------------- MODULE MCScheduledTrace --------------------------
(***************************************************************************)
(* Small instances of ScheduledTrace: two profiles, the first with a fixed *)
(* target and the second with one that must be looked up.  A reload may    *)
(* keep both, or change what the first one probes and disable the second.  *)
(***************************************************************************)
EXTENDS ScheduledTrace, TLC

CONSTANT Caller1, Caller2

MCConfig(key, on, auto) == [key |-> key, enabled |-> on, auto |-> auto]
MCFirst == 1 :> MCConfig(1, TRUE, FALSE) @@ 2 :> MCConfig(1, TRUE, TRUE)
MCOther == 1 :> MCConfig(2, TRUE, FALSE) @@ 2 :> MCConfig(1, FALSE, TRUE)
MCLists == {MCFirst, MCOther}
MCSolo == 1 :> MCConfig(1, TRUE, FALSE)
MCEmpty == [n \in {} |-> MCConfig(1, TRUE, FALSE)]
MCSoloLists == {MCSolo, MCEmpty}
MCSymmetry == Permutations({Caller1, Caller2})
MCOne == {1}
MCTwo == {1, 2}
MCThree == {1, 2, 3}

=============================================================================
