---------------------------- MODULE MCCanaryProbe ----------------------------
(* Instances for the checks of CanaryProbe.                                *)
EXTENDS CanaryProbe, TLC

CONSTANTS p1, p2, o1, o2

\* Every request there is.
AllRequests == [resource_type : ResourceTypes, target : BOOLEAN, expect : {"yes", "no", "default"}]

\* An ACL on the existing switch and one on a temporary switch.
PairRequests ==
    {[resource_type |-> "logical_flow", target |-> TRUE, expect |-> "default"],
     [resource_type |-> "acl", target |-> FALSE, expect |-> "no"]}

OneAddress == p1 :> o1
TwoAddresses == (p1 :> o1) @@ (p2 :> o2)

\* "198.18.1.1" occurs in "198.18.1.12", not the other way round.
PairOccurs == {<<o1, o1>>, <<o2, o2>>, <<o1, o2>>}
=============================================================================
