---------------------------- MODULE MCCfgBarrier ----------------------------
(***************************************************************************)
(* A small instance of CfgBarrier.                                         *)
(***************************************************************************)
EXTENDS CfgBarrier

=============================================================================
