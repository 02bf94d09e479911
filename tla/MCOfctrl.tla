------------------------------ MODULE MCOfctrl ------------------------------
(***************************************************************************)
(* Small instances of Ofctrl.                                              *)
(***************************************************************************)
EXTENDS Ofctrl

=============================================================================
