---------------------------- MODULE MCCpuMonitor ----------------------------
(* The instance of CpuMonitor that is checked: one pid and one further     *)
(* thread id, each of which may be used again.                             *)
EXTENDS CpuMonitor

CONSTANTS p1, t1
=============================================================================
