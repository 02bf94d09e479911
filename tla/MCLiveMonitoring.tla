-------------------------- MODULE MCLiveMonitoring --------------------------
(***************************************************************************)
(* Small instances of LiveMonitoring.  The queues hold two events, so that *)
(* a client that falls three events behind makes a publisher evict one.    *)
(***************************************************************************)
EXTENDS LiveMonitoring

CONSTANTS c1, t1

=============================================================================
