---------------------------- MODULE OfctrlProofs ----------------------------
(***************************************************************************)
(* Ofctrl for any number of versions of the southbound contents,           *)
(* configuration numbers and lost connections: the engine misses no        *)
(* change, no difference between desired and installed flows is forgotten, *)
(* what ofctrl takes for installed is what the switch has or will have,    *)
(* and a number is reported only when the switch has had its flows.        *)
(***************************************************************************)
EXTENDS Ofctrl, TLAPS

\* The provers, in the order in which they try a leaf that names none.
USE Zenon, SMT, ZenonT(60), SMTT(60)

-----------------------------------------------------------------------------
(* NothingLost: the desired flows follow the southbound view *)

\* Whether desired flows, tracker and view belong together depends on how far the
\* iteration has come: before the engine they are those of the tracker, after it
\* those of the view, and a run that was canceled or skipped leaves a recompute due
\* or the tracker in place.
FlowsFollow ==
    /\ force \in BOOLEAN
    /\ pc \in {"run", "engine", "store"} => outcome = "stale"
    /\ outcome \in {"stale", "canceled"} => force \/ desired = FlowsOf(tracker)
    /\ outcome = "canceled" => force
    /\ outcome = "done" => desired = FlowsOf(view)
    /\ outcome \in {"stale", "canceled", "done"}

\* The steps before the engine and those that neither compute nor store flows.
LEMMA FlowsFollowFrame ==
    ASSUME FlowsFollow, pc' = pc \/ (pc = "run" /\ pc' = "engine") \/ pc' \in {"put", "ack"},
           outcome' = outcome, view' = view \/ pc = "run",
           UNCHANGED <<desired, tracker>>, force' = force \/ force' = TRUE
    PROVE  FlowsFollow'
BY DEF FlowsFollow, FlowsOf

\* What the environment and the connection do.
LEMMA FlowsFollowRun ==
    ASSUME FlowsFollow, Northd \/ Environment \/ Faults \/ OfctrlRun
    PROVE  FlowsFollow'
<1>1. CASE Northd
  BY <1>1, FlowsFollowFrame DEF Northd, viewVars, iterVars, engineVars, tableVars
<1>2. CASE Deliver \/ DeliverCondition \/ Connect \/ Disconnect
  BY <1>2, FlowsFollowFrame DEF Deliver, DeliverCondition, Connect, Disconnect, viewVars, iterVars,
                                engineVars, tableVars
<1>3. CASE SwitchTlv(TRUE) \/ SwitchTlv(FALSE) \/ SwitchApply \/ SwitchRefuse
  BY <1>3, FlowsFollowFrame DEF SwitchTlv, SwitchApply, SwitchRefuse, Reply, viewVars, iterVars,
                                engineVars, tableVars
<1>4. CASE OfctrlRun
  <2>1. pc' = pc /\ UNCHANGED <<outcome, view, desired, tracker>> /\ force' \in {force, TRUE}
    BY <1>4 DEF OfctrlRun, OfctrlReconnected, run_S_NEW, run_S_WAIT_BEFORE_CLEAR, run_S_CLEAR_FLOWS,
                recv_S_TLV_TABLE_REQUESTED, recv_S_TLV_TABLE_MOD_SENT, recv_barrier_reply, ofctrl_recv,
                ofctrlFrame, viewVars, iterVars, tableVars
  <2>. QED  BY <2>1, FlowsFollowFrame
<1>. QED  BY <1>1, <1>2, <1>3, <1>4 DEF Environment, Faults

\* The engine: a recompute takes the flows of the view; without one, the difference
\* between tracker and view is applied to the flows of the tracker.
LEMMA FlowsFollowEngine ==
    ASSUME FlowsFollow,
           EngineSkipped \/ EngineCanceled \/ \E recompute \in BOOLEAN : EngineRun(recompute)
    PROVE  FlowsFollow'
<1>1. CASE EngineSkipped
  BY <1>1 DEF EngineSkipped, FlowsFollow, FlowsOf, engineFrame, engineVars, tableVars
<1>2. CASE EngineCanceled
  BY <1>2 DEF EngineCanceled, FlowsFollow
<1>3. ASSUME NEW recompute \in BOOLEAN, EngineRun(recompute)
      PROVE  FlowsFollow'
  <2>1. pc = "engine" /\ pc' = "request" /\ outcome' = "done" /\ force' = FALSE /\ view' = view
    BY <1>3 DEF EngineRun, engineFrame
  <2>2. desired' = FlowsOf(view)
    BY <1>3 DEF EngineRun, FlowsFollow, Patch
  <2>. QED  BY <2>1, <2>2 DEF FlowsFollow, FlowsOf
<1>. QED  BY <1>1, <1>2, <1>3

\* The end of an iteration: the tracker becomes the view.  If the engine has not run,
\* a view that differs makes a recompute due.
LEMMA FlowsFollowStore ==
    ASSUME FlowsFollow, NEW ok \in BOOLEAN, Store(ok)
    PROVE  FlowsFollow'
<1>1. /\ pc' = "run" /\ outcome' = "stale" /\ tracker' = view /\ view' = view /\ desired' = desired
      /\ force' = (force \/ ~ ok \/ (outcome = "stale" /\ InputsChanged))
  BY DEF Store, tableVars
<1>2. outcome = "stale" /\ view # tracker => force'
  BY <1>1 DEF InputsChanged
<1>3. force' \/ desired' = FlowsOf(tracker)'
  BY <1>1, <1>2 DEF FlowsFollow, FlowsOf
<1>. QED  BY <1>1, <1>3 DEF FlowsFollow

\* Every step.
LEMMA FlowsFollowNext ==
    ASSUME FlowsFollow, [Next]_vars
    PROVE  FlowsFollow'
<1>1. CASE Northd \/ Environment \/ Faults \/ OfctrlRun
  BY <1>1, FlowsFollowRun
<1>2. CASE \E txn, b \in BOOLEAN : OfctrlRunDone(txn, b)
  BY <1>2, FlowsFollowFrame DEF OfctrlRunDone, viewVars, engineVars, tableVars
<1>3. CASE EngineSkipped \/ EngineCanceled \/ \E recompute \in BOOLEAN : EngineRun(recompute)
  BY <1>3, FlowsFollowEngine
<1>4. CASE ofctrl_seqno_update_create \/ PutNothing \/ PutMessages \/ PutUpToDate
  BY <1>4, FlowsFollowFrame DEF ofctrl_seqno_update_create, PutNothing, PutMessages, PutUpToDate, putFrame,
                                viewVars, iterVars, engineVars, tableVars
<1>5. CASE \E ok \in BOOLEAN : Store(ok)
  BY <1>5, FlowsFollowStore
<1>6. CASE UNCHANGED vars
  BY <1>6 DEF FlowsFollow, FlowsOf, vars, viewVars, iterVars, engineVars, tableVars
<1>. QED  BY <1>1, <1>2, <1>3, <1>4, <1>5, <1>6 DEF Next, Iteration

\* No change of the southbound database is lost between two iterations, however the
\* engine is skipped, canceled or fails to commit.
THEOREM NoChangeLost == Spec => []NothingLost
<1>1. Init => FlowsFollow
  BY DEF Init, FlowsFollow
<1>2. FlowsFollow /\ [Next]_vars => FlowsFollow'
  BY FlowsFollowNext
<1>3. FlowsFollow => NothingLost
  BY DEF FlowsFollow, NothingLost
<1>. QED  BY <1>1, <1>2, <1>3, PTL DEF Spec

-----------------------------------------------------------------------------
(* Desired and installed flows *)

\* The messages, and the types of what the proof speaks of.
Request == [type : {"tlv_request", "tlv_mod"}, xid : {0}]
Bundle == [type : {"bundle"}, xid : Nat, clear : BOOLEAN, from : Int, to : Int]
Answer == [type : {"tlv_mapped", "tlv_unmapped", "barrier", "error"}, xid : Nat]

OfctrlTypes ==
    /\ sb.flows \in Nat \ {0} /\ view.flows \in Nat \ {0}
    /\ toSwitch \in Seq(Request \cup Bundle) /\ toController \in Seq(Answer)
    /\ xid \in Nat /\ installed \in Int /\ desired \in Int /\ switch \in Int
    /\ initialClear \in BOOLEAN
    /\ state \in {"S_NEW", "S_TLV_TABLE_REQUESTED", "S_TLV_TABLE_MOD_SENT", "S_WAIT_BEFORE_CLEAR",
                  "S_CLEAR_FLOWS", "S_UPDATE_FLOWS"}

\* A difference between desired and installed flows is never forgotten: it is in
\* tracked_flows, which start from what is installed, or a put by comparison is due.
Unput == skipped \/ (changed /\ pc \in {"request", "put"})
Reconciled ==
    /\ changed => outcome = "done"
    /\ state # "S_UPDATE_FLOWS" => (force \/ ~ tracked) /\ (outcome = "done" => ~ tracked)
    /\ state \in {"S_TLV_TABLE_REQUESTED", "S_TLV_TABLE_MOD_SENT", "S_WAIT_BEFORE_CLEAR"} /\ proceed
        => skipped /\ ~ tracked
    /\ state = "S_CLEAR_FLOWS" => skipped /\ ~ tracked
    /\ state = "S_UPDATE_FLOWS" =>
        /\ tracked => installed = base
        /\ tracked \/ Unput
        /\ desired = installed \/ Unput

\* The types, which all steps keep.
LEMMA TypesFollow ==
    ASSUME OfctrlTypes, FlowsFollow, [Next]_vars
    PROVE  OfctrlTypes'
<1>. USE DEF OfctrlTypes
<1>1. CASE Northd
  BY <1>1, SMT, SMTT(60) DEF Northd, viewVars, iterVars, engineVars, tableVars, putVars, connVars, channels, switchVars
<1>2. CASE Deliver
  BY <1>2, SMT, SMTT(60) DEF Deliver, dbVars, iterVars, engineVars, tableVars, putVars, connVars, channels, switchVars
<1>3. CASE DeliverCondition
  BY <1>3, SMT, SMTT(60) DEF DeliverCondition, dbVars, iterVars, engineVars, tableVars, putVars, connVars, channels,
              switchVars
<1>4. CASE Connect
  BY <1>4 DEF Connect, dbVars, viewVars, tableVars, putVars, channels, switchVars
<1>5. CASE Disconnect
  BY <1>5, SMT, SMTT(60) DEF Disconnect, Disconnected, Bad, dbVars, viewVars, tableVars, putVars
<1>6. ASSUME NEW messages \in Seq(Answer), toSwitch # <<>>, Reply(messages), switch' \in Int
      PROVE  OfctrlTypes'
  BY <1>6, SMT, SMTT(60) DEF Reply, dbVars, viewVars, iterVars, engineVars, tableVars, putVars
<1>7. ASSUME NEW mapped \in BOOLEAN, SwitchTlv(mapped)
      PROVE  OfctrlTypes'
  <2>1. \A t \in {"tlv_mapped", "tlv_unmapped", "barrier"} : Message(t, 0) \in Answer
    BY DEF Message, Answer
  <2>2. \A t, u \in {"tlv_mapped", "tlv_unmapped", "barrier"} :
            <<Message(t, 0)>> \in Seq(Answer) /\ <<Message(t, 0)>> \o <<Message(u, 0)>> \in Seq(Answer)
    BY <2>1, SMT, SMTT(60)
  <2>3. switch' \in Int
    BY <1>7 DEF SwitchTlv, switchVars
  <2>4. \E messages \in Seq(Answer) : Reply(messages)
    BY <1>7, <2>2 DEF SwitchTlv
  <2>. QED  BY <1>6, <1>7, <2>3, <2>4 DEF SwitchTlv
<1>8. ASSUME toSwitch # <<>>, Head(toSwitch).type = "bundle"
      PROVE  Head(toSwitch) \in Bundle
  BY <1>8, SMT, SMTT(60) DEF Request, Bundle
<1>9. CASE SwitchApply
  <2>1. Head(toSwitch) \in Bundle
    BY <1>8, <1>9 DEF SwitchApply
  <2>2. <<Message("barrier", Head(toSwitch).xid)>> \in Seq(Answer)
    BY <2>1, SMT, SMTT(60) DEF Message, Answer, Bundle
  <2>3. switch' \in Int
    BY <1>9, <2>1, SMT, SMTT(60) DEF SwitchApply, Bundle, Patch, Bad
  <2>. QED  BY <1>6, <1>9, <2>2, <2>3 DEF SwitchApply
<1>10. CASE SwitchRefuse
  <2>1. Head(toSwitch) \in Bundle
    BY <1>8, <1>10 DEF SwitchRefuse
  <2>2. <<Message("error", 0), Message("barrier", Head(toSwitch).xid)>> \in Seq(Answer)
    BY <2>1, SMT, SMTT(60) DEF Message, Answer, Bundle
  <2>3. switch' \in Int
    BY <1>10 DEF SwitchRefuse, switchVars
  <2>. QED  BY <1>6, <1>10, <2>2, <2>3 DEF SwitchRefuse
<1>11. CASE OfctrlReconnected \/ run_S_WAIT_BEFORE_CLEAR
  BY <1>11 DEF OfctrlReconnected, run_S_WAIT_BEFORE_CLEAR, ofctrlFrame, dbVars, viewVars, tableVars, putVars,
               connVars, channels
<1>12. CASE run_S_CLEAR_FLOWS
  BY <1>12, SMT, SMTT(60) DEF run_S_CLEAR_FLOWS, Empty, ofctrlFrame, dbVars, viewVars, tableVars, connVars, channels
<1>13. Message("tlv_request", 0) \in Request /\ Message("tlv_mod", 0) \in Request
  BY DEF Message, Request
<1>14. CASE run_S_NEW
  BY <1>13, <1>14, SMT, SMTT(60) DEF run_S_NEW, ofctrlFrame, dbVars, viewVars, tableVars, putVars
<1>15. CASE recv_S_TLV_TABLE_REQUESTED
  <2>1. toSwitch' = toSwitch \/ toSwitch' = Append(toSwitch, Message("tlv_mod", 0))
    BY <1>15 DEF recv_S_TLV_TABLE_REQUESTED
  <2>2. Message("tlv_mod", 0) \in Request \cup Bundle /\ toSwitch \in Seq(Request \cup Bundle)
    BY <1>13
  <2>3. toSwitch' \in Seq(Request \cup Bundle)
    BY <2>1, <2>2, SMT, SMTT(60)
  <2>4. toController' \in Seq(Answer)
    BY <1>15, SMT, SMTT(60) DEF recv_S_TLV_TABLE_REQUESTED, Receive, Received
  <2>. QED  BY <1>15, <2>3, <2>4 DEF recv_S_TLV_TABLE_REQUESTED, ofctrlFrame, dbVars, viewVars, tableVars, putVars
<1>16. CASE recv_S_TLV_TABLE_MOD_SENT
  BY <1>16, SMT, SMTT(60) DEF recv_S_TLV_TABLE_MOD_SENT, Receive, Received, ofctrlFrame, dbVars, viewVars, tableVars, putVars
<1>17. CASE recv_barrier_reply
  BY <1>17, SMT, SMTT(60) DEF recv_barrier_reply, Receive, Received, ofctrlFrame, dbVars, viewVars, tableVars
<1>18. CASE ofctrl_recv
  <2>1. CASE Disconnected
    BY <1>18, <2>1, SMT, SMTT(60) DEF ofctrl_recv, Disconnected, Bad, ofctrlFrame, dbVars, viewVars, tableVars, putVars
  <2>2. CASE Received /\ UNCHANGED <<toSwitch, xid, switch>>
    BY <1>18, <2>2, SMT, SMTT(60) DEF ofctrl_recv, Receive, Received, ofctrlFrame, dbVars, viewVars, tableVars, putVars
  <2>. QED  BY <1>18, <2>1, <2>2 DEF ofctrl_recv
<1>19. CASE \E txn, b \in BOOLEAN : OfctrlRunDone(txn, b)
  BY <1>19 DEF OfctrlRunDone, dbVars, viewVars, tableVars, putVars, connVars, channels, switchVars
<1>20. CASE EngineSkipped \/ EngineCanceled
  BY <1>20 DEF EngineSkipped, EngineCanceled, engineFrame, dbVars, tableVars, putVars, connVars, channels,
               switchVars
<1>21. ASSUME NEW recompute \in BOOLEAN, EngineRun(recompute)
       PROVE  OfctrlTypes'
  <2>1. desired' \in Int
    BY <1>21, SMT, SMTT(60) DEF EngineRun, FlowsOf, Patch, Bad
  <2>. QED  BY <1>21, <2>1 DEF EngineRun, engineFrame, dbVars, putVars, connVars, channels, switchVars
<1>22. CASE ofctrl_seqno_update_create
  BY <1>22 DEF ofctrl_seqno_update_create, dbVars, viewVars, iterVars, tableVars, putVars, connVars, channels,
               switchVars
<1>23. CASE PutNothing
  BY <1>23 DEF PutNothing, putFrame, dbVars, viewVars, tableVars, switchVars
<1>24. CASE PutUpToDate
  BY <1>24 DEF PutUpToDate, putFrame, dbVars, viewVars, switchVars
<1>25. CASE PutMessages
  <2>1. NewInstalled \in Int
    BY SMT, SMTT(60) DEF NewInstalled, Patch, Bad
  <2>2. toSwitch' \in Seq(Request \cup Bundle) /\ xid' \in Nat
    BY <1>25, <2>1, SMT, SMTT(60) DEF PutMessages, Bundle
  <2>3. installed' \in Int /\ initialClear' \in BOOLEAN
    BY <1>25, <2>1 DEF PutMessages
  <2>4. UNCHANGED <<sb, view, toController, desired, switch, state>>
    BY <1>25 DEF PutMessages, putFrame, dbVars, viewVars, switchVars
  <2>. QED  BY <2>2, <2>3, <2>4
<1>26. CASE \E ok \in BOOLEAN : Store(ok)
  BY <1>26 DEF Store, tableVars, putVars, connVars, channels, switchVars
<1>27. CASE UNCHANGED vars
  BY <1>27 DEF vars, dbVars, viewVars, iterVars, tableVars, putVars, connVars, channels, switchVars
<1>. QED
  BY <1>1, <1>2, <1>3, <1>4, <1>5, <1>7, <1>9, <1>10, <1>11, <1>12, <1>14, <1>15, <1>16, <1>17, <1>18,
     <1>19, <1>20, <1>21, <1>22, <1>23, <1>24, <1>25, <1>26, <1>27 DEF Next, Environment, Faults,
     OfctrlRun, Iteration

\* The steps that leave the tables and what is known of them alone.
LEMMA ReconciledFrame ==
    ASSUME Reconciled, pc' = pc \/ pc = "run" \/ (pc = "request" /\ pc' = "put"),
           UNCHANGED <<changed, outcome, state, tracked, proceed, skipped, installed, base, desired, force>>,
           changed => pc # "run"
    PROVE  Reconciled'
BY DEF Reconciled, Unput

\* A new connection starts the exchange with the switch again, with a recompute due;
\* it ends with tables that the next put compares.
LEMMA ReconciledRun ==
    ASSUME Reconciled, FlowsFollow, OfctrlRun
    PROVE  Reconciled'
<1>1. pc = "run" /\ outcome = "stale" /\ UNCHANGED <<pc, changed, outcome, tracked, desired, base, skipped>>
  <2>1. pc = "run" => outcome = "stale"
    BY DEF FlowsFollow
  <2>2. CASE OfctrlReconnected \/ run_S_NEW \/ run_S_WAIT_BEFORE_CLEAR \/ run_S_CLEAR_FLOWS
    BY <2>1, <2>2 DEF OfctrlReconnected, run_S_NEW, run_S_WAIT_BEFORE_CLEAR, run_S_CLEAR_FLOWS, Running,
                      ofctrlFrame, iterVars, tableVars, putVars
  <2>3. CASE recv_S_TLV_TABLE_REQUESTED \/ recv_S_TLV_TABLE_MOD_SENT
    BY <2>1, <2>3 DEF recv_S_TLV_TABLE_REQUESTED, recv_S_TLV_TABLE_MOD_SENT, Receive, Running, ofctrlFrame,
                      iterVars, tableVars, putVars
  <2>4. CASE recv_barrier_reply \/ ofctrl_recv
    BY <2>1, <2>4 DEF recv_barrier_reply, ofctrl_recv, Receive, Running, ofctrlFrame, iterVars, tableVars,
                      putVars
  <2>. QED  BY <2>2, <2>3, <2>4 DEF OfctrlRun
<1>2. CASE OfctrlReconnected
  BY <1>1, <1>2 DEF OfctrlReconnected, Reconciled, Unput
<1>3. CASE run_S_NEW
  BY <1>1, <1>3 DEF run_S_NEW, Reconciled, Unput
<1>4. CASE run_S_WAIT_BEFORE_CLEAR
  BY <1>1, <1>4 DEF run_S_WAIT_BEFORE_CLEAR, Reconciled, Unput
<1>5. CASE run_S_CLEAR_FLOWS
  BY <1>1, <1>5, SMT, SMTT(60) DEF run_S_CLEAR_FLOWS, Reconciled, Unput
<1>6. CASE recv_S_TLV_TABLE_REQUESTED
  BY <1>1, <1>6 DEF recv_S_TLV_TABLE_REQUESTED, Reconciled, Unput
<1>7. CASE recv_S_TLV_TABLE_MOD_SENT
  BY <1>1, <1>7 DEF recv_S_TLV_TABLE_MOD_SENT, Reconciled, Unput
<1>8. CASE recv_barrier_reply \/ ofctrl_recv
  <2>1. UNCHANGED <<state, proceed, installed, force>>
    BY <1>8 DEF recv_barrier_reply, ofctrl_recv, putVars
  <2>. QED  BY <1>1, <2>1 DEF Reconciled, Unput
<1>. QED  BY <1>2, <1>3, <1>4, <1>5, <1>6, <1>7, <1>8 DEF OfctrlRun

\* A recompute gives the tracked changes up, and the put that follows compares.
LEMMA ReconciledEngine ==
    ASSUME Reconciled, FlowsFollow,
           EngineSkipped \/ EngineCanceled \/ \E recompute \in BOOLEAN : EngineRun(recompute)
    PROVE  Reconciled'
<1>1. pc = "engine" /\ outcome = "stale" /\ ~ changed
  BY DEF EngineSkipped, EngineCanceled, EngineRun, FlowsFollow, Reconciled
<1>2. UNCHANGED <<state, proceed, skipped, installed, base>>
  BY DEF EngineSkipped, EngineCanceled, EngineRun, engineFrame, tableVars, putVars
<1>3. CASE EngineSkipped
  BY <1>1, <1>2, <1>3 DEF EngineSkipped, Reconciled, Unput, engineVars, tableVars
<1>4. CASE EngineCanceled
  BY <1>1, <1>2, <1>4 DEF EngineCanceled, Reconciled, Unput, tableVars
<1>5. ASSUME NEW recompute \in BOOLEAN, EngineRun(recompute)
      PROVE  Reconciled'
  <2>1. pc' = "request" /\ outcome' = "done"
    BY <1>5 DEF EngineRun
  <2>2. CASE recompute
    <3>1. changed' /\ ~ tracked'
      BY <1>5, <2>2 DEF EngineRun
    <3>. QED  BY <1>1, <1>2, <2>1, <3>1 DEF Reconciled, Unput
  <2>3. CASE ~ recompute
    <3>1. ~ force /\ (tracked' <=> tracked) /\ (changed' \/ desired' = desired)
      BY <1>5, <2>3 DEF EngineRun
    <3>. QED  BY <1>1, <1>2, <2>1, <3>1 DEF Reconciled, Unput
  <2>. QED  BY <2>2, <2>3
<1>. QED  BY <1>3, <1>4, <1>5

\* After a put what is installed is what is desired, also where the put goes by the
\* tracked changes, or by none.
LEMMA PutInstalls ==
    ASSUME Reconciled, FlowsFollow, OfctrlTypes, PutMessages \/ PutUpToDate
    PROVE  NewInstalled = desired /\ desired # Bad
<1>1. state = "S_UPDATE_FLOWS" /\ pc = "put" /\ outcome = "done"
  BY DEF PutMessages, PutUpToDate, CanPut
<1>2. NewInstalled = desired
  BY <1>1 DEF Reconciled, Unput, NewInstalled, Patch
<1>3. desired # Bad
  BY <1>1, SMT, SMTT(60) DEF FlowsFollow, OfctrlTypes, FlowsOf, Bad
<1>. QED  BY <1>2, <1>3

\* A put, or none.
LEMMA ReconciledPut ==
    ASSUME Reconciled, FlowsFollow, OfctrlTypes, PutNothing \/ PutMessages \/ PutUpToDate
    PROVE  Reconciled'
<1>1. /\ pc = "put" /\ pc' = "ack" /\ UNCHANGED <<changed, outcome, state, force, desired>>
  BY DEF PutNothing, PutMessages, PutUpToDate, putFrame, iterVars, engineVars, tableVars
<1>2. CASE PutNothing
  <2>1. UNCHANGED <<tracked, base, installed>>
    BY <1>2 DEF PutNothing, tableVars
  <2>2. CASE outcome # "done" /\ UNCHANGED <<proceed, skipped>>
    BY <1>1, <2>1, <2>2 DEF Reconciled, Unput
  <2>3. CASE outcome = "done" /\ state = "S_WAIT_BEFORE_CLEAR" /\ skipped' = TRUE
    BY <1>1, <2>1, <2>3 DEF Reconciled, Unput
  <2>4. CASE state # "S_WAIT_BEFORE_CLEAR" /\ ~ NeedPut /\ UNCHANGED <<proceed, skipped>>
    BY <1>1, <2>1, <2>4 DEF Reconciled, Unput, NeedPut
  <2>5. CASE state # "S_WAIT_BEFORE_CLEAR" /\ skipped' = TRUE /\ UNCHANGED proceed
    BY <1>1, <2>1, <2>5 DEF Reconciled, Unput
  <2>. QED  BY <1>2, <2>2, <2>3, <2>4, <2>5 DEF PutNothing
<1>3. CASE PutMessages \/ PutUpToDate
  <2>1. installed' = NewInstalled /\ tracked' /\ base' = desired /\ state = "S_UPDATE_FLOWS"
    BY <1>3 DEF PutMessages, PutUpToDate, CanPut
  <2>. QED  BY <1>1, <1>3, <2>1, PutInstalls DEF Reconciled
<1>. QED  BY <1>2, <1>3

\* Every step.
LEMMA ReconciledFollows ==
    ASSUME Reconciled, FlowsFollow, OfctrlTypes, [Next]_vars
    PROVE  Reconciled'
<1>1. CASE Northd \/ Environment \/ Faults
  <2>. DEFINE Still ==
         /\ pc = "run" /\ pc' = pc
         /\ UNCHANGED <<changed, outcome, state, tracked, proceed, skipped, installed, base, desired, force>>
  <2>1. CASE Northd \/ Deliver \/ DeliverCondition \/ Connect \/ Disconnect
    <3>. Still
      BY <2>1 DEF Northd, Deliver, DeliverCondition, Connect, Disconnect, iterVars, tableVars, putVars,
                  engineVars
    <3>. QED  BY ReconciledFrame DEF Reconciled, FlowsFollow
  <2>2. ASSUME NEW messages, Reply(messages)
        PROVE  Reconciled'
    <3>. Still
      BY <2>2 DEF Reply, iterVars, tableVars, putVars, engineVars
    <3>. QED  BY ReconciledFrame DEF Reconciled, FlowsFollow
  <2>3. CASE SwitchTlv(TRUE) \/ SwitchTlv(FALSE) \/ SwitchApply \/ SwitchRefuse
    BY <2>2, <2>3 DEF SwitchTlv, SwitchApply, SwitchRefuse
  <2>. QED  BY <1>1, <2>1, <2>3 DEF Environment, Faults
<1>2. CASE \E txn, b \in BOOLEAN : OfctrlRunDone(txn, b)
  <2>1. /\ pc = "run"
        /\ UNCHANGED <<changed, outcome, state, tracked, proceed, skipped, installed, base, desired, force>>
    BY <1>2 DEF OfctrlRunDone, tableVars, putVars, engineVars
  <2>. QED  BY <2>1, ReconciledFrame DEF Reconciled, FlowsFollow
<1>3. CASE ofctrl_seqno_update_create
  <2>1. /\ pc = "request" /\ pc' = "put"
        /\ UNCHANGED <<changed, outcome, state, tracked, proceed, skipped, installed, base, desired, force>>
    BY <1>3 DEF ofctrl_seqno_update_create, iterVars, tableVars, putVars, engineVars
  <2>. QED  BY <2>1, ReconciledFrame
<1>4. CASE \E ok \in BOOLEAN : Store(ok)
  <2>1. /\ pc \in {"ack", "store"} /\ pc' = "run" /\ outcome' = "stale" /\ ~ changed'
        /\ UNCHANGED <<state, tracked, proceed, skipped, installed, base, desired>>
    BY <1>4 DEF Store, tableVars, putVars
  <2>2. force => force'
    BY <1>4 DEF Store
  <2>. QED  BY <2>1, <2>2 DEF Reconciled, Unput
<1>5. CASE UNCHANGED vars
  <2>1. UNCHANGED <<pc, changed, outcome, state, tracked, proceed, skipped, installed, base, desired, force>>
    BY <1>5 DEF vars, iterVars, tableVars, putVars, engineVars
  <2>. QED  BY <2>1 DEF Reconciled, Unput
<1>. QED
  BY <1>1, <1>2, <1>3, <1>4, <1>5, ReconciledRun, ReconciledEngine, ReconciledPut DEF Next, Iteration

-----------------------------------------------------------------------------
(* The exchange with the switch *)

\* The exchange with the switch in each state of ofctrl.  It begins with every
\* connection, its questions are all answered before flows are sent, and a bundle
\* that clears the switch is the first.
Handshake ==
    /\ ~ connected \/ fresh => toSwitch = <<>> /\ toController = <<>>
    /\ pc # "run" /\ ~ backlog => connected /\ ~ fresh
    /\ connected /\ ~ fresh =>
        /\ state \in {"S_NEW", "S_WAIT_BEFORE_CLEAR", "S_CLEAR_FLOWS"} => toSwitch = <<>>
        /\ state = "S_NEW" => \A i \in DOMAIN toController : toController[i].type = "barrier"
        /\ state = "S_TLV_TABLE_REQUESTED" =>
            /\ Len(toSwitch) <= 1 /\ \A i \in DOMAIN toSwitch : toSwitch[i].type = "tlv_request"
            /\ \A i \in DOMAIN toController :
                toController[i].type # "barrier" => i = Len(toController) /\ toSwitch = <<>>
        /\ state = "S_TLV_TABLE_MOD_SENT" =>
            /\ Len(toSwitch) <= 1 /\ \A i \in DOMAIN toSwitch : toSwitch[i].type = "tlv_mod"
            /\ toSwitch # <<>> => toController = <<>>
            /\ \A i \in DOMAIN toController : toController[i].type # "barrier" => i = 1
        /\ state # "S_UPDATE_FLOWS" => NoneRefused
        /\ state = "S_UPDATE_FLOWS" =>
            /\ \A i \in DOMAIN toSwitch : toSwitch[i].type = "bundle"
            /\ initialClear => toSwitch = <<>>

\* The steps that neither send nor receive.
LEMMA HandshakeFrame ==
    ASSUME Handshake, UNCHANGED <<connected, fresh, toSwitch, toController, state, initialClear>>,
           pc' = "run" \/ backlog' \/ (pc # "run" /\ backlog' = backlog)
    PROVE  Handshake'
BY DEF Handshake, NoneRefused

\* The connection comes and goes, and ofctrl notices.
LEMMA HandshakeConnection ==
    ASSUME Handshake, OfctrlTypes, Connect \/ Disconnected \/ OfctrlReconnected,
           pc = "run", pc' = pc
    PROVE  Handshake'
<1>1. CASE Connect
  BY <1>1 DEF Connect, Handshake, channels
<1>2. CASE Disconnected
  BY <1>2 DEF Disconnected, Handshake
<1>3. CASE OfctrlReconnected
  BY <1>3, SMT, SMTT(60) DEF OfctrlReconnected, Handshake, NoneRefused, channels
<1>. QED  BY <1>1, <1>2, <1>3

\* What run_S_NEW and the functions after it send and wait for.
LEMMA HandshakeRun ==
    ASSUME Handshake, OfctrlTypes,
           run_S_NEW \/ run_S_WAIT_BEFORE_CLEAR \/ run_S_CLEAR_FLOWS
    PROVE  Handshake'
<1>1. /\ pc = "run" /\ pc' = "run" /\ connected /\ ~ fresh /\ UNCHANGED <<connected, fresh, toController>>
  BY DEF run_S_NEW, run_S_WAIT_BEFORE_CLEAR, run_S_CLEAR_FLOWS, Running, ofctrlFrame, connVars, channels
<1>2. CASE run_S_NEW
  <2>1. toSwitch = <<>> /\ state' = "S_TLV_TABLE_REQUESTED"
        /\ \A i \in DOMAIN toController : toController[i].type = "barrier"
    BY <1>1, <1>2 DEF run_S_NEW, Handshake
  <2>2. Len(toSwitch') = 1 /\ toSwitch'[1].type = "tlv_request" /\ DOMAIN toSwitch' = {1}
    BY <1>2, <2>1, SMT, SMTT(60) DEF run_S_NEW, Message
  <2>. QED  BY <1>1, <2>1, <2>2, SMT, SMTT(60) DEF Handshake, NoneRefused
<1>3. CASE run_S_WAIT_BEFORE_CLEAR
  BY <1>1, <1>3, SMT, SMTT(60) DEF run_S_WAIT_BEFORE_CLEAR, Handshake, NoneRefused, connVars, channels
<1>4. CASE run_S_CLEAR_FLOWS
  BY <1>1, <1>4, SMT, SMTT(60) DEF run_S_CLEAR_FLOWS, Handshake, connVars, channels
<1>. QED  BY <1>2, <1>3, <1>4

\* What the functions recv_ take from the switch.
LEMMA HandshakeReceive ==
    ASSUME Handshake, OfctrlTypes,
           recv_S_TLV_TABLE_REQUESTED \/ recv_S_TLV_TABLE_MOD_SENT \/ recv_barrier_reply \/ ofctrl_recv
    PROVE  Handshake'
<1>1. pc = "run" /\ pc' = "run" /\ connected /\ ~ fresh /\ toController # <<>>
  BY DEF recv_S_TLV_TABLE_REQUESTED, recv_S_TLV_TABLE_MOD_SENT, recv_barrier_reply, ofctrl_recv, Receive,
         Running, ofctrlFrame
<1>2. /\ Head(toController) = toController[1] /\ Len(toController) >= 1
      /\ DOMAIN Tail(toController) = 1..Len(toController) - 1
      /\ Len(Tail(toController)) = Len(toController) - 1
      /\ \A i \in 1..Len(toController) - 1 :
            Tail(toController)[i] = toController[i + 1] /\ i + 1 \in DOMAIN toController
      /\ 1 \in DOMAIN toController
  BY <1>1, SMT, SMTT(60) DEF OfctrlTypes
<1>3. CASE recv_S_TLV_TABLE_REQUESTED
  <2>1. Len(toController) = 1 /\ toSwitch = <<>> /\ UNCHANGED <<connected, fresh>>
    BY <1>1, <1>2, <1>3 DEF recv_S_TLV_TABLE_REQUESTED, Handshake
  <2>2. toController' = <<>>
    BY <1>1, <1>3, <2>1, SMT, SMTT(60) DEF recv_S_TLV_TABLE_REQUESTED, Received, OfctrlTypes
  <2>3. CASE state' = "S_WAIT_BEFORE_CLEAR" /\ UNCHANGED toSwitch
    BY <1>1, <2>1, <2>2, <2>3, SMT, SMTT(60) DEF Handshake, NoneRefused
  <2>4. CASE state' = "S_TLV_TABLE_MOD_SENT" /\ toSwitch' = Append(toSwitch, Message("tlv_mod", 0))
    <3>1. Len(toSwitch') = 1 /\ toSwitch'[1].type = "tlv_mod" /\ DOMAIN toSwitch' = {1}
      BY <2>1, <2>4, SMT, SMTT(60) DEF Message
    <3>. QED  BY <1>1, <2>1, <2>2, <2>4, <3>1, SMT, SMTT(60) DEF Handshake, NoneRefused
  <2>. QED  BY <1>3, <2>3, <2>4 DEF recv_S_TLV_TABLE_REQUESTED
<1>4. CASE recv_S_TLV_TABLE_MOD_SENT
  <2>1. /\ state = "S_TLV_TABLE_MOD_SENT" /\ state' \in {"S_WAIT_BEFORE_CLEAR", "S_NEW"}
        /\ toController' = Tail(toController) /\ UNCHANGED <<connected, fresh, toSwitch>>
    BY <1>4 DEF recv_S_TLV_TABLE_MOD_SENT, Received
  <2>2. toSwitch = <<>> /\ \A i \in DOMAIN toController' : toController'[i].type = "barrier"
    BY <1>1, <1>2, <2>1, SMT, SMTT(60) DEF Handshake
  <2>. QED  BY <1>1, <2>1, <2>2 DEF Handshake, NoneRefused
<1>5. CASE recv_barrier_reply
  <2>1. state = "S_UPDATE_FLOWS" /\ UNCHANGED <<connected, fresh, toSwitch, state, initialClear>>
    BY <1>5 DEF recv_barrier_reply
  <2>. QED  BY <1>1, <2>1 DEF Handshake
<1>6. CASE ofctrl_recv
  <2>1. CASE Disconnected
    BY <1>1, <2>1, HandshakeConnection
  <2>2. CASE /\ state \in {"S_TLV_TABLE_REQUESTED", "S_WAIT_BEFORE_CLEAR"} /\ Received
             /\ UNCHANGED <<connected, fresh, toSwitch, state>>
    <3>1. toController' = Tail(toController)
      BY <2>2 DEF Received
    <3>2. NoneRefused /\ NoneRefused'
      BY <1>1, <1>2, <2>2, <3>1, SMT, SMTT(60) DEF Handshake, NoneRefused
    <3>3. CASE state = "S_WAIT_BEFORE_CLEAR"
      BY <1>1, <2>2, <3>2, <3>3 DEF Handshake
    <3>4. CASE state = "S_TLV_TABLE_REQUESTED"
      <4>1. \A i \in DOMAIN toController' :
                toController'[i].type # "barrier" => i = Len(toController') /\ toSwitch = <<>>
        BY <1>1, <1>2, <3>1, <3>4, SMT, SMTT(60) DEF Handshake
      <4>. QED  BY <1>1, <2>2, <3>2, <3>4, <4>1 DEF Handshake
    <3>. QED  BY <2>2, <3>3, <3>4
  <2>. QED  BY <1>6, <2>1, <2>2 DEF ofctrl_recv
<1>. QED  BY <1>3, <1>4, <1>5, <1>6

\* The switch answers; only one exchange is open before flows are sent.
LEMMA HandshakeSwitch ==
    ASSUME Handshake, OfctrlTypes,
           (\E mapped \in BOOLEAN : SwitchTlv(mapped)) \/ SwitchApply \/ SwitchRefuse
    PROVE  Handshake'
<1>1. toSwitch # <<>> /\ pc = "run" /\ pc' = "run" /\ UNCHANGED <<connected, fresh, state, initialClear>>
      /\ toSwitch' = Tail(toSwitch)
  <2>1. ASSUME NEW messages, Reply(messages)
        PROVE  pc = "run" /\ pc' = "run" /\ UNCHANGED <<connected, fresh, state, initialClear>>
               /\ toSwitch' = Tail(toSwitch)
    BY <2>1 DEF Reply, putVars
  <2>. QED  BY <2>1 DEF SwitchTlv, SwitchApply, SwitchRefuse
<1>2. /\ Head(toSwitch) = toSwitch[1] /\ Len(toSwitch) >= 1 /\ 1 \in DOMAIN toSwitch
      /\ DOMAIN Tail(toSwitch) = 1..Len(toSwitch) - 1
      /\ \A i \in 1..Len(toSwitch) - 1 :
            Tail(toSwitch)[i] = toSwitch[i + 1] /\ i + 1 \in DOMAIN toSwitch
  BY <1>1, SMT, SMTT(60) DEF OfctrlTypes
<1>3. connected /\ ~ fresh
  BY <1>1 DEF Handshake
<1>4. CASE SwitchApply \/ SwitchRefuse
  <2>1. state = "S_UPDATE_FLOWS" /\ ~ initialClear
    BY <1>1, <1>2, <1>3, <1>4 DEF SwitchApply, SwitchRefuse, Handshake, OfctrlTypes
  <2>2. \A i \in DOMAIN toSwitch' : toSwitch'[i].type = "bundle"
    BY <1>1, <1>2, <1>3, <2>1 DEF Handshake
  <2>. QED  BY <1>1, <1>3, <2>1, <2>2 DEF Handshake
<1>5. ASSUME NEW mapped \in BOOLEAN, SwitchTlv(mapped)
      PROVE  Handshake'
  <2>1. Head(toSwitch).type \in {"tlv_request", "tlv_mod"}
    BY <1>5 DEF SwitchTlv
  <2>2. state \in {"S_TLV_TABLE_REQUESTED", "S_TLV_TABLE_MOD_SENT"}
    BY <1>1, <1>2, <1>3, <2>1 DEF Handshake, OfctrlTypes
  <2>3. toSwitch' = <<>>
    BY <1>1, <1>2, <1>3, <2>2, SMT, SMTT(60) DEF Handshake, OfctrlTypes
  <2>4. CASE state = "S_TLV_TABLE_REQUESTED"
    <3>0. Head(toSwitch).type = "tlv_request"
      BY <1>1, <1>2, <1>3, <2>4 DEF Handshake
    <3>1. PICK t \in {"tlv_mapped", "tlv_unmapped"} : toController' = toController \o <<Message(t, 0)>>
      BY <1>5, <3>0 DEF SwitchTlv, Reply
    <3>2. /\ Len(toController') = Len(toController) + 1
          /\ \A i \in DOMAIN toController' : i # Len(toController') =>
                i \in DOMAIN toController /\ toController'[i] = toController[i]
          /\ toController'[Len(toController')] = Message(t, 0)
      BY <3>1, SMT, SMTT(60) DEF OfctrlTypes
    <3>3. \A i \in DOMAIN toController : toController[i].type = "barrier"
      BY <1>1, <1>3, <2>4 DEF Handshake
    <3>4. \A i \in DOMAIN toController' :
            /\ toController'[i].type # "barrier" => i = Len(toController')
            /\ toController'[i].type # "error"
      BY <3>2, <3>3, SMT, SMTT(60) DEF Message
    <3>. QED  BY <1>1, <1>3, <2>3, <2>4, <3>4, SMT, SMTT(60) DEF Handshake, NoneRefused
  <2>5. CASE state = "S_TLV_TABLE_MOD_SENT"
    <3>1. toController = <<>> /\ Head(toSwitch).type = "tlv_mod"
      BY <1>1, <1>2, <1>3, <2>5 DEF Handshake
    <3>2. \A i \in DOMAIN toController' :
            \/ toController'[i] = Message("barrier", 0)
            \/ i = 1 /\ toController'[i] = Message("tlv_unmapped", 0)
      <4>1. CASE mapped
        BY <1>5, <3>1, <4>1, SMT, SMTT(60) DEF SwitchTlv, Reply
      <4>2. CASE ~ mapped
        <5>1. toController' = toController \o (<<Message("tlv_unmapped", 0)>> \o <<Message("barrier", 0)>>)
          BY <1>5, <3>1, <4>2 DEF SwitchTlv, Reply
        <5>2. Message("tlv_unmapped", 0) \in Answer /\ Message("barrier", 0) \in Answer
          BY DEF Message, Answer
        <5>. QED  BY <3>1, <5>1, <5>2, SMT, SMTT(60)
      <4>. QED  BY <4>1, <4>2
    <3>3. \A i \in DOMAIN toController' :
            /\ toController'[i].type # "barrier" => i = 1
            /\ toController'[i].type # "error"
      BY <3>2, SMT, SMTT(60) DEF Message
    <3>. QED  BY <1>1, <1>3, <2>3, <2>5, <3>3, SMT, SMTT(60) DEF Handshake, NoneRefused
  <2>. QED  BY <2>2, <2>4, <2>5
<1>. QED  BY <1>4, <1>5

\* Every step.
LEMMA HandshakeFollows ==
    ASSUME Handshake, OfctrlTypes, [Next]_vars
    PROVE  Handshake'
<1>1. CASE Northd \/ Deliver \/ DeliverCondition
  BY <1>1, HandshakeFrame DEF Northd, Deliver, DeliverCondition, putVars, connVars, channels
<1>2. CASE Connect \/ OfctrlReconnected
  <2>1. pc = "run" /\ pc' = pc
    BY <1>2 DEF Connect, OfctrlReconnected, ofctrlFrame
  <2>. QED  BY <1>2, <2>1, HandshakeConnection
<1>3. CASE Disconnect
  BY <1>3, HandshakeConnection DEF Disconnect
<1>4. CASE \E txn, b \in BOOLEAN : OfctrlRunDone(txn, b)
  <2>1. UNCHANGED <<connected, fresh, toSwitch, toController, state, initialClear>> /\ pc = "run" /\ ~ fresh
    BY <1>4 DEF OfctrlRunDone, putVars, connVars, channels
  <2>2. connected \/ backlog'
    BY <1>4 DEF OfctrlRunDone
  <2>. QED  BY <2>1, <2>2 DEF Handshake, NoneRefused
<1>5. CASE EngineSkipped \/ EngineCanceled \/ \E recompute \in BOOLEAN : EngineRun(recompute)
  BY <1>5, HandshakeFrame DEF EngineSkipped, EngineCanceled, EngineRun, engineFrame, putVars, connVars, channels
<1>6. CASE ofctrl_seqno_update_create
  BY <1>6, HandshakeFrame DEF ofctrl_seqno_update_create, iterVars, putVars, connVars, channels
<1>7. CASE PutNothing \/ PutUpToDate
  BY <1>7, HandshakeFrame DEF PutNothing, PutUpToDate, putFrame, iterVars
<1>8. CASE PutMessages
  <2>1. /\ pc = "put" /\ ~ backlog /\ state = "S_UPDATE_FLOWS" /\ ~ initialClear'
        /\ UNCHANGED <<connected, fresh, state, backlog>>
    BY <1>8 DEF PutMessages, CanPut, putFrame, iterVars
  <2>2. connected /\ ~ fresh /\ \A i \in DOMAIN toSwitch : toSwitch[i].type = "bundle"
    BY <2>1 DEF Handshake
  <2>3. \A i \in DOMAIN toSwitch' : toSwitch'[i].type = "bundle"
    <3>1. PICK b : b.type = "bundle" /\ toSwitch' = Append(toSwitch, b)
      BY <1>8 DEF PutMessages
    <3>2. toSwitch \in Seq(Request \cup Bundle)
      BY DEF OfctrlTypes
    <3>. QED  BY <2>2, <3>1, <3>2, SMT, SMTT(60)
  <2>. QED  BY <2>1, <2>2, <2>3 DEF Handshake
<1>9. CASE \E ok \in BOOLEAN : Store(ok)
  BY <1>9, HandshakeFrame DEF Store, putVars, connVars, channels
<1>10. CASE UNCHANGED vars
  BY <1>10 DEF vars, iterVars, putVars, connVars, channels, Handshake, NoneRefused
<1>. QED
  BY <1>1, <1>2, <1>3, <1>4, <1>5, <1>6, <1>7, <1>8, <1>9, <1>10, HandshakeRun, HandshakeReceive,
     HandshakeSwitch DEF Next, Environment, Faults, OfctrlRun, Iteration

-----------------------------------------------------------------------------
(* The bundles on their way *)

\* The steps that touch no table and no message.
LEMMA MatchesFrame ==
    ASSUME InstalledMatchesSwitch,
           UNCHANGED <<connected, fresh, state, initialClear, toSwitch, toController, installed, switch>>
    PROVE  InstalledMatchesSwitch'
BY DEF InstalledMatchesSwitch, NoneRefused

\* A bundle takes the switch to the table that the next one is made for.
LEMMA MatchesSwitch ==
    ASSUME InstalledMatchesSwitch, Handshake, OfctrlTypes,
           (\E mapped \in BOOLEAN : SwitchTlv(mapped)) \/ SwitchApply \/ SwitchRefuse
    PROVE  InstalledMatchesSwitch'
<1>1. ASSUME NEW messages, Reply(messages)
      PROVE  /\ UNCHANGED <<connected, fresh, state, initialClear, installed>>
             /\ toSwitch' = Tail(toSwitch) /\ toController' = toController \o messages
  BY <1>1 DEF Reply, putVars
<1>2. CASE \E mapped \in BOOLEAN : SwitchTlv(mapped)
  <2>1. toSwitch # <<>> /\ toSwitch[1].type # "bundle" /\ UNCHANGED state
    BY <1>1, <1>2, SMT, SMTT(60) DEF SwitchTlv, OfctrlTypes
  <2>2. state # "S_UPDATE_FLOWS"
    BY <2>1, SMT, SMTT(60) DEF Handshake, OfctrlTypes
  <2>. QED  BY <2>1, <2>2 DEF InstalledMatchesSwitch
<1>3. CASE SwitchRefuse
  <2>1. toController' = toController \o <<Message("error", 0), Message("barrier", Head(toSwitch).xid)>>
    BY <1>1, <1>3 DEF SwitchRefuse
  <2>2. /\ Len(toController) + 1 \in DOMAIN toController'
        /\ toController'[Len(toController) + 1] = Message("error", 0)
    BY <2>1, SMT, SMTT(60) DEF OfctrlTypes
  <2>. QED  BY <2>2, SMT, SMTT(60) DEF InstalledMatchesSwitch, NoneRefused, Message
<1>4. CASE SwitchApply
  <2>. DEFINE m == Head(toSwitch)
  <2>1. /\ UNCHANGED <<connected, fresh, state, initialClear, installed>>
        /\ toSwitch' = Tail(toSwitch) /\ toController' = toController \o <<Message("barrier", m.xid)>>
        /\ toSwitch # <<>> /\ switch' = IF m.clear THEN m.to ELSE Patch(switch, m.from, m.to)
    BY <1>1, <1>4 DEF SwitchApply
  <2>. SUFFICES ASSUME connected, ~ fresh, state = "S_UPDATE_FLOWS", ~ initialClear, NoneRefused'
                PROVE  InstalledMatchesSwitch'
    BY <2>1 DEF InstalledMatchesSwitch
  <2>2. NoneRefused
    <3>1. \A i \in DOMAIN toController : i \in DOMAIN toController' /\ toController'[i] = toController[i]
      BY <2>1, SMT, SMTT(60) DEF OfctrlTypes
    <3>. QED  BY <3>1 DEF NoneRefused
  <2>3. /\ m = toSwitch[1] /\ Len(toSwitch) >= 1 /\ 1 \in DOMAIN toSwitch
        /\ Len(toSwitch') = Len(toSwitch) - 1 /\ DOMAIN toSwitch' = 1..Len(toSwitch) - 1
        /\ \A i \in 1..Len(toSwitch) - 1 : toSwitch'[i] = toSwitch[i + 1] /\ i + 1 \in DOMAIN toSwitch
    BY <2>1, SMT, SMTT(60) DEF OfctrlTypes
  <2>4. switch' = toSwitch[1].to
    BY <2>1, <2>2, <2>3 DEF InstalledMatchesSwitch, Patch
  <2>5. installed' # Bad /\ installed' = toSwitch[Len(toSwitch)].to
    BY <2>1, <2>2 DEF InstalledMatchesSwitch
  <2>6. toSwitch' = <<>> <=> Len(toSwitch) = 1
    <3>1. toSwitch \in Seq(Request \cup Bundle)
      BY DEF OfctrlTypes
    <3>2. toSwitch' \in Seq(Request \cup Bundle)
      BY <2>1, <3>1, SMT, SMTT(60)
    <3>3. toSwitch' = <<>> <=> Len(toSwitch') = 0
      BY <3>2, SMT, SMTT(60)
    <3>. QED  BY <2>3, <3>1, <3>3, SMT, SMTT(60)
  <2>7. installed' = IF toSwitch' = <<>> THEN switch' ELSE toSwitch'[Len(toSwitch')].to
    BY <2>3, <2>4, <2>5, <2>6, SMT, SMTT(60) DEF OfctrlTypes
  <2>8. ASSUME NEW i \in DOMAIN toSwitch'
        PROVE  toSwitch'[i].from = IF i = 1 THEN switch' ELSE toSwitch'[i - 1].to
    <3>1. toSwitch'[i] = toSwitch[i + 1] /\ i + 1 \in DOMAIN toSwitch /\ i \in Nat /\ i >= 1
      BY <2>3, <2>8, SMT, SMTT(60) DEF OfctrlTypes
    <3>2. toSwitch[i + 1].from = toSwitch[i].to
      BY <2>2, <3>1, SMT, SMTT(60) DEF InstalledMatchesSwitch
    <3>3. i # 1 => toSwitch'[i - 1] = toSwitch[i]
      BY <2>3, <2>8, <3>1, SMT, SMTT(60) DEF OfctrlTypes
    <3>. QED  BY <2>4, <3>1, <3>2, <3>3
  <2>. QED  BY <2>5, <2>7, <2>8 DEF InstalledMatchesSwitch
<1>. QED  BY <1>2, <1>3, <1>4

\* A put sends the bundle that leads from what is installed to what is desired; the
\* first one of a connection clears the switch.
LEMMA MatchesPut ==
    ASSUME InstalledMatchesSwitch, Handshake, OfctrlTypes, Reconciled, FlowsFollow, PutMessages
    PROVE  InstalledMatchesSwitch'
<1>. DEFINE m == [type |-> "bundle", xid |-> xid', clear |-> initialClear, from |-> installed,
                  to |-> NewInstalled]
<1>1. /\ UNCHANGED <<connected, fresh, state, toController, switch>> /\ installed' = NewInstalled
      /\ toSwitch' = Append(toSwitch, m)
  BY DEF PutMessages, putFrame, switchVars
<1>2. NewInstalled # Bad
  BY PutInstalls
<1>3. /\ toSwitch' # <<>> /\ Len(toSwitch') = Len(toSwitch) + 1 /\ toSwitch'[Len(toSwitch) + 1] = m
      /\ DOMAIN toSwitch' = 1..Len(toSwitch) + 1
      /\ \A i \in 1..Len(toSwitch) : toSwitch'[i] = toSwitch[i] /\ i \in DOMAIN toSwitch
      /\ Len(toSwitch) \in Nat /\ (toSwitch = <<>> <=> Len(toSwitch) = 0)
  <2>. HIDE DEF m
  <2>. QED  BY <1>1, SMT, SMTT(60) DEF OfctrlTypes
<1>. SUFFICES ASSUME connected, ~ fresh, state = "S_UPDATE_FLOWS", NoneRefused
              PROVE  InstalledMatchesSwitch'
  BY <1>1 DEF InstalledMatchesSwitch, NoneRefused
<1>4. CASE initialClear
  <2>1. Len(toSwitch) = 0 /\ m.clear
    BY <1>3, <1>4 DEF Handshake
  <2>. QED  BY <1>1, <1>2, <1>3, <2>1, SMT, SMTT(60) DEF InstalledMatchesSwitch
<1>5. CASE ~ initialClear
  <2>1. installed = IF Len(toSwitch) = 0 THEN switch ELSE toSwitch[Len(toSwitch)].to
    BY <1>3, <1>5 DEF InstalledMatchesSwitch
  <2>2. ASSUME NEW i \in DOMAIN toSwitch'
        PROVE  \/ i = 1 /\ toSwitch'[i].clear
               \/ toSwitch'[i].from = IF i = 1 THEN switch' ELSE toSwitch'[i - 1].to
    <3>1. CASE i = Len(toSwitch) + 1
      BY <1>1, <1>3, <2>1, <3>1, SMT, SMTT(60)
    <3>2. CASE i \in 1..Len(toSwitch)
      BY <1>1, <1>3, <1>5, <3>2, SMT, SMTT(60) DEF InstalledMatchesSwitch
    <3>. QED  BY <1>3, <2>2, <3>1, <3>2, SMT, SMTT(60)
  <2>. QED  BY <1>1, <1>2, <1>3, <2>2, SMT, SMTT(60) DEF InstalledMatchesSwitch
<1>. QED  BY <1>4, <1>5

\* Every step.
LEMMA MatchesFollows ==
    ASSUME InstalledMatchesSwitch, Handshake, OfctrlTypes, Reconciled, FlowsFollow, [Next]_vars
    PROVE  InstalledMatchesSwitch'
<1>1. CASE Northd \/ Deliver \/ DeliverCondition
  BY <1>1, MatchesFrame DEF Northd, Deliver, DeliverCondition, putVars, connVars, channels, switchVars
<1>2. CASE Connect
  BY <1>2 DEF Connect, InstalledMatchesSwitch
<1>3. CASE Disconnect
  BY <1>3 DEF Disconnect, Disconnected, InstalledMatchesSwitch
<1>4. CASE OfctrlReconnected \/ run_S_NEW \/ run_S_WAIT_BEFORE_CLEAR \/ run_S_CLEAR_FLOWS
           \/ recv_S_TLV_TABLE_REQUESTED \/ recv_S_TLV_TABLE_MOD_SENT
  BY <1>4 DEF OfctrlReconnected, run_S_NEW, run_S_WAIT_BEFORE_CLEAR, run_S_CLEAR_FLOWS,
              recv_S_TLV_TABLE_REQUESTED, recv_S_TLV_TABLE_MOD_SENT, InstalledMatchesSwitch
<1>5. CASE recv_barrier_reply
  <2>1. /\ UNCHANGED <<connected, fresh, state, initialClear, toSwitch, installed, switch>>
        /\ toController' = Tail(toController) /\ toController # <<>> /\ Head(toController).type = "barrier"
    BY <1>5 DEF recv_barrier_reply, Receive, Received
  <2>2. NoneRefused' => NoneRefused
    <3>1. \A i \in DOMAIN toController : i = 1 \/ (i - 1 \in DOMAIN toController'
                                                   /\ toController'[i - 1] = toController[i])
      BY <2>1, SMT, SMTT(60) DEF OfctrlTypes
    <3>2. toController[1].type = "barrier"
      BY <2>1, SMT, SMTT(60) DEF OfctrlTypes
    <3>. QED  BY <3>1, <3>2 DEF NoneRefused
  <2>. QED  BY <2>1, <2>2 DEF InstalledMatchesSwitch
<1>6. CASE ofctrl_recv
  <2>1. CASE Disconnected
    BY <2>1 DEF Disconnected, InstalledMatchesSwitch
  <2>2. CASE state \in {"S_TLV_TABLE_REQUESTED", "S_WAIT_BEFORE_CLEAR"} /\ UNCHANGED state
    BY <2>2 DEF InstalledMatchesSwitch
  <2>. QED  BY <1>6, <2>1, <2>2 DEF ofctrl_recv
<1>7. CASE \E txn, b \in BOOLEAN : OfctrlRunDone(txn, b)
  BY <1>7, MatchesFrame DEF OfctrlRunDone, putVars, connVars, channels, switchVars
<1>8. CASE EngineSkipped \/ EngineCanceled \/ \E recompute \in BOOLEAN : EngineRun(recompute)
  BY <1>8, MatchesFrame DEF EngineSkipped, EngineCanceled, EngineRun, engineFrame, putVars, connVars, channels,
                            switchVars
<1>9. CASE ofctrl_seqno_update_create
  BY <1>9, MatchesFrame DEF ofctrl_seqno_update_create, putVars, connVars, channels, switchVars
<1>10. CASE PutNothing \/ PutUpToDate
  BY <1>10, MatchesFrame DEF PutNothing, PutUpToDate, putFrame, switchVars
<1>11. CASE \E ok \in BOOLEAN : Store(ok)
  BY <1>11, MatchesFrame DEF Store, putVars, connVars, channels, switchVars
<1>12. CASE UNCHANGED vars
  BY <1>12, MatchesFrame DEF vars, putVars, connVars, channels, switchVars
<1>. QED
  BY <1>1, <1>2, <1>3, <1>4, <1>5, <1>6, <1>7, <1>8, <1>9, <1>10, <1>11, <1>12, MatchesPut, MatchesSwitch
  DEF Next, Environment, Faults, OfctrlRun, Iteration

\* Initially.
LEMMA InstalledInvInit ==
    ASSUME Init
    PROVE  FlowsFollow /\ OfctrlTypes /\ Handshake /\ Reconciled /\ InstalledMatchesSwitch
<1>1. FlowsFollow
  BY DEF Init, FlowsFollow
<1>2. sb.flows \in Nat \ {0} /\ view.flows \in Nat \ {0}
  BY SMT, SMTT(60) DEF Init
<1>3. /\ toSwitch = <<>> /\ toController = <<>> /\ xid = 0 /\ installed = 0 /\ desired = 0 /\ switch = -1
      /\ initialClear \in BOOLEAN /\ state = "S_NEW"
  BY DEF Init, Empty, Bad
<1>4. OfctrlTypes
  BY <1>2, <1>3, SMT, SMTT(60) DEF OfctrlTypes
<1>5. Handshake /\ Reconciled /\ InstalledMatchesSwitch
  BY DEF Init, Handshake, Reconciled, InstalledMatchesSwitch
<1>. QED  BY <1>1, <1>4, <1>5

\* When ofctrl maintains flows, what it takes for installed is what the switch has or
\* will have, whatever is recomputed, tracked, put later, refused or lost.
THEOREM InstalledIsOnSwitch == Spec => []InstalledMatchesSwitch
<1>. DEFINE OInv == FlowsFollow /\ OfctrlTypes /\ Handshake /\ Reconciled /\ InstalledMatchesSwitch
<1>1. Init => OInv
  BY InstalledInvInit
<1>2. OInv /\ [Next]_vars => OInv'
  BY FlowsFollowNext, TypesFollow, HandshakeFollows, ReconciledFollows, MatchesFollows
<1>3. OInv => InstalledMatchesSwitch
  OBVIOUS
<1>. QED
  <2>. HIDE DEF OInv
  <2>. QED  BY <1>1, <1>2, <1>3, PTL DEF Spec

-----------------------------------------------------------------------------
(* The numbers that are reported *)

\* What each number stands for is in the database by the time it is, and the view
\* is behind in both or in none.
Contents ==
    /\ need \in [1..MaxCfg -> Nat] /\ sb.nb_cfg \in 1..MaxCfg
    /\ view \in [flows : Nat, nb_cfg : Nat \ {0}, full : BOOLEAN]
    /\ view.nb_cfg <= sb.nb_cfg /\ view.flows <= sb.flows
    /\ need[view.nb_cfg] <= view.flows /\ need[sb.nb_cfg] <= sb.flows

\* The numbers known to the process are numbers of its view.
Numbers ==
    /\ app \in [cur_cfg : Nat, req_cfg : Nat] /\ app.cur_cfg <= view.nb_cfg /\ nb_cfg = app.req_cfg
    /\ reported \in Nat /\ reported <= view.nb_cfg
    /\ updates \in Seq([flow_cfg : Nat, req_cfg : Nat \ {0}])
    /\ \A i \in DOMAIN updates : updates[i].req_cfg <= view.nb_cfg
    /\ flow_updates \in Seq([xid : Nat, req_cfg : Nat])
    /\ req_seqno \in Nat /\ cur_cfg \in Nat
    /\ best \in Nat /\ switch <= best /\ lost \in Nat

\* What a step makes of the view and of the numbers in it: the view does not go
\* back, and what a number stands for is settled once it is seen.
Onward ==
    /\ view.nb_cfg <= view'.nb_cfg /\ FlowsOf(view) <= FlowsOf(view')
    /\ \A n \in 1..view.nb_cfg : need'[n] = need[n] /\ n \in 1..MaxCfg

LEMMA ContentsFrame ==
    ASSUME Contents, UNCHANGED <<need, sb, view>>
    PROVE  Contents' /\ Onward
<1>1. Contents'
  BY DEF Contents
<1>2. FlowsOf(view) \in Int /\ view.nb_cfg \in Nat
  BY SMT, SMTT(60) DEF Contents, FlowsOf
<1>3. \A n \in 1..view.nb_cfg : n \in 1..MaxCfg
  BY BoundsAssumption, SMT, SMTT(60) DEF Contents
<1>4. FlowsOf(view) <= FlowsOf(view) /\ view.nb_cfg <= view.nb_cfg
  BY <1>2, SMT, SMTT(60)
<1>. QED  BY <1>1, <1>3, <1>4 DEF Onward, FlowsOf

\* Every step.
LEMMA ContentsFollow ==
    ASSUME Contents, OfctrlTypes, [Next]_vars
    PROVE  Contents' /\ Onward
<1>0. \A n \in 1..view.nb_cfg : n \in 1..MaxCfg
  BY BoundsAssumption, SMT, SMTT(60) DEF Contents
<1>1. CASE Northd
  <2>1. PICK f \in 0..1, n \in 0..1 :
            /\ sb.nb_cfg + n <= MaxCfg /\ sb' = [flows |-> sb.flows + f, nb_cfg |-> sb.nb_cfg + n]
    BY <1>1 DEF Northd
  <2>2. sb'.flows = sb.flows + f /\ sb'.nb_cfg = sb.nb_cfg + n
    BY <2>1
  <2>3. /\ need' = IF sb'.nb_cfg = sb.nb_cfg THEN need ELSE [need EXCEPT ![sb'.nb_cfg] = sb'.flows]
        /\ view' = view
    BY <1>1 DEF Northd, viewVars
  <2>4. sb'.nb_cfg \in 1..MaxCfg /\ sb'.flows \in Nat /\ sb.flows <= sb'.flows /\ sb.nb_cfg <= sb'.nb_cfg
    <3>1. sb.nb_cfg \in 1..MaxCfg /\ sb.flows \in Nat /\ MaxCfg \in Nat
      BY BoundsAssumption DEF Contents, OfctrlTypes
    <3>2. /\ sb.nb_cfg + n \in 1..MaxCfg /\ sb.flows + f \in Nat
          /\ sb.flows <= sb.flows + f /\ sb.nb_cfg <= sb.nb_cfg + n
      BY <2>1, <3>1, SMT, SMTT(60)
    <3>. QED  BY <2>2, <3>2
  <2>5. need' \in [1..MaxCfg -> Nat] /\ need'[sb'.nb_cfg] <= sb'.flows
    BY <2>3, <2>4, SMT, SMTT(60) DEF Contents, OfctrlTypes
  <2>6. \A k \in 1..view.nb_cfg : need'[k] = need[k]
    BY <1>0, <2>2, <2>3, <2>4, SMT, SMTT(60) DEF Contents
  <2>7. need'[view.nb_cfg] <= view.flows /\ view.nb_cfg <= sb'.nb_cfg /\ view.flows <= sb'.flows
    <3>1. view.nb_cfg \in 1..view.nb_cfg /\ need[view.nb_cfg] <= view.flows
      BY SMT, SMTT(60) DEF Contents
    <3>2. /\ view.nb_cfg \in Nat /\ sb.nb_cfg \in Nat /\ view.flows \in Nat /\ sb.flows \in Nat
          /\ view.nb_cfg <= sb.nb_cfg /\ view.flows <= sb.flows
      BY SMT, SMTT(60) DEF Contents, OfctrlTypes
    <3>3. sb'.nb_cfg \in Nat
      BY <2>4, SMT, SMTT(60)
    <3>. QED  BY <2>4, <2>6, <3>1, <3>2, <3>3, SMT, SMTT(60)
  <2>8. Contents'
    BY <2>3, <2>4, <2>5, <2>7 DEF Contents
  <2>9. FlowsOf(view) <= FlowsOf(view) /\ view.nb_cfg <= view.nb_cfg
    BY SMT, SMTT(60) DEF Contents, FlowsOf
  <2>. QED  BY <1>0, <2>3, <2>6, <2>8, <2>9 DEF Onward, FlowsOf
<1>2. CASE Deliver
  <2>1. UNCHANGED <<sb, need>>
    BY <1>2 DEF Deliver, dbVars
  <2>2. PICK full \in BOOLEAN : /\ full = view.full \/ view.flows # sb.flows
                                /\ view' = [flows |-> sb.flows, nb_cfg |-> sb.nb_cfg, full |-> full]
    BY <1>2 DEF Deliver, Contents
  <2>3. view'.flows = sb.flows /\ view'.nb_cfg = sb.nb_cfg /\ view'.full = full
    BY <2>2
  <2>4. Contents'
    BY <2>1, <2>2, <2>3, SMT, SMTT(60) DEF Contents, OfctrlTypes
  <2>5. FlowsOf(view) <= FlowsOf(view')
    BY <2>2, <2>3, SMT, SMTT(60) DEF Contents, FlowsOf, OfctrlTypes
  <2>6. view.nb_cfg <= view'.nb_cfg
    BY <2>3 DEF Contents
  <2>. QED  BY <1>0, <2>1, <2>4, <2>5, <2>6 DEF Onward
<1>3. CASE DeliverCondition
  <2>1. UNCHANGED <<sb, need>> /\ view' = [view EXCEPT !.full = view.full \/ cond = "sent"]
    BY <1>3 DEF DeliverCondition, dbVars
  <2>2. /\ view'.flows = view.flows /\ view'.nb_cfg = view.nb_cfg /\ (view.full => view'.full)
        /\ view' \in [flows : Nat, nb_cfg : Nat \ {0}, full : BOOLEAN]
    BY <2>1 DEF Contents
  <2>3. Contents'
    BY <2>1, <2>2 DEF Contents
  <2>4. FlowsOf(view) <= FlowsOf(view') /\ view.nb_cfg <= view'.nb_cfg
    BY <2>2, SMT, SMTT(60) DEF Contents, FlowsOf
  <2>. QED  BY <1>0, <2>1, <2>3, <2>4 DEF Onward
<1>4. CASE Connect \/ Disconnect \/ SwitchApply \/ SwitchRefuse \/ SwitchTlv(TRUE) \/ SwitchTlv(FALSE)
  <2>1. UNCHANGED <<need, sb, view>>
    BY <1>4 DEF Connect, Disconnect, SwitchApply, SwitchRefuse, SwitchTlv, Reply, dbVars, viewVars
  <2>. QED  BY <2>1, ContentsFrame
<1>5. CASE OfctrlRun
  <2>1. UNCHANGED <<need, sb, view>>
    BY <1>5 DEF OfctrlRun, OfctrlReconnected, run_S_NEW, run_S_WAIT_BEFORE_CLEAR, run_S_CLEAR_FLOWS,
          recv_S_TLV_TABLE_REQUESTED, recv_S_TLV_TABLE_MOD_SENT, recv_barrier_reply, ofctrl_recv,
          ofctrlFrame, dbVars, viewVars
  <2>. QED  BY <2>1, ContentsFrame
<1>6. CASE (\E txn, b \in BOOLEAN : OfctrlRunDone(txn, b)) \/ Iteration
  <2>1. UNCHANGED <<need, sb, view>>
    BY <1>6 DEF OfctrlRunDone, Iteration, EngineSkipped, EngineCanceled, EngineRun,
          ofctrl_seqno_update_create, PutNothing, PutMessages, PutUpToDate, Store, engineFrame, putFrame,
          dbVars, viewVars
  <2>. QED  BY <2>1, ContentsFrame
<1>7. CASE UNCHANGED vars
  <2>1. UNCHANGED <<need, sb, view>>
    BY <1>7 DEF vars, dbVars, viewVars
  <2>. QED  BY <2>1, ContentsFrame
<1>. QED  BY <1>1, <1>2, <1>3, <1>4, <1>5, <1>6, <1>7 DEF Next, Environment, Faults

\* The pending requests of ofctrl-seqno, and the updates that ofctrl tracks.
Pending == [flow_cfg : Nat, req_cfg : Nat \ {0}]
FlowUpdate == [xid : Nat, req_cfg : Nat]
Fewer == updates' \in Seq(Pending) /\ \A i \in DOMAIN updates' : \E k \in DOMAIN updates : updates'[i] = updates[k]

LEMMA UpdatesFewer ==
    ASSUME Numbers,
           \/ updates' = updates \/ updates' = <<>>
           \/ \E n \in 0..Len(updates) : updates' = SubSeq(updates, n + 1, Len(updates))
    PROVE  Fewer
<1>0. updates \in Seq(Pending)
  BY DEF Numbers, Pending
<1>1. CASE updates' = updates
  BY <1>0, <1>1 DEF Fewer
<1>2. CASE updates' = <<>>
  BY <1>2, SMT, SMTT(60) DEF Fewer
<1>3. ASSUME NEW n \in 0..Len(updates), updates' = SubSeq(updates, n + 1, Len(updates))
      PROVE  Fewer
  <2>1. updates' \in Seq(Pending)
    BY <1>0, <1>3, SMT, SMTT(60)
  <2>2. ASSUME NEW i \in DOMAIN updates'
        PROVE  n + i \in DOMAIN updates /\ updates'[i] = updates[n + i]
    <3>1. DOMAIN updates' = 1..Len(updates) - n
      BY <1>0, <1>3, SMT, SMTT(60)
    <3>2. i \in 1..Len(updates) - n /\ n \in Nat /\ Len(updates) \in Nat /\ DOMAIN updates = 1..Len(updates)
      BY <1>0, <1>3, <3>1, SMT, SMTT(60)
    <3>3. i + n \in DOMAIN updates
      BY <3>2, SMT, SMTT(60)
    <3>. QED  BY <1>0, <1>3, <3>2, <3>3, SMT, SMTT(60)
  <2>. QED  BY <2>1, <2>2 DEF Fewer
<1>. QED  BY <1>1, <1>2, <1>3

LEMMA NumbersFrame ==
    ASSUME Numbers, Contents, Contents', Onward, Fewer, UNCHANGED <<app, nb_cfg, reported>>,
           req_seqno' \in Nat, cur_cfg' \in Nat, flow_updates' \in Seq(FlowUpdate),
           best' \in Nat, switch' <= best', lost' \in Nat
    PROVE  Numbers'
<1>1. view.nb_cfg \in Nat /\ view'.nb_cfg \in Nat /\ view.nb_cfg <= view'.nb_cfg
  BY DEF Contents, Onward
<1>2. /\ app \in [cur_cfg : Nat, req_cfg : Nat] /\ app.cur_cfg <= view.nb_cfg
      /\ reported \in Nat /\ reported <= view.nb_cfg
  BY DEF Numbers
<1>3. app.cur_cfg <= view'.nb_cfg /\ reported <= view'.nb_cfg
  BY <1>1, <1>2, SMT, SMTT(60)
<1>4. ASSUME NEW i \in DOMAIN updates'
      PROVE  updates'[i].req_cfg <= view'.nb_cfg
  <2>1. PICK k \in DOMAIN updates : updates'[i] = updates[k]
    BY <1>4 DEF Fewer
  <2>2. updates[k].req_cfg \in Nat /\ updates[k].req_cfg <= view.nb_cfg
    <3>1. updates \in Seq(Pending) /\ updates[k].req_cfg <= view.nb_cfg
      BY DEF Numbers, Pending
    <3>2. updates[k] \in Pending
      BY <3>1, SMT, SMTT(60)
    <3>. QED  BY <3>1, <3>2 DEF Pending
  <2>. QED  BY <1>1, <2>1, <2>2, SMT, SMTT(60)
<1>. QED  BY <1>3, <1>4 DEF Numbers, Fewer, Pending, FlowUpdate

\* What a put makes of the updates on their way: the last one is for req_seqno, the
\* others were there before.
LEMMA TrackedFacts ==
    ASSUME Numbers, OfctrlTypes, PutMessages
    PROVE  /\ flow_updates' \in Seq(FlowUpdate) /\ flow_updates' # <<>>
           /\ flow_updates'[Len(flow_updates')] = [xid |-> xid', req_cfg |-> req_seqno]
           /\ \A j \in DOMAIN flow_updates' :
                \/ flow_updates'[j] = [xid |-> xid', req_cfg |-> req_seqno]
                \/ j \in DOMAIN flow_updates /\ flow_updates'[j] = flow_updates[j]
<1>. DEFINE f == [xid |-> xid', req_cfg |-> req_seqno]
<1>1. flow_updates \in Seq(FlowUpdate) /\ req_seqno \in Nat /\ xid' = xid + 1 /\ Tracked(req_seqno)
  BY DEF Numbers, FlowUpdate, PutMessages
<1>2. PICK kept \in 0..Len(flow_updates) : flow_updates' = Append(SubSeq(flow_updates, 1, kept), f)
  <2>1. PICK n \in 0..Len(flow_updates) :
            LET kept == IF n > 0 /\ flow_updates[n].req_cfg = req_seqno THEN n - 1 ELSE n
            IN  flow_updates' = Append(SubSeq(flow_updates, 1, kept), f)
    BY <1>1 DEF Tracked
  <2>2. (IF n > 0 /\ flow_updates[n].req_cfg = req_seqno THEN n - 1 ELSE n) \in 0..Len(flow_updates)
    BY <1>1, <2>1, SMT, SMTT(60)
  <2>. QED  BY <2>1, <2>2
<1>3. f \in FlowUpdate
  BY <1>1, SMT, SMTT(60) DEF FlowUpdate, OfctrlTypes
<1>. HIDE DEF f
<1>4. PICK front \in Seq(FlowUpdate) :
        /\ flow_updates' = Append(front, f)
        /\ \A j \in DOMAIN front : j \in DOMAIN flow_updates /\ front[j] = flow_updates[j]
  <2>1. SubSeq(flow_updates, 1, kept) \in Seq(FlowUpdate) /\ DOMAIN SubSeq(flow_updates, 1, kept) = 1..kept
    BY <1>1, <1>2, SMT, SMTT(60)
  <2>2. \A j \in 1..kept : j \in DOMAIN flow_updates /\ SubSeq(flow_updates, 1, kept)[j] = flow_updates[j]
    BY <1>1, <1>2, SMT, SMTT(60)
  <2>. QED  BY <1>2, <2>1, <2>2
<1>5. /\ flow_updates' \in Seq(FlowUpdate) /\ flow_updates' # <<>> /\ flow_updates'[Len(flow_updates')] = f
      /\ \A j \in DOMAIN flow_updates' : flow_updates'[j] = f \/ (j \in DOMAIN front /\ flow_updates'[j] = front[j])
  BY <1>3, <1>4, SMT, SMTT(60)
<1>. QED  BY <1>4, <1>5 DEF f

LEMMA UpToDateFacts ==
    ASSUME Numbers, PutUpToDate, flow_updates # <<>>
    PROVE  /\ flow_updates' \in Seq(FlowUpdate) /\ flow_updates' # <<>>
           /\ flow_updates'[Len(flow_updates')].xid = flow_updates[Len(flow_updates)].xid
           /\ \A j \in DOMAIN flow_updates' :
                \/ /\ flow_updates'[j].xid = flow_updates[Len(flow_updates)].xid
                   /\ flow_updates'[j].req_cfg = req_seqno
                \/ j \in DOMAIN flow_updates /\ flow_updates'[j] = flow_updates[j]
<1>. DEFINE n == Len(flow_updates)
<1>1. flow_updates \in Seq(FlowUpdate) /\ req_seqno \in Nat
  BY DEF Numbers, FlowUpdate
<1>2. flow_updates' = [flow_updates EXCEPT ![n].req_cfg = req_seqno]
  BY DEF PutUpToDate
<1>3. n \in DOMAIN flow_updates /\ flow_updates[n] \in FlowUpdate
  BY <1>1, SMT, SMTT(60)
<1>4. PICK f : f = [flow_updates[n] EXCEPT !.req_cfg = req_seqno] /\ flow_updates' = [flow_updates EXCEPT ![n] = f]
  BY <1>2
<1>5. f \in FlowUpdate /\ f.xid = flow_updates[n].xid /\ f.req_cfg = req_seqno
  BY <1>1, <1>3, <1>4 DEF FlowUpdate
<1>. HIDE DEF n
<1>6. /\ flow_updates' \in Seq(FlowUpdate) /\ Len(flow_updates') = Len(flow_updates)
      /\ flow_updates'[n] = f /\ DOMAIN flow_updates' = DOMAIN flow_updates
      /\ \A j \in DOMAIN flow_updates : j # n => flow_updates'[j] = flow_updates[j]
  BY <1>1, <1>3, <1>4, <1>5, SMT, SMTT(60)
<1>7. flow_updates' # <<>>
  BY <1>3, <1>6, SMT, SMTT(60)
<1>. QED  BY <1>5, <1>6, <1>7 DEF n

\* Every step.
LEMMA NumbersFollow ==
    ASSUME Numbers, Contents, Contents', Onward, OfctrlTypes, [Next]_vars
    PROVE  Numbers'
<1>0. /\ req_seqno \in Nat /\ cur_cfg \in Nat /\ flow_updates \in Seq(FlowUpdate)
      /\ best \in Nat /\ switch <= best /\ lost \in Nat
  BY DEF Numbers, FlowUpdate
<1>1. CASE Northd \/ Deliver \/ DeliverCondition \/ Connect
  <2>1. UNCHANGED <<app, nb_cfg, reported, updates, req_seqno, cur_cfg, flow_updates, best, switch, lost>>
    BY <1>1 DEF Northd, Deliver, DeliverCondition, Connect, dbVars, seqnoVars, putVars, switchVars, history
  <2>. QED  BY <1>0, <2>1, UpdatesFewer, NumbersFrame
<1>2. ASSUME Disconnected, UNCHANGED <<app, nb_cfg, reported, updates, req_seqno, cur_cfg, flow_updates, best>>
      PROVE  Numbers'
  <2>1. lost' \in Nat /\ switch' <= best'
    BY <1>0, <1>2, SMT, SMTT(60) DEF Disconnected, Bad
  <2>. QED  BY <1>0, <1>2, <2>1, UpdatesFewer, NumbersFrame
<1>3. CASE Disconnect
  BY <1>2, <1>3 DEF Disconnect, dbVars, seqnoVars, putVars
<1>4. ASSUME NEW messages, Reply(messages), best' \in Nat, switch' <= best'
      PROVE  Numbers'
  <2>1. UNCHANGED <<app, nb_cfg, reported, updates, req_seqno, cur_cfg, flow_updates, lost>>
    BY <1>4 DEF Reply, dbVars, seqnoVars, putVars, history
  <2>. QED  BY <1>0, <1>4, <2>1, UpdatesFewer, NumbersFrame
<1>5. CASE SwitchTlv(TRUE) \/ SwitchTlv(FALSE) \/ SwitchRefuse
  BY <1>0, <1>4, <1>5 DEF SwitchTlv, SwitchRefuse, switchVars
<1>6. CASE SwitchApply
  <2>1. Head(toSwitch) \in Bundle
    BY <1>6, SMT, SMTT(60) DEF SwitchApply, OfctrlTypes, Request, Bundle
  <2>2. switch' \in Int
    BY <1>6, <2>1, SMT, SMTT(60) DEF SwitchApply, OfctrlTypes, Bundle, Patch, Bad
  <2>3. best' = Larger(best, switch') /\ \E messages : Reply(messages)
    BY <1>6 DEF SwitchApply
  <2>4. best' \in Nat /\ switch' <= best'
    BY <1>0, <2>2, <2>3, SMT, SMTT(60) DEF Larger
  <2>. QED  BY <1>4, <2>3, <2>4
<1>7. CASE OfctrlReconnected \/ run_S_NEW \/ run_S_WAIT_BEFORE_CLEAR \/ recv_S_TLV_TABLE_REQUESTED
           \/ recv_S_TLV_TABLE_MOD_SENT
  <2>1. UNCHANGED <<app, nb_cfg, reported, updates, req_seqno, cur_cfg, flow_updates, best, switch, lost>>
    BY <1>7 DEF OfctrlReconnected, run_S_NEW, run_S_WAIT_BEFORE_CLEAR, recv_S_TLV_TABLE_REQUESTED,
          recv_S_TLV_TABLE_MOD_SENT, ofctrlFrame, dbVars, seqnoVars, putVars
  <2>. QED  BY <1>0, <2>1, UpdatesFewer, NumbersFrame
<1>8. CASE run_S_CLEAR_FLOWS
  <2>1. /\ UNCHANGED <<app, nb_cfg, reported, updates, req_seqno, cur_cfg, best, switch, lost>>
        /\ flow_updates' = <<>>
    BY <1>8 DEF run_S_CLEAR_FLOWS, ofctrlFrame, dbVars, seqnoVars
  <2>2. flow_updates' \in Seq(FlowUpdate)
    BY <2>1, SMT, SMTT(60)
  <2>. QED  BY <1>0, <2>1, <2>2, UpdatesFewer, NumbersFrame
<1>9. CASE recv_barrier_reply
  <2>1. UNCHANGED <<app, nb_cfg, reported, updates, req_seqno, best, switch, lost>>
    BY <1>9 DEF recv_barrier_reply, ofctrlFrame, dbVars, seqnoVars
  <2>2. cur_cfg' \in Nat /\ flow_updates' \in Seq(FlowUpdate)
    <3>1. \/ cur_cfg' = cur_cfg /\ flow_updates' = flow_updates
          \/ /\ flow_updates # <<>> /\ flow_updates' = Tail(flow_updates)
             /\ cur_cfg' = cur_cfg \/ cur_cfg' = Head(flow_updates).req_cfg
      BY <1>9 DEF recv_barrier_reply, Larger
    <3>2. flow_updates # <<>> => Head(flow_updates).req_cfg \in Nat /\ Tail(flow_updates) \in Seq(FlowUpdate)
      <4>1. flow_updates # <<>> => Head(flow_updates) \in FlowUpdate /\ Tail(flow_updates) \in Seq(FlowUpdate)
        BY <1>0, SMT, SMTT(60)
      <4>. QED  BY <4>1 DEF FlowUpdate
    <3>. QED  BY <1>0, <3>1, <3>2
  <2>. QED  BY <1>0, <2>1, <2>2, UpdatesFewer, NumbersFrame
<1>10. CASE ofctrl_recv
  <2>1. UNCHANGED <<app, nb_cfg, reported, updates, req_seqno, cur_cfg, flow_updates, best>>
    BY <1>10 DEF ofctrl_recv, ofctrlFrame, dbVars, seqnoVars, putVars
  <2>2. CASE UNCHANGED <<switch, lost>>
    BY <1>0, <2>1, <2>2, UpdatesFewer, NumbersFrame
  <2>. QED  BY <1>2, <1>10, <2>1, <2>2 DEF ofctrl_recv
<1>11. CASE (\E txn, b \in BOOLEAN : OfctrlRunDone(txn, b)) \/ EngineSkipped
  <2>1. UNCHANGED <<app, nb_cfg, reported, updates, req_seqno, cur_cfg, flow_updates, best, switch, lost>>
    BY <1>11 DEF OfctrlRunDone, EngineSkipped, engineFrame, dbVars, seqnoVars, putVars, switchVars, history
  <2>. QED  BY <1>0, <2>1, UpdatesFewer, NumbersFrame
<1>12. CASE EngineCanceled \/ \E recompute \in BOOLEAN : EngineRun(recompute)
  <2>1. UNCHANGED <<app, nb_cfg, reported, cur_cfg, flow_updates, best, switch, lost>>
    BY <1>12 DEF EngineCanceled, EngineRun, engineFrame, dbVars, putVars, switchVars, history
  <2>2. (updates' = updates \/ updates' = <<>>) /\ (req_seqno' = req_seqno \/ req_seqno' = 0)
    BY <1>12 DEF EngineCanceled, EngineRun, IsConnectedRun
  <2>3. req_seqno' \in Nat
    BY <1>0, <2>2, SMT, SMTT(60)
  <2>. QED  BY <1>0, <2>1, <2>2, <2>3, UpdatesFewer, NumbersFrame
<1>13. CASE ofctrl_seqno_update_create
  <2>1. UNCHANGED <<reported, view, cur_cfg, flow_updates, best, switch, lost>> /\ nb_cfg' = get_nb_cfg
    BY <1>13 DEF ofctrl_seqno_update_create, dbVars, viewVars, putVars, switchVars
  <2>2. CASE SameRequest(nb_cfg')
    <3>1. UNCHANGED <<app, req_seqno, updates>> /\ nb_cfg' = nb_cfg
      BY <1>13, <2>2 DEF ofctrl_seqno_update_create, SameRequest, Numbers
    <3>. QED  BY <1>0, <2>1, <3>1, UpdatesFewer, NumbersFrame
  <2>3. CASE ~ SameRequest(nb_cfg')
    <3>1. nb_cfg' = view.nb_cfg /\ view.nb_cfg \in Nat \ {0}
      BY <2>1, <2>3 DEF SameRequest, Numbers, get_nb_cfg, Contents
    <3>2. /\ app' = [app EXCEPT !.req_cfg = nb_cfg'] /\ req_seqno' = req_seqno + 1
          /\ updates' = Append(updates, [flow_cfg |-> req_seqno', req_cfg |-> nb_cfg'])
      BY <1>13, <2>3 DEF ofctrl_seqno_update_create
    <3>3. app' \in [cur_cfg : Nat, req_cfg : Nat] /\ app'.cur_cfg = app.cur_cfg /\ app'.req_cfg = nb_cfg'
      BY <3>1, <3>2 DEF Numbers
    <3>4. req_seqno' \in Nat
      BY <1>0, <3>2, SMT, SMTT(60)
    <3>5. PICK u \in Pending : u.req_cfg = view.nb_cfg /\ updates' = Append(updates, u)
      BY <3>1, <3>2, <3>4 DEF Pending
    <3>6. updates \in Seq(Pending) /\ \A i \in DOMAIN updates : updates[i].req_cfg <= view.nb_cfg
      BY DEF Numbers, Pending
    <3>7. updates' \in Seq(Pending) /\ \A i \in DOMAIN updates' : updates'[i].req_cfg <= view.nb_cfg
      <4>1. view.nb_cfg <= view.nb_cfg
        BY <3>1, SMT, SMTT(60)
      <4>2. \A i \in DOMAIN updates' : updates'[i] = u \/ (i \in DOMAIN updates /\ updates'[i] = updates[i])
        BY <3>5, <3>6, SMT, SMTT(60)
      <4>3. updates' \in Seq(Pending)
        BY <3>5, <3>6, SMT, SMTT(60)
      <4>. QED  BY <3>5, <3>6, <4>1, <4>2, <4>3
    <3>. QED  BY <1>0, <2>1, <3>3, <3>4, <3>7 DEF Numbers, Pending
  <2>. QED  BY <2>2, <2>3
<1>14. CASE PutNothing \/ PutUpToDate
  <2>1. UNCHANGED <<app, nb_cfg, reported, updates, req_seqno, best, switch, lost>>
    BY <1>14 DEF PutNothing, PutUpToDate, putFrame, dbVars, seqnoVars, switchVars, history
  <2>2. cur_cfg' \in Nat
    <3>1. cur_cfg' = cur_cfg \/ cur_cfg' = req_seqno
      BY <1>14 DEF PutNothing, PutUpToDate
    <3>. QED  BY <1>0, <3>1
  <2>3. flow_updates' \in Seq(FlowUpdate)
    <3>1. CASE flow_updates' = flow_updates
      BY <1>0, <3>1
    <3>2. CASE PutUpToDate /\ flow_updates # <<>>
      BY <3>2, UpToDateFacts
    <3>. QED  BY <1>14, <3>1, <3>2 DEF PutNothing, PutUpToDate
  <2>. QED  BY <1>0, <2>1, <2>2, <2>3, UpdatesFewer, NumbersFrame
<1>15. CASE PutMessages
  <2>1. UNCHANGED <<app, nb_cfg, reported, updates, req_seqno, cur_cfg, best, switch, lost>>
        /\ Tracked(req_seqno) /\ xid' = xid + 1
    BY <1>15 DEF PutMessages, putFrame, dbVars, seqnoVars, switchVars, history
  <2>2. flow_updates' \in Seq(FlowUpdate)
    BY <1>15, TrackedFacts
  <2>. QED  BY <1>0, <2>1, <2>2, UpdatesFewer, NumbersFrame
<1>16. ASSUME NEW ok \in BOOLEAN, Store(ok)
       PROVE  Numbers'
  <2>1. UNCHANGED <<nb_cfg, view, cur_cfg, flow_updates, best, switch, lost>>
    BY <1>16 DEF Store, putVars, switchVars, history
  <2>2. PICK n \in 0..Len(updates) :
            /\ app' = IF n = 0 THEN app ELSE [app EXCEPT !.cur_cfg = updates[n].req_cfg]
            /\ updates' = <<>> \/ updates' = SubSeq(updates, n + 1, Len(updates))
            /\ req_seqno' = req_seqno \/ req_seqno' = 0
    BY <1>16 DEF Store, engine_need_run, IsConnectedRun
  <2>3. Fewer /\ req_seqno' \in Nat
    <3>1. req_seqno' \in Nat
      BY <1>0, <2>2, SMT, SMTT(60)
    <3>. QED  BY <2>2, <3>1, UpdatesFewer
  <2>4. /\ app' \in [cur_cfg : Nat, req_cfg : Nat] /\ app'.cur_cfg <= view.nb_cfg /\ app'.req_cfg = app.req_cfg
    <3>1. CASE n = 0
      BY <2>2, <3>1 DEF Numbers
    <3>2. CASE n # 0
      <4>1. updates[n].req_cfg \in Nat /\ updates[n].req_cfg <= view.nb_cfg
        <5>1. updates \in Seq(Pending)
          BY DEF Numbers, Pending
        <5>2. n \in DOMAIN updates
          BY <2>2, <3>2, <5>1, SMT, SMTT(60)
        <5>3. updates[n] \in Pending
          BY <5>1, <5>2, SMT, SMTT(60)
        <5>. QED  BY <5>2, <5>3 DEF Numbers, Pending
      <4>. QED  BY <2>2, <3>2, <4>1 DEF Numbers
    <3>. QED  BY <3>1, <3>2
  <2>5. reported' \in Nat /\ reported' <= view.nb_cfg
    <3>1. reported' = app'.cur_cfg \/ reported' = reported
      BY <1>16 DEF Store
    <3>. QED  BY <2>4, <3>1 DEF Numbers
  <2>6. \A i \in DOMAIN updates' : updates'[i].req_cfg <= view.nb_cfg
    BY <2>3 DEF Fewer, Numbers
  <2>. QED  BY <1>0, <2>1, <2>3, <2>4, <2>5, <2>6 DEF Numbers, Fewer, Pending
<1>17. CASE UNCHANGED vars
  <2>1. UNCHANGED <<app, nb_cfg, reported, updates, req_seqno, cur_cfg, flow_updates, best, switch, lost>>
    BY <1>17 DEF vars, dbVars, seqnoVars, putVars, switchVars, history
  <2>. QED  BY <1>0, <2>1, UpdatesFewer, NumbersFrame
<1>. QED
  BY <1>1, <1>3, <1>5, <1>6, <1>7, <1>8, <1>9, <1>10, <1>11, <1>12, <1>13, <1>14, <1>15, <1>16, <1>17
  DEF Next, Environment, Faults, OfctrlRun, Iteration

-----------------------------------------------------------------------------
(* Bundles and their answers *)

\* Bundles and answers keep their order: what is on its way to the switch is newer
\* than what comes from it, and an error comes before the answer to the newest.
Order ==
    /\ \A l \in DOMAIN toSwitch : toSwitch[l].type = "bundle" =>
        /\ 1 <= toSwitch[l].xid /\ toSwitch[l].xid <= xid
        /\ \A m \in DOMAIN toSwitch :
            toSwitch[m].type = "bundle" /\ l < m => toSwitch[l].xid < toSwitch[m].xid
        /\ \A k \in DOMAIN toController : toController[k].xid < toSwitch[l].xid
    /\ \A k \in DOMAIN toController : toController[k].xid <= xid
    /\ \A e \in DOMAIN toController : toController[e].type = "error" =>
        \A k \in DOMAIN toController : k < e => toController[k].xid < xid

LEMMA OrderFrame ==
    ASSUME Order, UNCHANGED <<toSwitch, toController, xid>>
    PROVE  Order'
BY DEF Order

LEMMA OrderLost ==
    ASSUME Disconnected
    PROVE  Order'
BY SMT, SMTT(60) DEF Order, Disconnected

\* The types of a message at a place of a channel.
LEMMA MessageTypes ==
    ASSUME OfctrlTypes
    PROVE  /\ \A l \in DOMAIN toSwitch : toSwitch[l].xid \in Nat /\ l \in Nat
           /\ \A l \in DOMAIN toSwitch : toSwitch[l].type = "bundle" => toSwitch[l] \in Bundle
           /\ \A k \in DOMAIN toController : toController[k] \in Answer /\ toController[k].xid \in Nat /\ k \in Nat
<1>1. toSwitch \in Seq(Request \cup Bundle) /\ toController \in Seq(Answer)
  BY DEF OfctrlTypes
<1>2. \A l \in DOMAIN toSwitch : toSwitch[l] \in Request \cup Bundle /\ l \in Nat
  BY <1>1, SMT, SMTT(60)
<1>3. \A k \in DOMAIN toController : toController[k] \in Answer /\ k \in Nat
  BY <1>1, SMT, SMTT(60)
<1>4. ASSUME NEW m \in Request \cup Bundle
      PROVE  m.xid \in Nat /\ (m.type = "bundle" => m \in Bundle)
  BY <1>4, SMT, SMTT(60) DEF Request, Bundle
<1>5. ASSUME NEW m \in Answer
      PROVE  m.xid \in Nat
  BY <1>5 DEF Answer
<1>. QED  BY <1>2, <1>3, <1>4, <1>5

LEMMA AnswerFacts ==
    ASSUME NEW n \in Nat, NEW t \in {"tlv_mapped", "tlv_unmapped", "barrier", "error"}
    PROVE  Message(t, n) \in Answer /\ Message(t, n).xid = n /\ Message(t, n).type = t
BY DEF Message, Answer

\* What is sent and taken before flows are maintained, and the answers taken later.
LEMMA OrderExchange ==
    ASSUME Order, OfctrlTypes, xid' = xid,
           toSwitch' = toSwitch \/ \E m \in Request : toSwitch' = Append(toSwitch, m),
           toController' = toController \/ (toController # <<>> /\ Received)
    PROVE  Order'
<1>1. \A l \in DOMAIN toSwitch' : toSwitch'[l].type = "bundle" =>
        l \in DOMAIN toSwitch /\ toSwitch'[l] = toSwitch[l] /\ toSwitch[l].type = "bundle"
  <2>1. CASE toSwitch' = toSwitch
    BY <2>1
  <2>2. ASSUME NEW m \in Request, toSwitch' = Append(toSwitch, m)
        PROVE  \A l \in DOMAIN toSwitch' : toSwitch'[l].type = "bundle" =>
                    l \in DOMAIN toSwitch /\ toSwitch'[l] = toSwitch[l] /\ toSwitch[l].type = "bundle"
    <3>1. toSwitch \in Seq(Request \cup Bundle) /\ m.type # "bundle" /\ m \in Request \cup Bundle
      BY DEF OfctrlTypes, Request
    <3>2. \A l \in DOMAIN toSwitch' :
            (l \in DOMAIN toSwitch /\ toSwitch'[l] = toSwitch[l]) \/ toSwitch'[l] = m
      BY <2>2, <3>1, SMT, SMTT(60)
    <3>. QED  BY <3>1, <3>2
  <2>. QED  BY <2>1, <2>2
<1>2. PICK d \in 0..1 : \A k \in DOMAIN toController' :
        k \in Nat /\ k + d \in DOMAIN toController /\ toController'[k] = toController[k + d]
  <2>1. CASE toController' = toController
    <3>1. \A k \in DOMAIN toController' : k \in Nat /\ k + 0 \in DOMAIN toController /\ toController'[k] = toController[k + 0]
      BY <2>1, MessageTypes, SMT, SMTT(60)
    <3>2. 0 \in 0..1
      BY SMT, SMTT(60)
    <3>. QED  BY <3>1, <3>2
  <2>2. CASE toController # <<>> /\ Received
    <3>1. \A k \in DOMAIN toController' : k \in Nat /\ k + 1 \in DOMAIN toController /\ toController'[k] = toController[k + 1]
      BY <2>2, SMT, SMTT(60) DEF Received, OfctrlTypes
    <3>2. 1 \in 0..1
      BY SMT, SMTT(60)
    <3>. QED  BY <3>1, <3>2
  <2>. QED  BY <2>1, <2>2
<1>3. \A k, e \in DOMAIN toController' : k < e => k + d < e + d
  BY <1>2, SMT, SMTT(60)
<1>4. \A l \in DOMAIN toSwitch' : toSwitch'[l].type = "bundle" =>
        /\ 1 <= toSwitch'[l].xid /\ toSwitch'[l].xid <= xid
        /\ \A m \in DOMAIN toSwitch' :
            toSwitch'[m].type = "bundle" /\ l < m => toSwitch'[l].xid < toSwitch'[m].xid
        /\ \A k \in DOMAIN toController' : toController'[k].xid < toSwitch'[l].xid
  BY <1>1, <1>2 DEF Order
<1>5. \A e \in DOMAIN toController' : toController'[e].type = "error" =>
        \A k \in DOMAIN toController' : k < e => toController'[k].xid < xid
  BY <1>2, <1>3 DEF Order
<1>6. \A k \in DOMAIN toController' : toController'[k].xid <= xid
  BY <1>2 DEF Order
<1>. QED  BY <1>4, <1>5, <1>6 DEF Order

\* The switch answers the first message on its way.
LEMMA OrderReply ==
    ASSUME Order, OfctrlTypes, toSwitch # <<>>, NEW messages \in Seq(Answer), Reply(messages),
           \A k \in DOMAIN messages : \/ messages[k].xid = 0
                                      \/ toSwitch[1].type = "bundle" /\ messages[k].xid = toSwitch[1].xid,
           \A e \in DOMAIN messages : messages[e].type = "error" => e = 1 /\ toSwitch[1].type = "bundle"
    PROVE  Order'
<1>1. xid' = xid /\ toSwitch' = Tail(toSwitch) /\ toController' = toController \o messages
  BY DEF Reply
<1>2. \A l \in DOMAIN toSwitch' : l \in Nat /\ l + 1 \in DOMAIN toSwitch /\ toSwitch'[l] = toSwitch[l + 1] /\ 1 < l + 1
  BY <1>1, SMT, SMTT(60) DEF OfctrlTypes
<1>3. 1 \in DOMAIN toSwitch
  BY SMT, SMTT(60) DEF OfctrlTypes
<1>4. ASSUME NEW k \in DOMAIN toController'
      PROVE  \/ k \in DOMAIN toController /\ toController'[k] = toController[k]
             \/ k - Len(toController) \in DOMAIN messages /\ toController'[k] = messages[k - Len(toController)]
  BY <1>1, <1>4, SMT, SMTT(60) DEF OfctrlTypes
<1>5. \A l, m \in DOMAIN toSwitch' : l < m => l + 1 < m + 1
  BY <1>2, SMT, SMTT(60)
<1>6. ASSUME NEW l \in DOMAIN toSwitch', toSwitch'[l].type = "bundle"
      PROVE  /\ 1 <= toSwitch'[l].xid /\ toSwitch'[l].xid <= xid
             /\ \A m \in DOMAIN toSwitch' :
                    toSwitch'[m].type = "bundle" /\ l < m => toSwitch'[l].xid < toSwitch'[m].xid
             /\ \A k \in DOMAIN toController' : toController'[k].xid < toSwitch'[l].xid
  <2>1. /\ l + 1 \in DOMAIN toSwitch /\ toSwitch'[l] = toSwitch[l + 1] /\ 1 < l + 1
        /\ toSwitch[l + 1].type = "bundle"
    BY <1>2, <1>6
  <2>2. 1 <= toSwitch'[l].xid /\ toSwitch'[l].xid <= xid
    BY <2>1 DEF Order
  <2>3. \A m \in DOMAIN toSwitch' :
            toSwitch'[m].type = "bundle" /\ l < m => toSwitch'[l].xid < toSwitch'[m].xid
    BY <1>2, <1>5, <2>1 DEF Order
  <2>4. toSwitch[1].type = "bundle" => toSwitch[1].xid < toSwitch'[l].xid
    BY <1>3, <2>1 DEF Order
  <2>5. 0 < toSwitch'[l].xid
    BY <2>1, <2>2, MessageTypes, SMT, SMTT(60)
  <2>6. \A k \in DOMAIN toController : toController[k].xid < toSwitch'[l].xid
    BY <2>1 DEF Order
  <2>7. \A k \in DOMAIN toController' : toController'[k].xid < toSwitch'[l].xid
    <3>1. \A k \in DOMAIN messages : messages[k].xid < toSwitch'[l].xid
      BY <2>4, <2>5
    <3>. QED  BY <1>4, <2>6, <3>1
  <2>. QED  BY <2>2, <2>3, <2>7
<1>7. toSwitch[1].type = "bundle" => toSwitch[1].xid <= xid
  BY <1>3 DEF Order
<1>8. 0 <= xid
  BY SMT, SMTT(60) DEF OfctrlTypes
<1>9. \A k \in DOMAIN toController' : toController'[k].xid <= xid
  BY <1>4, <1>7, <1>8 DEF Order
<1>10. ASSUME NEW e \in DOMAIN toController', toController'[e].type = "error",
              NEW k \in DOMAIN toController', k < e
       PROVE  toController'[k].xid < xid
  <2>0. toController \in Seq(Answer)
    BY DEF OfctrlTypes
  <2>1. CASE e \in DOMAIN toController /\ toController'[e] = toController[e]
    <3>1. k \in DOMAIN toController /\ toController'[k] = toController[k]
      BY <1>1, <1>10, <2>0, <2>1, SMT, SMTT(60)
    <3>. QED  BY <1>10, <2>1, <3>1 DEF Order
  <2>2. CASE e - Len(toController) \in DOMAIN messages /\ toController'[e] = messages[e - Len(toController)]
    <3>1. e - Len(toController) = 1 /\ toSwitch[1].type = "bundle"
      BY <1>10, <2>2
    <3>2. k \in DOMAIN toController /\ toController'[k] = toController[k]
      BY <1>1, <1>10, <2>0, <3>1, SMT, SMTT(60)
    <3>3. toController[k].xid < toSwitch[1].xid /\ toSwitch[1].xid <= xid
      BY <1>3, <3>1, <3>2 DEF Order
    <3>4. toController[k].xid \in Nat /\ toSwitch[1].xid \in Nat /\ xid \in Nat
      BY <1>3, <3>2, MessageTypes DEF OfctrlTypes
    <3>. QED  BY <3>2, <3>3, <3>4, SMT, SMTT(60)
  <2>. QED  BY <1>4, <1>10, <2>1, <2>2
<1>. QED  BY <1>1, <1>6, <1>9, <1>10 DEF Order

\* A bundle is sent.
LEMMA OrderPut ==
    ASSUME Order, OfctrlTypes, PutMessages
    PROVE  Order'
<1>1. PICK b : b.type = "bundle" /\ b.xid = xid' /\ toSwitch' = Append(toSwitch, b)
  BY DEF PutMessages
<1>2. xid' = xid + 1 /\ toController' = toController /\ xid \in Nat
  BY DEF PutMessages, putFrame, OfctrlTypes
<1>3. toSwitch \in Seq(Request \cup Bundle)
  BY DEF OfctrlTypes
<1>4. /\ \A l \in DOMAIN toSwitch' : \/ l \in DOMAIN toSwitch /\ toSwitch'[l] = toSwitch[l]
                                     \/ l = Len(toSwitch) + 1 /\ toSwitch'[l] = b
      /\ \A l \in DOMAIN toSwitch' : l \in 1..Len(toSwitch) + 1
      /\ Len(toSwitch) \in Nat
  BY <1>1, <1>3, SMT, SMTT(60)
<1>5. \A n \in Nat : n <= xid => n <= xid' /\ n < xid'
  BY <1>2, SMT, SMTT(60)
<1>6. \A n \in Nat : n < xid => n < xid'
  BY <1>2, SMT, SMTT(60)
<1>7. 1 <= xid' /\ xid' <= xid'
  BY <1>2, SMT, SMTT(60)
<1>8. \A l \in DOMAIN toSwitch' : ~ (Len(toSwitch) + 1 < l)
  BY <1>4, SMT, SMTT(60)
<1>9. ASSUME NEW l \in DOMAIN toSwitch', toSwitch'[l].type = "bundle"
      PROVE  /\ 1 <= toSwitch'[l].xid /\ toSwitch'[l].xid <= xid'
             /\ \A m \in DOMAIN toSwitch' :
                    toSwitch'[m].type = "bundle" /\ l < m => toSwitch'[l].xid < toSwitch'[m].xid
             /\ \A k \in DOMAIN toController : toController[k].xid < toSwitch'[l].xid
  <2>1. CASE l \in DOMAIN toSwitch /\ toSwitch'[l] = toSwitch[l]
    <3>1. 1 <= toSwitch[l].xid /\ toSwitch[l].xid <= xid /\ toSwitch[l].xid \in Nat
      BY <1>9, <2>1, MessageTypes DEF Order
    <3>2. toSwitch[l].xid <= xid' /\ toSwitch[l].xid < xid'
      BY <1>5, <3>1
    <3>. QED  BY <1>1, <1>4, <1>9, <2>1, <3>1, <3>2 DEF Order
  <2>2. CASE l = Len(toSwitch) + 1 /\ toSwitch'[l] = b
    BY <1>1, <1>5, <1>7, <1>8, <2>2, MessageTypes DEF Order
  <2>. QED  BY <1>4, <2>1, <2>2
<1>. QED  BY <1>2, <1>5, <1>6, <1>9, MessageTypes DEF Order

\* Every step.
LEMMA OrderFollows ==
    ASSUME Order, OfctrlTypes, [Next]_vars
    PROVE  Order'
<1>1. CASE Northd \/ Deliver \/ DeliverCondition \/ Connect \/ OfctrlReconnected \/ run_S_WAIT_BEFORE_CLEAR
           \/ run_S_CLEAR_FLOWS
  BY <1>1, OrderFrame DEF Northd, Deliver, DeliverCondition, Connect, OfctrlReconnected,
        run_S_WAIT_BEFORE_CLEAR, run_S_CLEAR_FLOWS, connVars, channels
<1>2. CASE (\E txn, b \in BOOLEAN : OfctrlRunDone(txn, b)) \/ EngineSkipped \/ EngineCanceled
           \/ \E recompute \in BOOLEAN : EngineRun(recompute)
  BY <1>2, OrderFrame DEF OfctrlRunDone, EngineSkipped, EngineCanceled, EngineRun, engineFrame,
        connVars, channels
<1>3. CASE ofctrl_seqno_update_create \/ PutNothing \/ PutUpToDate \/ \E ok \in BOOLEAN : Store(ok)
  BY <1>3, OrderFrame DEF ofctrl_seqno_update_create, PutNothing, PutUpToDate, Store, putFrame,
        connVars, channels
<1>4. CASE Disconnect
  BY <1>4, OrderLost DEF Disconnect
<1>5. CASE run_S_NEW
  <2>1. Message("tlv_request", 0) \in Request
    BY DEF Message, Request
  <2>2. toController' = toController /\ xid' = xid /\ toSwitch' = Append(toSwitch, Message("tlv_request", 0))
    BY <1>5 DEF run_S_NEW
  <2>. QED  BY <2>1, <2>2, OrderExchange
<1>6. CASE recv_S_TLV_TABLE_REQUESTED
  <2>1. Message("tlv_mod", 0) \in Request
    BY DEF Message, Request
  <2>2. /\ toController # <<>> /\ Received /\ xid' = xid
        /\ toSwitch' = toSwitch \/ toSwitch' = Append(toSwitch, Message("tlv_mod", 0))
    BY <1>6 DEF recv_S_TLV_TABLE_REQUESTED, Receive
  <2>. QED  BY <2>1, <2>2, OrderExchange
<1>7. CASE recv_S_TLV_TABLE_MOD_SENT \/ recv_barrier_reply
  <2>1. toController # <<>> /\ Received /\ xid' = xid /\ toSwitch' = toSwitch
    BY <1>7 DEF recv_S_TLV_TABLE_MOD_SENT, recv_barrier_reply, Receive
  <2>. QED  BY <2>1, OrderExchange
<1>8. CASE ofctrl_recv
  <2>1. Disconnected \/ (toController # <<>> /\ Received /\ xid' = xid /\ toSwitch' = toSwitch)
    BY <1>8 DEF ofctrl_recv, Receive
  <2>. QED  BY <2>1, OrderExchange, OrderLost
<1>9. ASSUME NEW mapped \in BOOLEAN, SwitchTlv(mapped)
      PROVE  Order'
  <2>1. \A t \in {"tlv_mapped", "tlv_unmapped", "barrier"} :
            Message(t, 0) \in Answer /\ Message(t, 0).xid = 0 /\ Message(t, 0).type # "error"
    BY DEF Message, Answer
  <2>2. \A t, u \in {"tlv_mapped", "tlv_unmapped", "barrier"} :
            /\ <<Message(t, 0)>> \in Seq(Answer) /\ <<Message(t, 0)>> \o <<Message(u, 0)>> \in Seq(Answer)
            /\ \A k \in DOMAIN <<Message(t, 0)>> : <<Message(t, 0)>>[k] = Message(t, 0)
            /\ \A k \in DOMAIN (<<Message(t, 0)>> \o <<Message(u, 0)>>) :
                (<<Message(t, 0)>> \o <<Message(u, 0)>>)[k] \in {Message(t, 0), Message(u, 0)}
    BY <2>1, SMT, SMTT(60)
  <2>3. PICK messages \in Seq(Answer) :
            /\ Reply(messages)
            /\ \A k \in DOMAIN messages : messages[k].xid = 0 /\ messages[k].type # "error"
    BY <1>9, <2>1, <2>2 DEF SwitchTlv
  <2>4. toSwitch # <<>>
    BY <1>9 DEF SwitchTlv
  <2>. QED  BY <2>3, <2>4, OrderReply
<1>10. CASE SwitchApply
  <2>1. toSwitch # <<>> /\ Head(toSwitch).type = "bundle" /\ Reply(<<Message("barrier", Head(toSwitch).xid)>>)
    BY <1>10 DEF SwitchApply
  <2>2. Head(toSwitch) = toSwitch[1] /\ 1 \in DOMAIN toSwitch
    BY <2>1, SMT, SMTT(60) DEF OfctrlTypes
  <2>3. toSwitch[1].type = "bundle" /\ toSwitch[1].xid \in Nat
    BY <2>1, <2>2, MessageTypes
  <2>4. PICK m \in Answer : m = Message("barrier", toSwitch[1].xid) /\ m.xid = toSwitch[1].xid /\ m.type = "barrier"
    BY <2>3, AnswerFacts
  <2>5. /\ <<m>> \in Seq(Answer) /\ Reply(<<m>>)
        /\ \A k \in DOMAIN <<m>> : <<m>>[k] = m
    BY <2>1, <2>2, <2>4, SMT, SMTT(60)
  <2>6. m.type # "error"
    BY <2>4
  <2>7. PICK messages \in Seq(Answer) : Reply(messages) /\ \A k \in DOMAIN messages : messages[k] = m
    BY <2>5
  <2>. QED  BY <2>1, <2>3, <2>4, <2>6, <2>7, OrderReply
<1>11. CASE SwitchRefuse
  <2>1. /\ toSwitch # <<>> /\ Head(toSwitch).type = "bundle"
        /\ Reply(<<Message("error", 0), Message("barrier", Head(toSwitch).xid)>>)
    BY <1>11 DEF SwitchRefuse
  <2>2. Head(toSwitch) = toSwitch[1] /\ 1 \in DOMAIN toSwitch
    BY <2>1, SMT, SMTT(60) DEF OfctrlTypes
  <2>3. toSwitch[1].type = "bundle" /\ toSwitch[1].xid \in Nat
    BY <2>1, <2>2, MessageTypes
  <2>4. PICK m \in Answer : m = Message("barrier", toSwitch[1].xid) /\ m.xid = toSwitch[1].xid /\ m.type = "barrier"
    BY <2>3, AnswerFacts
  <2>5. PICK r \in Answer : r = Message("error", 0) /\ r.xid = 0
    <3>1. 0 \in Nat
      OBVIOUS
    <3>. QED  BY <3>1, AnswerFacts
  <2>6. PICK messages : messages = <<r, m>> /\ Reply(messages)
    BY <2>1, <2>2, <2>4, <2>5
  <2>7. /\ messages \in Seq(Answer)
        /\ \A k \in DOMAIN messages : (k = 1 /\ messages[k] = r) \/ messages[k] = m
    BY <2>6, SMT, SMTT(60)
  <2>8. m.type # "error"
    BY <2>4
  <2>. QED  BY <2>1, <2>3, <2>4, <2>5, <2>6, <2>7, <2>8, OrderReply
<1>12. CASE UNCHANGED vars
  BY <1>12, OrderFrame DEF vars, connVars, channels
<1>. QED
  BY <1>1, <1>2, <1>3, <1>4, <1>5, <1>6, <1>7, <1>8, <1>9, <1>10, <1>11, <1>12, OrderPut
  DEF Next, Environment, Faults, OfctrlRun, Iteration

-----------------------------------------------------------------------------
(* The first connection *)

\* Until flows are maintained, a put was skipped or the first recompute is due.
PutDue ==
    state # "S_UPDATE_FLOWS" =>
        skipped \/ (force /\ outcome # "done") \/ (changed /\ pc \in {"request", "put"})

LEMMA PutDueFollows ==
    ASSUME PutDue, FlowsFollow, Reconciled, [Next]_vars
    PROVE  PutDue'
<1>1. CASE Northd \/ Deliver \/ DeliverCondition \/ Connect \/ Disconnect
  <2>1. UNCHANGED <<state, skipped, force, outcome, changed, pc>>
    BY <1>1 DEF Northd, Deliver, DeliverCondition, Connect, Disconnect, iterVars, engineVars, putVars
  <2>. QED  BY <2>1 DEF PutDue
<1>2. CASE SwitchTlv(TRUE) \/ SwitchTlv(FALSE) \/ SwitchApply \/ SwitchRefuse \/ UNCHANGED vars
  <2>1. UNCHANGED <<state, skipped, force, outcome, changed, pc>>
    BY <1>2 DEF SwitchTlv, SwitchApply, SwitchRefuse, Reply, vars, iterVars, engineVars, putVars
  <2>. QED  BY <2>1 DEF PutDue
<1>3. CASE OfctrlReconnected
  <2>1. force' /\ outcome' = "stale"
    BY <1>3 DEF OfctrlReconnected, ofctrlFrame, iterVars, FlowsFollow
  <2>. QED  BY <2>1 DEF PutDue
<1>4. CASE OfctrlRun /\ ~ OfctrlReconnected
  <2>1. UNCHANGED <<skipped, force, outcome, changed, pc>>
    BY <1>4 DEF OfctrlRun, run_S_NEW, run_S_WAIT_BEFORE_CLEAR, run_S_CLEAR_FLOWS, recv_S_TLV_TABLE_REQUESTED,
          recv_S_TLV_TABLE_MOD_SENT, recv_barrier_reply, ofctrl_recv, ofctrlFrame, iterVars, putVars
  <2>2. state' # "S_UPDATE_FLOWS" => state # "S_UPDATE_FLOWS"
    BY <1>4 DEF OfctrlRun, run_S_NEW, run_S_WAIT_BEFORE_CLEAR, run_S_CLEAR_FLOWS, recv_S_TLV_TABLE_REQUESTED,
          recv_S_TLV_TABLE_MOD_SENT, recv_barrier_reply, ofctrl_recv
  <2>. QED  BY <2>1, <2>2 DEF PutDue
<1>5. CASE \E txn, b \in BOOLEAN : OfctrlRunDone(txn, b)
  <2>1. UNCHANGED <<state, skipped, force, outcome, changed>> /\ pc = "run"
    BY <1>5 DEF OfctrlRunDone, engineVars, putVars
  <2>. QED  BY <2>1 DEF PutDue
<1>6. CASE EngineSkipped \/ EngineCanceled
  <2>1. /\ UNCHANGED <<state, skipped>> /\ pc = "engine"
        /\ \/ UNCHANGED <<force, outcome>>
           \/ force' /\ outcome' = "canceled"
    BY <1>6 DEF EngineSkipped, EngineCanceled, engineFrame, engineVars, putVars
  <2>. QED  BY <2>1 DEF PutDue
<1>7. ASSUME NEW recompute \in BOOLEAN, EngineRun(recompute)
      PROVE  PutDue'
  <2>1. UNCHANGED <<state, skipped>> /\ pc = "engine" /\ pc' = "request" /\ (force => changed')
    BY <1>7 DEF EngineRun, engineFrame, putVars
  <2>. QED  BY <2>1 DEF PutDue
<1>8. CASE ofctrl_seqno_update_create
  <2>1. UNCHANGED <<state, skipped, force, outcome, changed>> /\ pc' = "put"
    BY <1>8 DEF ofctrl_seqno_update_create, iterVars, engineVars, putVars
  <2>. QED  BY <2>1 DEF PutDue
<1>9. CASE PutNothing
  <2>1. UNCHANGED <<state, force, outcome, changed>> /\ pc = "put"
    BY <1>9 DEF PutNothing, putFrame, iterVars, engineVars
  <2>2. \/ skipped'
        \/ outcome # "done" /\ skipped' = skipped
        \/ ~ changed /\ skipped' = skipped
    BY <1>9 DEF PutNothing, NeedPut
  <2>. QED  BY <2>1, <2>2 DEF PutDue, Reconciled
<1>10. CASE PutMessages \/ PutUpToDate
  <2>1. state = "S_UPDATE_FLOWS" /\ state' = state
    BY <1>10 DEF PutMessages, PutUpToDate, CanPut, putFrame
  <2>. QED  BY <2>1 DEF PutDue
<1>11. CASE \E ok \in BOOLEAN : Store(ok)
  <2>1. UNCHANGED <<state, skipped>> /\ pc \in {"ack", "store"} /\ outcome' = "stale" /\ (force => force')
    BY <1>11 DEF Store, putVars
  <2>. QED  BY <2>1 DEF PutDue
<1>. QED
  BY <1>1, <1>2, <1>3, <1>4, <1>5, <1>6, <1>7, <1>8, <1>9, <1>10, <1>11 DEF Next, Environment, Faults, Iteration

\* While no connection has been lost, the one that ofctrl and the engine know of is there.
Linked ==
    lost = 0 =>
        /\ ofConnected => connected
        /\ state # "S_NEW" => connected /\ ~ fresh

\* A connection that ends is counted.
LEMMA LostGrows ==
    ASSUME lost \in Nat, Disconnected
    PROVE  lost' # 0
BY SMT, SMTT(60) DEF Disconnected

LEMMA LinkedFollows ==
    ASSUME Linked, Numbers, [Next]_vars
    PROVE  Linked'
<1>0. lost \in Nat
  BY DEF Numbers
<1>1. CASE Northd \/ Deliver \/ DeliverCondition
  <2>1. UNCHANGED <<lost, ofConnected, connected, fresh, state>>
    BY <1>1 DEF Northd, Deliver, DeliverCondition, engineVars, connVars, history
  <2>. QED  BY <2>1 DEF Linked
<1>2. CASE Connect
  <2>1. ~ connected /\ connected' /\ UNCHANGED <<lost, ofConnected, state>>
    BY <1>2 DEF Connect, engineVars, history
  <2>. QED  BY <2>1 DEF Linked
<1>3. CASE Disconnect
  BY <1>0, <1>3, LostGrows DEF Disconnect, Linked
<1>4. CASE SwitchTlv(TRUE) \/ SwitchTlv(FALSE) \/ SwitchApply \/ SwitchRefuse \/ UNCHANGED vars
  <2>1. UNCHANGED <<lost, ofConnected, connected, fresh, state>>
    BY <1>4 DEF SwitchTlv, SwitchApply, SwitchRefuse, Reply, vars, engineVars, connVars, history
  <2>. QED  BY <2>1 DEF Linked
<1>5. CASE OfctrlReconnected
  <2>1. UNCHANGED <<lost, ofConnected, connected>> /\ state' = "S_NEW"
    BY <1>5 DEF OfctrlReconnected, ofctrlFrame
  <2>. QED  BY <2>1 DEF Linked
<1>6. CASE run_S_NEW \/ run_S_WAIT_BEFORE_CLEAR \/ run_S_CLEAR_FLOWS \/ recv_S_TLV_TABLE_REQUESTED
           \/ recv_S_TLV_TABLE_MOD_SENT \/ recv_barrier_reply
  <2>1. UNCHANGED <<lost, ofConnected, connected, fresh>> /\ connected /\ ~ fresh
    BY <1>6 DEF run_S_NEW, run_S_WAIT_BEFORE_CLEAR, run_S_CLEAR_FLOWS, recv_S_TLV_TABLE_REQUESTED,
          recv_S_TLV_TABLE_MOD_SENT, recv_barrier_reply, Receive, Running, ofctrlFrame, connVars
  <2>. QED  BY <2>1 DEF Linked
<1>7. CASE ofctrl_recv
  <2>1. Disconnected \/ UNCHANGED <<lost, ofConnected, connected, fresh, state>>
    BY <1>7 DEF ofctrl_recv, ofctrlFrame
  <2>. QED  BY <1>0, <2>1, LostGrows DEF Linked
<1>8. CASE (\E txn, b \in BOOLEAN : OfctrlRunDone(txn, b)) \/ EngineSkipped \/ EngineCanceled
           \/ \E recompute \in BOOLEAN : EngineRun(recompute)
  <2>1. UNCHANGED <<lost, connected, fresh, state>>
    BY <1>8 DEF OfctrlRunDone, EngineSkipped, EngineCanceled, EngineRun, engineFrame, connVars, history
  <2>2. ofConnected' = ofConnected \/ ofConnected' = connected
    BY <1>8 DEF OfctrlRunDone, EngineSkipped, EngineCanceled, EngineRun, IsConnectedRun, engineVars
  <2>. QED  BY <2>1, <2>2 DEF Linked
<1>9. CASE ofctrl_seqno_update_create \/ PutNothing \/ PutMessages \/ PutUpToDate
  <2>1. UNCHANGED <<lost, ofConnected, connected, fresh, state>>
    BY <1>9 DEF ofctrl_seqno_update_create, PutNothing, PutMessages, PutUpToDate, putFrame, engineVars,
          connVars, history
  <2>. QED  BY <2>1 DEF Linked
<1>10. CASE \E ok \in BOOLEAN : Store(ok)
  <2>1. UNCHANGED <<lost, connected, fresh, state>>
    BY <1>10 DEF Store, connVars, history
  <2>2. ofConnected' = ofConnected \/ ofConnected' = connected
    BY <1>10 DEF Store, engine_need_run, IsConnectedRun
  <2>. QED  BY <2>1, <2>2 DEF Linked
<1>. QED
  BY <1>1, <1>2, <1>3, <1>4, <1>5, <1>6, <1>7, <1>8, <1>9, <1>10 DEF Next, Environment, Faults, OfctrlRun, Iteration

NoBundle == NoneRefused /\ \A l \in DOMAIN toSwitch : toSwitch[l].type # "bundle"

\* The updates on their way end with the last bundle, so that none on its way means
\* no bundle, and no error, on its way either.
Tracking ==
    lost = 0 =>
        /\ state # "S_UPDATE_FLOWS" => flow_updates = <<>>
        /\ cur_cfg <= req_seqno
        /\ \A j \in DOMAIN flow_updates : flow_updates[j].req_cfg <= req_seqno
        /\ flow_updates # <<>> => flow_updates[Len(flow_updates)].xid = xid
        /\ flow_updates = <<>> => NoBundle

BeforeFlows == state # "S_UPDATE_FLOWS"

LEMMA NoBundleYet == Handshake /\ OfctrlTypes /\ BeforeFlows => NoBundle
<1>. SUFFICES ASSUME Handshake, OfctrlTypes, state # "S_UPDATE_FLOWS" PROVE NoBundle
  BY DEF BeforeFlows
<1>1. CASE ~ connected \/ fresh
  <2>1. toSwitch = <<>> /\ toController = <<>>
    BY <1>1 DEF Handshake
  <2>. QED  BY <2>1, SMT, SMTT(60) DEF NoBundle, NoneRefused
<1>2. CASE connected /\ ~ fresh
  <2>1. NoneRefused
    BY <1>2 DEF Handshake
  <2>2. toSwitch = <<>> \/ \A l \in DOMAIN toSwitch : toSwitch[l].type \in {"tlv_request", "tlv_mod"}
    BY <1>2 DEF Handshake, OfctrlTypes
  <2>. QED  BY <2>1, <2>2, SMT, SMTT(60) DEF NoBundle
<1>. QED  BY <1>1, <1>2

\* The steps that leave requests, updates and messages alone.
LEMMA TrackingFrame ==
    ASSUME Tracking, UNCHANGED <<lost, state, flow_updates, cur_cfg, req_seqno, xid, toSwitch, toController>>
    PROVE  Tracking'
BY DEF Tracking, NoBundle, NoneRefused

\* The steps before flows are maintained.
LEMMA TrackingBefore ==
    ASSUME Tracking, Handshake', OfctrlTypes', state # "S_UPDATE_FLOWS", state' # "S_UPDATE_FLOWS",
           UNCHANGED <<lost, flow_updates, cur_cfg, req_seqno>>
    PROVE  Tracking'
<1>1. NoBundle'
  <2>1. BeforeFlows'
    BY DEF BeforeFlows
  <2>. QED  BY <2>1, NoBundleYet, PTL
<1>2. lost = 0 => flow_updates' = <<>> /\ cur_cfg <= req_seqno
  BY DEF Tracking
<1>3. lost = 0 => DOMAIN flow_updates' = {}
  BY <1>2, SMT, SMTT(60)
<1>. QED  BY <1>1, <1>2, <1>3 DEF Tracking

\* The first bundle on its way is answered, well or not: it is tracked.
LEMMA TrackingReply ==
    ASSUME Tracking, OfctrlTypes, NEW messages, Reply(messages), toSwitch # <<>>, Head(toSwitch).type = "bundle"
    PROVE  Tracking'
<1>1. toSwitch[1].type = "bundle" /\ 1 \in DOMAIN toSwitch
  BY SMT, SMTT(60) DEF OfctrlTypes
<1>2. UNCHANGED <<lost, state, flow_updates, cur_cfg, req_seqno, xid>>
  BY DEF Reply, putVars, seqnoVars, history
<1>3. lost = 0 => flow_updates # <<>>
  BY <1>1 DEF Tracking, NoBundle
<1>. QED  BY <1>2, <1>3 DEF Tracking

\* The answer to a barrier: the one to the last bundle has no error behind it.
LEMMA TrackingReceive ==
    ASSUME Tracking, Numbers, Order, OfctrlTypes, recv_barrier_reply
    PROVE  Tracking'
<1>. SUFFICES ASSUME lost = 0 PROVE Tracking'
  BY DEF Tracking, recv_barrier_reply
<1>1. /\ toController # <<>> /\ Received /\ state = "S_UPDATE_FLOWS"
      /\ UNCHANGED <<lost, state, req_seqno, xid, toSwitch>>
  BY DEF recv_barrier_reply, Receive, ofctrlFrame, seqnoVars
<1>2. /\ 1 \in DOMAIN toController /\ Head(toController) = toController[1]
      /\ \A k \in DOMAIN toController' :
            /\ k \in Nat /\ k + 1 \in DOMAIN toController /\ toController'[k] = toController[k + 1]
            /\ 1 < k + 1
  BY <1>1, SMT, SMTT(60) DEF Received, OfctrlTypes
<1>3. NoBundle => NoBundle'
  BY <1>1, <1>2 DEF NoBundle, NoneRefused
<1>4. /\ flow_updates \in Seq(FlowUpdate) /\ cur_cfg <= req_seqno /\ cur_cfg \in Nat /\ req_seqno \in Nat
      /\ \A j \in DOMAIN flow_updates : flow_updates[j].req_cfg <= req_seqno
      /\ flow_updates # <<>> => flow_updates[Len(flow_updates)].xid = xid
  BY DEF Numbers, Tracking, FlowUpdate
<1>5. CASE UNCHANGED <<cur_cfg, flow_updates>>
  BY <1>1, <1>3, <1>5 DEF Tracking
<1>6. CASE /\ flow_updates # <<>> /\ Head(flow_updates).xid = Head(toController).xid
           /\ cur_cfg' = Larger(cur_cfg, Head(flow_updates).req_cfg)
           /\ flow_updates' = Tail(flow_updates)
  <2>1. /\ Head(flow_updates) = flow_updates[1] /\ 1 \in DOMAIN flow_updates
        /\ \A j \in DOMAIN flow_updates' :
            j \in Nat /\ j + 1 \in DOMAIN flow_updates /\ flow_updates'[j] = flow_updates[j + 1]
        /\ Len(flow_updates') = Len(flow_updates) - 1
        /\ flow_updates' # <<>> => flow_updates'[Len(flow_updates')] = flow_updates[Len(flow_updates)]
        /\ flow_updates' = <<>> => Len(flow_updates) = 1
    <3>. DEFINE n == Len(flow_updates)
    <3>1. flow_updates' \in Seq(FlowUpdate) /\ n \in Nat /\ DOMAIN flow_updates = 1..n
      BY <1>4, <1>6, SMT, SMTT(60)
    <3>2. /\ n >= 1 /\ Len(flow_updates') = n - 1 /\ DOMAIN flow_updates' = 1..n - 1
          /\ \A j \in 1..n - 1 : flow_updates'[j] = flow_updates[j + 1]
          /\ Head(flow_updates) = flow_updates[1]
      BY <1>4, <1>6, SMT, SMTT(60)
    <3>3. flow_updates' = <<>> <=> n = 1
      BY <3>1, <3>2, SMT, SMTT(60)
    <3>4. n # 1 => flow_updates'[n - 1] = flow_updates[n]
      BY <3>1, <3>2, SMT, SMTT(60)
    <3>. HIDE DEF n
    <3>5. 1 \in 1..n /\ \A j \in 1..n - 1 : j \in Nat /\ j + 1 \in 1..n
      BY <3>1, <3>2, SMT, SMTT(60)
    <3>. QED  BY <3>1, <3>2, <3>3, <3>4, <3>5 DEF n
  <2>2. cur_cfg' <= req_seqno
    <3>1. flow_updates[1].req_cfg <= req_seqno
      BY <1>4, <2>1
    <3>. QED  BY <1>4, <1>6, <2>1, <3>1 DEF Larger
  <2>3. \A j \in DOMAIN flow_updates' : flow_updates'[j].req_cfg <= req_seqno
    BY <1>4, <2>1
  <2>4. ASSUME flow_updates' = <<>>
        PROVE  NoBundle
    <3>1. toController[1].xid = xid
      BY <1>2, <1>4, <1>6, <2>1, <2>4
    <3>2. xid \in Nat
      BY DEF OfctrlTypes
    <3>3. ASSUME NEW l \in DOMAIN toSwitch, toSwitch[l].type = "bundle"
          PROVE  FALSE
      <4>1. xid < toSwitch[l].xid /\ toSwitch[l].xid <= xid /\ toSwitch[l].xid \in Nat
        BY <1>2, <3>1, <3>3, MessageTypes DEF Order
      <4>. QED  BY <3>2, <4>1, SMT, SMTT(60)
    <3>4. ASSUME NEW e \in DOMAIN toController, toController[e].type = "error"
          PROVE  FALSE
      <4>1. toController[1].type = "barrier"
        BY <1>2 DEF recv_barrier_reply
      <4>2. e # 1 /\ e \in Nat
        BY <3>4, <4>1, MessageTypes
      <4>3. 1 < e
        BY <3>4, <4>2, SMT, SMTT(60) DEF OfctrlTypes
      <4>4. xid < xid
        BY <1>2, <3>1, <3>4, <4>3 DEF Order
      <4>. QED  BY <3>2, <4>4, SMT, SMTT(60)
    <3>. QED  BY <3>3, <3>4 DEF NoBundle, NoneRefused
  <2>. QED  BY <1>1, <1>3, <1>4, <1>6, <2>1, <2>2, <2>3, <2>4 DEF Tracking
<1>. QED  BY <1>5, <1>6 DEF recv_barrier_reply

\* A put, or none.
LEMMA TrackingPut ==
    ASSUME Tracking, Numbers, OfctrlTypes, PutNothing \/ PutMessages \/ PutUpToDate
    PROVE  Tracking'
<1>1. UNCHANGED <<lost, state, req_seqno, toController>>
  BY DEF PutNothing, PutMessages, PutUpToDate, putFrame, seqnoVars, history
<1>. SUFFICES ASSUME lost = 0 PROVE Tracking'
  BY <1>1 DEF Tracking
<1>2. req_seqno <= req_seqno
  <2>1. req_seqno \in Nat
    BY DEF Numbers
  <2>. QED  BY <2>1, SMT, SMTT(60)
<1>3. CASE PutNothing
  <2>1. UNCHANGED <<flow_updates, toSwitch, xid>> /\ (cur_cfg' = cur_cfg \/ cur_cfg' = req_seqno)
    BY <1>3 DEF PutNothing
  <2>. QED  BY <1>1, <1>2, <2>1 DEF Tracking, NoBundle, NoneRefused
<1>4. CASE PutMessages
  <2>1. state = "S_UPDATE_FLOWS" /\ cur_cfg' = cur_cfg
    BY <1>4 DEF PutMessages, CanPut
  <2>2. flow_updates' # <<>> /\ flow_updates'[Len(flow_updates')].xid = xid'
    BY <1>4, TrackedFacts, SMT, SMTT(60)
  <2>3. \A j \in DOMAIN flow_updates' : flow_updates'[j].req_cfg <= req_seqno
    <3>1. \A j \in DOMAIN flow_updates' : \/ flow_updates'[j].req_cfg = req_seqno
                                          \/ j \in DOMAIN flow_updates /\ flow_updates'[j] = flow_updates[j]
      BY <1>4, TrackedFacts, SMT, SMTT(60)
    <3>. QED  BY <1>2, <3>1 DEF Tracking
  <2>. QED  BY <1>1, <2>1, <2>2, <2>3 DEF Tracking
<1>5. CASE PutUpToDate
  <2>1. state = "S_UPDATE_FLOWS" /\ UNCHANGED <<toSwitch, xid>>
    BY <1>5 DEF PutUpToDate, CanPut
  <2>2. CASE flow_updates = <<>>
    <3>1. cur_cfg' = req_seqno /\ flow_updates' = flow_updates
      BY <1>5, <2>2 DEF PutUpToDate
    <3>. QED  BY <1>1, <1>2, <2>1, <3>1 DEF Tracking, NoBundle, NoneRefused
  <2>3. CASE flow_updates # <<>>
    <3>1. cur_cfg' = cur_cfg
      BY <1>5, <2>3 DEF PutUpToDate
    <3>2. flow_updates' # <<>> /\ flow_updates'[Len(flow_updates')].xid = xid
      BY <1>5, <2>3, UpToDateFacts DEF Tracking
    <3>3. \A j \in DOMAIN flow_updates' : flow_updates'[j].req_cfg <= req_seqno
      BY <1>2, <1>5, <2>3, UpToDateFacts DEF Tracking
    <3>. QED  BY <1>1, <2>1, <3>1, <3>2, <3>3 DEF Tracking
  <2>. QED  BY <2>2, <2>3
<1>. QED  BY <1>3, <1>4, <1>5

\* Every step.
LEMMA TrackingFollows ==
    ASSUME Tracking, Linked, Numbers, Order, OfctrlTypes, OfctrlTypes', Handshake, Handshake', [Next]_vars
    PROVE  Tracking'
<1>0. lost \in Nat
  BY DEF Numbers
<1>1. CASE Northd \/ Deliver \/ DeliverCondition \/ (\E txn, b \in BOOLEAN : OfctrlRunDone(txn, b)) \/ EngineSkipped
  BY <1>1, TrackingFrame DEF Northd, Deliver, DeliverCondition, OfctrlRunDone, EngineSkipped, engineFrame,
        putVars, seqnoVars, connVars, channels, history
<1>2. CASE EngineCanceled \/ (\E recompute \in BOOLEAN : EngineRun(recompute)) \/ \E ok \in BOOLEAN : Store(ok)
  <2>1. UNCHANGED <<lost, state, flow_updates, cur_cfg, xid, toSwitch, toController>>
    BY <1>2 DEF EngineCanceled, EngineRun, Store, engineFrame, putVars, connVars, channels, history
  <2>2. lost = 0 => req_seqno' = req_seqno
    BY <1>2 DEF EngineCanceled, EngineRun, Store, engine_need_run, IsConnectedRun, Linked
  <2>. QED  BY <2>1, <2>2, TrackingFrame DEF Tracking
<1>3. CASE Disconnect
  BY <1>0, <1>3, LostGrows DEF Disconnect, Tracking
<1>4. CASE Connect \/ OfctrlReconnected
  <2>1. /\ UNCHANGED <<lost, flow_updates, cur_cfg, req_seqno>> /\ (~ connected \/ fresh)
        /\ state' = state \/ state' = "S_NEW"
    BY <1>4 DEF Connect, OfctrlReconnected, ofctrlFrame, putVars, seqnoVars, history
  <2>2. lost = 0 => state # "S_UPDATE_FLOWS" /\ state' # "S_UPDATE_FLOWS"
    BY <2>1 DEF Linked
  <2>. QED  BY <2>1, <2>2, TrackingBefore DEF Tracking
<1>5. CASE run_S_NEW \/ run_S_WAIT_BEFORE_CLEAR \/ recv_S_TLV_TABLE_REQUESTED \/ recv_S_TLV_TABLE_MOD_SENT
  <2>1. /\ UNCHANGED <<lost, flow_updates, cur_cfg, req_seqno>>
        /\ state # "S_UPDATE_FLOWS" /\ state' # "S_UPDATE_FLOWS"
    BY <1>5 DEF run_S_NEW, run_S_WAIT_BEFORE_CLEAR, recv_S_TLV_TABLE_REQUESTED, recv_S_TLV_TABLE_MOD_SENT,
          ofctrlFrame, putVars, seqnoVars
  <2>. QED  BY <2>1, TrackingBefore
<1>6. CASE run_S_CLEAR_FLOWS
  <2>1. /\ UNCHANGED <<lost, cur_cfg, req_seqno, toSwitch, toController>> /\ state = "S_CLEAR_FLOWS"
        /\ state' = "S_UPDATE_FLOWS" /\ flow_updates' = <<>>
    BY <1>6 DEF run_S_CLEAR_FLOWS, ofctrlFrame, seqnoVars, connVars, channels
  <2>2. NoBundle'
    BY <2>1, NoBundleYet DEF NoBundle, NoneRefused, BeforeFlows
  <2>3. DOMAIN flow_updates' = {}
    BY <2>1, SMT, SMTT(60)
  <2>. QED  BY <2>1, <2>2, <2>3 DEF Tracking
<1>7. CASE ofctrl_recv
  <2>1. \/ Disconnected
        \/ UNCHANGED <<lost, flow_updates, cur_cfg, req_seqno, state>> /\ state # "S_UPDATE_FLOWS"
    BY <1>7 DEF ofctrl_recv, ofctrlFrame, putVars, seqnoVars
  <2>. QED  BY <1>0, <2>1, LostGrows, TrackingBefore DEF Tracking
<1>8. ASSUME NEW mapped \in BOOLEAN, SwitchTlv(mapped)
      PROVE  Tracking'
  <2>1. toSwitch # <<>> /\ toSwitch[1].type # "bundle" /\ 1 \in DOMAIN toSwitch
    BY <1>8, SMT, SMTT(60) DEF SwitchTlv, OfctrlTypes
  <2>2. UNCHANGED <<lost, flow_updates, cur_cfg, req_seqno, state>>
    BY <1>8 DEF SwitchTlv, Reply, putVars, seqnoVars, history
  <2>3. state # "S_UPDATE_FLOWS"
    BY <2>1 DEF Handshake
  <2>. QED  BY <2>2, <2>3, TrackingBefore
<1>9. CASE SwitchApply \/ SwitchRefuse
  BY <1>9, TrackingReply DEF SwitchApply, SwitchRefuse
<1>10. CASE ofctrl_seqno_update_create
  <2>1. UNCHANGED <<lost, state, flow_updates, cur_cfg, xid, toSwitch, toController>>
    BY <1>10 DEF ofctrl_seqno_update_create, putVars, connVars, channels
  <2>2. req_seqno' = req_seqno \/ req_seqno' = req_seqno + 1
    BY <1>10 DEF ofctrl_seqno_update_create
  <2>3. req_seqno \in Nat /\ cur_cfg \in Nat /\ \A j \in DOMAIN flow_updates : flow_updates[j].req_cfg \in Nat
    <3>1. req_seqno \in Nat /\ cur_cfg \in Nat /\ flow_updates \in Seq(FlowUpdate)
      BY DEF Numbers, FlowUpdate
    <3>2. \A j \in DOMAIN flow_updates : flow_updates[j] \in FlowUpdate
      BY <3>1, SMT, SMTT(60)
    <3>. QED  BY <3>1, <3>2 DEF FlowUpdate
  <2>4. lost = 0 => cur_cfg <= req_seqno' /\ \A j \in DOMAIN flow_updates : flow_updates[j].req_cfg <= req_seqno'
    <3>1. \A n \in Nat : n <= req_seqno => n <= req_seqno'
      BY <2>2, <2>3, SMT, SMTT(60)
    <3>. QED  BY <2>3, <3>1 DEF Tracking
  <2>. QED  BY <2>1, <2>4 DEF Tracking, NoBundle, NoneRefused
<1>11. CASE UNCHANGED vars
  BY <1>11, TrackingFrame DEF vars, putVars, seqnoVars, connVars, channels, history
<1>. QED
  BY <1>1, <1>2, <1>3, <1>4, <1>5, <1>6, <1>7, <1>8, <1>9, <1>10, <1>11, TrackingPut, TrackingReceive
  DEF Next, Environment, Faults, OfctrlRun, Iteration

-----------------------------------------------------------------------------
(* What a number waits for *)

Wanted(u) == 2 * need[u.req_cfg]
Done(n) == n # 0 => 2 * need[n] <= best

\* A table that has w is on its way, no later than the bundle x.
Comes(w, x) ==
    \E l \in DOMAIN toSwitch : toSwitch[l].type = "bundle" /\ toSwitch[l].xid <= x /\ w <= toSwitch[l].to
\* An error comes before the answer to the bundle x.
Spoiled(x) ==
    \E e \in DOMAIN toController :
        /\ toController[e].type = "error"
        /\ \A k \in DOMAIN toController : k < e => toController[k].xid < x

\* A request u, by itself and for the flow update f: what its number stands for is in
\* the view when it is made, on the switch when cur_cfg has got to it, and on the switch
\* or on its way there while an update that covers it is.
Founded(u) == Wanted(u) <= FlowsOf(view)
Satisfied(u) == u.flow_cfg <= cur_cfg => Wanted(u) <= best
Covered(u, f) ==
    u.flow_cfg <= f.req_cfg => Wanted(u) <= best \/ Comes(Wanted(u), f.xid) \/ Spoiled(f.xid)

Requests == {updates[i] : i \in DOMAIN updates}
Tracks == {flow_updates[j] : j \in DOMAIN flow_updates}

Kept ==
    lost = 0 /\ ~ unaware =>
        /\ \A u \in Requests : Founded(u) /\ Satisfied(u) /\ \A f \in Tracks : Covered(u, f)
        /\ Done(app.cur_cfg) /\ Done(reported)

\* The types of requests and updates.
LEMMA RequestTypes ==
    ASSUME Numbers
    PROVE  /\ \A u \in Requests : u \in Pending /\ u.flow_cfg \in Nat /\ u.req_cfg \in 1..view.nb_cfg
           /\ \A f \in Tracks : f \in FlowUpdate /\ f.xid \in Nat /\ f.req_cfg \in Nat
<1>1. updates \in Seq(Pending) /\ flow_updates \in Seq(FlowUpdate)
  BY DEF Numbers, Pending, FlowUpdate
<1>2. (\A i \in DOMAIN updates : updates[i] \in Pending) /\ \A j \in DOMAIN flow_updates : flow_updates[j] \in FlowUpdate
  BY <1>1, SMT, SMTT(60)
<1>3. \A u \in Requests : u \in Pending /\ u.req_cfg <= view.nb_cfg
  BY <1>2 DEF Requests, Numbers
<1>4. \A f \in Tracks : f \in FlowUpdate
  BY <1>2 DEF Tracks
<1>5. \A u \in Pending : u.flow_cfg \in Nat /\ u.req_cfg \in Nat \ {0}
  BY DEF Pending
<1>6. \A f \in FlowUpdate : f.xid \in Nat /\ f.req_cfg \in Nat
  BY DEF FlowUpdate
<1>7. view.nb_cfg \in Int => \A n \in Nat \ {0} : n <= view.nb_cfg => n \in 1..view.nb_cfg
  BY SMT, SMTT(60)
<1>. QED  BY <1>3, <1>4, <1>5, <1>6, <1>7, SMT, SMTT(60)

\* What a number stands for is settled, and its request stays founded.
LEMMA WantedStays ==
    ASSUME Numbers, Contents, Contents', Onward, NEW u \in Requests
    PROVE  Wanted(u) \in Nat /\ Wanted(u)' = Wanted(u) /\ (Founded(u) => Founded(u)')
<1>1. u.req_cfg \in 1..view.nb_cfg
  BY RequestTypes
<1>2. need'[u.req_cfg] = need[u.req_cfg] /\ u.req_cfg \in 1..MaxCfg
  BY <1>1 DEF Onward
<1>3. need[u.req_cfg] \in Nat
  BY <1>2 DEF Contents
<1>4. Wanted(u) \in Nat
  <2>1. 2 * need[u.req_cfg] \in Nat
    BY <1>3, SMT, SMTT(60)
  <2>. QED  BY <2>1 DEF Wanted
<1>5. Wanted(u)' = Wanted(u)
  BY <1>2 DEF Wanted
<1>6. FlowsOf(view) \in Int /\ FlowsOf(view') \in Int /\ FlowsOf(view) <= FlowsOf(view')
  <2>1. view.flows \in Nat /\ view'.flows \in Nat
    BY DEF Contents
  <2>2. FlowsOf(view) \in Int /\ FlowsOf(view') \in Int
    BY <2>1, SMT, SMTT(60) DEF FlowsOf
  <2>. QED  BY <2>2 DEF Onward
<1>7. \A w \in Nat : w <= FlowsOf(view) => w <= FlowsOf(view')
  BY <1>6, SMT, SMTT(60)
<1>. QED  BY <1>4, <1>5, <1>7 DEF Founded

\* A number that is done stays done.
LEMMA DoneStays ==
    ASSUME Numbers, Contents, Onward, best' \in Nat, best <= best', NEW n \in Nat, n <= view.nb_cfg, Done(n)
    PROVE  Done(n)'
<1>. SUFFICES ASSUME n # 0 PROVE 2 * need'[n] <= best'
  BY DEF Done
<1>1. n \in 1..view.nb_cfg
  BY SMT, SMTT(60) DEF Contents
<1>2. need'[n] = need[n] /\ n \in 1..MaxCfg
  BY <1>1 DEF Onward
<1>3. need[n] \in Nat
  BY <1>2 DEF Contents
<1>4. 2 * need[n] <= best
  BY DEF Done
<1>. QED  BY <1>2, <1>3, <1>4, SMT, SMTT(60) DEF Numbers

\* A step that makes and acknowledges no request.
LEMMA KeptFrame ==
    ASSUME Kept, Numbers, Contents, Contents', Onward, Fewer, UNCHANGED <<app, reported, lost>>, unaware => unaware',
           best' \in Nat, best <= best',
           lost = 0 => \A u \in Requests : Founded(u) /\ Satisfied(u) /\ (\A f \in Tracks : Covered(u, f)) =>
                            Satisfied(u)' /\ \A f \in Tracks' : Covered(u, f)'
    PROVE  Kept'
<1>. SUFFICES ASSUME lost = 0, ~ unaware' PROVE Kept'
  BY DEF Kept
<1>1. \A u \in Requests : Founded(u)' /\ Satisfied(u)' /\ \A f \in Tracks' : Covered(u, f)'
  BY WantedStays DEF Kept
<1>2. \A u \in Requests' : u \in Requests
  BY DEF Requests, Fewer
<1>3. PICK n, m : n = app.cur_cfg /\ m = reported
  OBVIOUS
<1>4. n \in Nat /\ n <= view.nb_cfg /\ Done(n) /\ m \in Nat /\ m <= view.nb_cfg /\ Done(m)
  BY <1>3 DEF Numbers, Kept
<1>5. Done(n)' /\ Done(m)'
  BY <1>4, DoneStays
<1>6. Done(app.cur_cfg)' /\ Done(reported)'
  BY <1>3, <1>5 DEF Done
<1>. QED  BY <1>1, <1>2, <1>6 DEF Kept

\* The steps that touch no message and no table.
LEMMA KeptStill ==
    ASSUME Kept, Numbers, Contents, Contents', Onward, Fewer,
           UNCHANGED <<app, reported, lost, best, cur_cfg, flow_updates, toSwitch, toController>>, unaware => unaware'
    PROVE  Kept'
<1>1. best' \in Nat /\ best <= best'
  BY SMT, SMTT(60) DEF Numbers
<1>2. Tracks' = Tracks
  BY DEF Tracks
<1>3. ASSUME NEW u \in Requests, Satisfied(u), \A f \in Tracks : Covered(u, f)
      PROVE  Satisfied(u)' /\ \A f \in Tracks' : Covered(u, f)'
  <2>1. Wanted(u)' = Wanted(u)
    BY WantedStays
  <2>2. Satisfied(u)'
    BY <1>3, <2>1 DEF Satisfied
  <2>3. \A x : (Comes(Wanted(u), x) => Comes(Wanted(u), x)') /\ (Spoiled(x) => Spoiled(x)')
    BY <2>1 DEF Comes, Spoiled
  <2>. QED  BY <1>2, <1>3, <2>1, <2>2, <2>3 DEF Covered
<1>. QED  BY <1>1, <1>3, KeptFrame

\* The steps before flows are maintained.
LEMMA KeptBefore ==
    ASSUME Kept, Numbers, Contents, Contents', Onward, Fewer,
           UNCHANGED <<app, reported, lost, best, cur_cfg>>, unaware => unaware', lost = 0 => flow_updates' = <<>>
    PROVE  Kept'
<1>1. best' \in Nat /\ best <= best'
  BY SMT, SMTT(60) DEF Numbers
<1>2. lost = 0 => Tracks' = {}
  BY SMT, SMTT(60) DEF Tracks
<1>3. ASSUME NEW u \in Requests, Satisfied(u)
      PROVE  Satisfied(u)'
  BY <1>3, WantedStays DEF Satisfied
<1>. QED  BY <1>1, <1>2, <1>3, KeptFrame

\* A step after which a table that was on its way is on its way still, has arrived, or
\* is spoiled by an error.
Carried ==
    \A w, x \in Nat : Comes(w, x) \/ Spoiled(x) => w <= best' \/ Comes(w, x)' \/ Spoiled(x)'

LEMMA CoveredStays ==
    ASSUME Numbers, Contents, Contents', Onward, Carried, best' \in Nat, best <= best',
           NEW u \in Requests, NEW f \in Tracks, Covered(u, f)
    PROVE  Covered(u, f)'
<1>1. Wanted(u) \in Nat /\ Wanted(u)' = Wanted(u)
  BY WantedStays
<1>2. f.xid \in Nat
  BY RequestTypes
<1>3. Wanted(u) <= best => Wanted(u) <= best'
  BY <1>1, SMT, SMTT(60) DEF Numbers
<1>4. PICK w \in Nat : w = Wanted(u)
  BY <1>1
<1>5. Comes(w, f.xid) \/ Spoiled(f.xid) => w <= best' \/ Comes(w, f.xid)' \/ Spoiled(f.xid)'
  BY <1>2, <1>4 DEF Carried
<1>6. Comes(w, f.xid)' => Comes(Wanted(u), f.xid)'
  BY <1>1, <1>4 DEF Comes
<1>. QED  BY <1>1, <1>3, <1>4, <1>5, <1>6 DEF Covered

\* The switch takes the first bundle, or refuses it: what it was to bring is there, or
\* an error comes before the answer to any update that waits for it.
LEMMA KeptSwitch ==
    ASSUME Kept, Numbers, Numbers', Contents, Contents', Onward, Order, Handshake, OfctrlTypes,
           InstalledMatchesSwitch, SwitchApply \/ SwitchRefuse
    PROVE  Kept'
<1>1. /\ toSwitch # <<>> /\ Head(toSwitch) = toSwitch[1] /\ 1 \in DOMAIN toSwitch /\ toSwitch[1].type = "bundle"
      /\ \A l \in DOMAIN toSwitch : l = 1 \/ (l - 1 \in DOMAIN Tail(toSwitch) /\ Tail(toSwitch)[l - 1] = toSwitch[l])
  <2>1. toSwitch # <<>> /\ Head(toSwitch).type = "bundle"
    BY DEF SwitchApply, SwitchRefuse
  <2>. QED  BY <2>1, SMT, SMTT(60) DEF OfctrlTypes
<1>2. toSwitch[1] \in Bundle /\ toSwitch[1].xid \in Nat
  BY <1>1, MessageTypes
<1>3. PICK messages \in Seq(Answer) :
        /\ Reply(messages)
        /\ SwitchRefuse => messages = <<Message("error", 0), Message("barrier", toSwitch[1].xid)>>
  <2>1. Message("error", 0) \in Answer /\ Message("barrier", toSwitch[1].xid) \in Answer
    BY <1>2, AnswerFacts
  <2>2. /\ <<Message("error", 0), Message("barrier", toSwitch[1].xid)>> \in Seq(Answer)
        /\ <<Message("barrier", toSwitch[1].xid)>> \in Seq(Answer)
    BY <2>1, SMT, SMTT(60)
  <2>3. CASE SwitchRefuse
    BY <1>1, <2>2, <2>3 DEF SwitchRefuse
  <2>4. CASE ~ SwitchRefuse
    BY <1>1, <2>2, <2>4 DEF SwitchApply
  <2>. QED  BY <2>3, <2>4
<1>4. /\ UNCHANGED <<app, reported, lost, unaware, cur_cfg, flow_updates, updates>>
      /\ toSwitch' = Tail(toSwitch) /\ toController' = toController \o messages
  BY <1>3 DEF Reply, dbVars, seqnoVars, putVars, history
<1>5. best' \in Nat /\ best \in Nat /\ best <= best' /\ switch' <= best'
  <2>1. best' \in Nat /\ best \in Nat /\ switch' <= best'
    BY DEF Numbers
  <2>2. best' = best \/ (best' = Larger(best, switch') /\ SwitchApply)
    BY DEF SwitchApply, SwitchRefuse, switchVars
  <2>3. SwitchApply => switch' \in Int
    <3>1. toSwitch[1].to \in Int
      BY <1>2 DEF Bundle
    <3>2. SwitchApply => switch' = toSwitch[1].to \/ switch' = Bad
      BY <1>1 DEF SwitchApply, Patch
    <3>. QED  BY <3>1, <3>2, SMT, SMTT(60) DEF Bad
  <2>. QED  BY <2>1, <2>2, <2>3, SMT, SMTT(60) DEF Larger
<1>6. /\ \A k \in DOMAIN toController : k \in DOMAIN toController' /\ toController'[k] = toController[k]
      /\ \A e \in DOMAIN toController, k \in DOMAIN toController' : k < e => k \in DOMAIN toController
      /\ \A k \in DOMAIN toController' : k < Len(toController) + 1 => k \in DOMAIN toController
  BY <1>3, <1>4, SMT, SMTT(60) DEF OfctrlTypes
<1>7. ASSUME NEW x, Spoiled(x)
      PROVE  Spoiled(x)'
  <2>1. PICK e \in DOMAIN toController :
            /\ toController[e].type = "error"
            /\ \A k \in DOMAIN toController : k < e => toController[k].xid < x
    BY <1>7 DEF Spoiled
  <2>2. e \in DOMAIN toController' /\ toController'[e].type = "error"
    BY <1>6, <2>1
  <2>3. \A k \in DOMAIN toController' : k < e => toController'[k].xid < x
    BY <1>6, <2>1
  <2>. QED  BY <2>2, <2>3 DEF Spoiled
<1>8. ASSUME NEW x \in Nat, toSwitch[1].xid <= x, SwitchRefuse \/ ~ NoneRefused
      PROVE  Spoiled(x)'
  <2>1. \A k \in DOMAIN toController : toController[k].xid < x
    <3>1. \A k \in DOMAIN toController : toController[k].xid < toSwitch[1].xid /\ toController[k].xid \in Nat
      BY <1>1, MessageTypes DEF Order
    <3>. QED  BY <1>2, <1>8, <3>1, SMT, SMTT(60)
  <2>2. CASE ~ NoneRefused
    <3>1. PICK e \in DOMAIN toController : toController[e].type = "error"
      BY <2>2 DEF NoneRefused
    <3>2. e \in DOMAIN toController' /\ toController'[e].type = "error"
      BY <1>6, <3>1
    <3>3. \A k \in DOMAIN toController' : k < e => toController'[k].xid < x
      BY <1>6, <2>1, <3>1
    <3>. QED  BY <3>2, <3>3 DEF Spoiled
  <2>3. CASE SwitchRefuse
    <3>1. Len(toController) + 1 \in DOMAIN toController' /\ toController'[Len(toController) + 1] = Message("error", 0)
      <4>1. PICK a, b : toController' = toController \o <<a, b>> /\ a = Message("error", 0)
        BY <1>3, <1>4, <2>3
      <4>. QED  BY <4>1, SMT, SMTT(60) DEF OfctrlTypes
    <3>2. Message("error", 0).type = "error"
      BY AnswerFacts
    <3>3. \A k \in DOMAIN toController' : k < Len(toController) + 1 => toController'[k].xid < x
      BY <1>6, <2>1
    <3>. QED  BY <3>1, <3>2, <3>3 DEF Spoiled
  <2>. QED  BY <1>8, <2>2, <2>3
<1>9. ASSUME SwitchApply, NoneRefused
      PROVE  toSwitch[1].to <= best'
  <2>1. connected /\ ~ fresh
    BY <1>1 DEF Handshake
  <2>2. state = "S_UPDATE_FLOWS"
    BY <1>1, NoBundleYet DEF BeforeFlows, NoBundle
  <2>3. ~ initialClear
    BY <1>1, <2>1, <2>2 DEF Handshake
  <2>4. toSwitch[1].clear \/ toSwitch[1].from = switch
    BY <1>1, <1>9, <2>1, <2>2, <2>3 DEF InstalledMatchesSwitch
  <2>5. switch' = toSwitch[1].to
    BY <1>1, <1>9, <2>4 DEF SwitchApply, Patch
  <2>. QED  BY <1>5, <2>5
<1>10. Carried
  <2>. SUFFICES ASSUME NEW w \in Nat, NEW x \in Nat, Comes(w, x)
                PROVE  w <= best' \/ Comes(w, x)' \/ Spoiled(x)'
    BY <1>7 DEF Carried
  <2>1. PICK l \in DOMAIN toSwitch : toSwitch[l].type = "bundle" /\ toSwitch[l].xid <= x /\ w <= toSwitch[l].to
    BY DEF Comes
  <2>2. CASE l # 1
    BY <1>1, <1>4, <2>1, <2>2 DEF Comes
  <2>3. CASE l = 1
    <3>1. CASE SwitchRefuse \/ ~ NoneRefused
      BY <1>8, <2>1, <2>3, <3>1
    <3>2. CASE SwitchApply /\ NoneRefused
      <4>1. toSwitch[1].to <= best' /\ toSwitch[1].to \in Int /\ w <= toSwitch[1].to
        BY <1>2, <1>9, <2>1, <2>3, <3>2 DEF Bundle
      <4>2. w <= best'
        BY <1>5, <4>1, SMT, SMTT(60)
      <4>. QED  BY <4>2
    <3>. QED  BY <3>1, <3>2
  <2>. QED  BY <2>2, <2>3
<1>11. ASSUME NEW u \in Requests, Satisfied(u), \A f \in Tracks : Covered(u, f)
       PROVE  Satisfied(u)' /\ \A f \in Tracks' : Covered(u, f)'
  <2>1. Satisfied(u)'
    <3>1. Wanted(u)' = Wanted(u) /\ Wanted(u) \in Nat
      BY WantedStays
    <3>2. Wanted(u) <= best => Wanted(u) <= best'
      BY <1>5, <3>1, SMT, SMTT(60)
    <3>. QED  BY <1>4, <1>11, <3>1, <3>2 DEF Satisfied
  <2>2. Tracks' = Tracks
    BY <1>4 DEF Tracks
  <2>. QED  BY <1>5, <1>10, <1>11, <2>1, <2>2, CoveredStays
<1>12. Fewer
  BY <1>4, UpdatesFewer
<1>. QED  BY <1>4, <1>5, <1>11, <1>12, KeptFrame

\* The answer to a barrier: if it is that of the first update on its way, no bundle that
\* the update waits for and no error is on its way any more.
LEMMA KeptReceive ==
    ASSUME Kept, Numbers, Contents, Contents', Onward, Order, OfctrlTypes, recv_barrier_reply
    PROVE  Kept'
<1>1. /\ toController # <<>> /\ Received /\ Head(toController).type = "barrier"
      /\ UNCHANGED <<app, reported, lost, unaware, best, updates, toSwitch>>
  BY DEF recv_barrier_reply, Receive, ofctrlFrame, dbVars, seqnoVars
<1>2. /\ 1 \in DOMAIN toController /\ Head(toController) = toController[1]
      /\ \A e \in DOMAIN toController :
            e = 1 \/ (e - 1 \in DOMAIN toController' /\ toController'[e - 1] = toController[e] /\ 1 < e)
      /\ \A k \in DOMAIN toController' : k + 1 \in DOMAIN toController /\ toController'[k] = toController[k + 1]
      /\ \A e \in DOMAIN toController, k \in DOMAIN toController' : k < e - 1 => k + 1 < e
  BY <1>1, SMT, SMTT(60) DEF Received, OfctrlTypes
<1>3. Carried
  <2>1. ASSUME NEW x, Spoiled(x)
        PROVE  Spoiled(x)'
    <3>1. PICK e \in DOMAIN toController :
            /\ toController[e].type = "error"
            /\ \A k \in DOMAIN toController : k < e => toController[k].xid < x
      BY <2>1 DEF Spoiled
    <3>2. e # 1
      <4>1. toController[1].type = "barrier"
        BY <1>1, <1>2
      <4>. QED  BY <3>1, <4>1
    <3>3. e - 1 \in DOMAIN toController' /\ toController'[e - 1].type = "error"
      BY <1>2, <3>1, <3>2
    <3>4. \A k \in DOMAIN toController' : k < e - 1 => toController'[k].xid < x
      BY <1>2, <3>1
    <3>. QED  BY <3>3, <3>4 DEF Spoiled
  <2>2. \A w, x : Comes(w, x) => Comes(w, x)'
    BY <1>1 DEF Comes
  <2>. QED  BY <2>1, <2>2 DEF Carried
<1>4. best' \in Nat /\ best <= best'
  BY <1>1, SMT, SMTT(60) DEF Numbers
<1>5. \A f \in Tracks' : f \in Tracks
  <2>1. flow_updates \in Seq(FlowUpdate)
    BY DEF Numbers, FlowUpdate
  <2>2. flow_updates' = flow_updates \/ (flow_updates # <<>> /\ flow_updates' = Tail(flow_updates))
    BY DEF recv_barrier_reply
  <2>3. \A j \in DOMAIN flow_updates' : \E i \in DOMAIN flow_updates : flow_updates'[j] = flow_updates[i]
    <3>1. CASE flow_updates' = flow_updates
      BY <3>1
    <3>2. CASE flow_updates # <<>> /\ flow_updates' = Tail(flow_updates)
      <4>1. \A j \in DOMAIN flow_updates' : j + 1 \in DOMAIN flow_updates /\ flow_updates'[j] = flow_updates[j + 1]
        BY <2>1, <3>2, SMT, SMTT(60)
      <4>. QED  BY <4>1
    <3>. QED  BY <2>2, <3>1, <3>2
  <2>. QED  BY <2>3 DEF Tracks
<1>6. ASSUME NEW u \in Requests, Satisfied(u), \A f \in Tracks : Covered(u, f)
      PROVE  Satisfied(u)'
  <2>0. Wanted(u)' = Wanted(u)
    BY WantedStays
  <2>1. CASE cur_cfg' = cur_cfg
    BY <1>1, <1>6, <2>0, <2>1 DEF Satisfied
  <2>2. CASE cur_cfg' # cur_cfg
    <3>1. /\ flow_updates # <<>> /\ Head(flow_updates).xid = Head(toController).xid
          /\ cur_cfg' = Head(flow_updates).req_cfg
      BY <2>2 DEF recv_barrier_reply, Larger
    <3>2. PICK f \in Tracks : f.xid = toController[1].xid /\ cur_cfg' = f.req_cfg
      <4>1. flow_updates \in Seq(FlowUpdate)
        BY DEF Numbers, FlowUpdate
      <4>2. 1 \in DOMAIN flow_updates /\ Head(flow_updates) = flow_updates[1]
        BY <3>1, <4>1, SMT, SMTT(60)
      <4>. QED  BY <1>2, <3>1, <4>2 DEF Tracks
    <3>3. f.xid \in Nat
      BY RequestTypes
    <3>4. ~ Comes(Wanted(u), f.xid)
      <4>. SUFFICES ASSUME NEW l \in DOMAIN toSwitch, toSwitch[l].type = "bundle", toSwitch[l].xid <= f.xid
                    PROVE  FALSE
        BY DEF Comes
      <4>1. f.xid < toSwitch[l].xid /\ toSwitch[l].xid \in Nat
        BY <1>2, <3>2, MessageTypes DEF Order
      <4>. QED  BY <3>3, <4>1, SMT, SMTT(60)
    <3>5. ~ Spoiled(f.xid)
      <4>. SUFFICES ASSUME NEW e \in DOMAIN toController, toController[e].type = "error",
                           \A k \in DOMAIN toController : k < e => toController[k].xid < f.xid
                    PROVE  FALSE
        BY DEF Spoiled
      <4>1. e # 1
        <5>1. toController[1].type = "barrier"
          BY <1>1, <1>2
        <5>. QED  BY <5>1
      <4>2. f.xid < f.xid
        BY <1>2, <3>2, <4>1
      <4>. QED  BY <3>3, <4>2, SMT, SMTT(60)
    <3>6. Covered(u, f)
      BY <1>6
    <3>. QED  BY <1>1, <2>0, <3>2, <3>4, <3>5, <3>6 DEF Satisfied, Covered
  <2>. QED  BY <2>1, <2>2
<1>7. ASSUME NEW u \in Requests, \A f \in Tracks : Covered(u, f)
      PROVE  \A f \in Tracks' : Covered(u, f)'
  BY <1>3, <1>4, <1>5, <1>7, CoveredStays
<1>8. Fewer
  BY <1>1, UpdatesFewer
<1>. QED  BY <1>1, <1>4, <1>6, <1>7, <1>8, KeptFrame

\* A request is made for what is in the view, which is all there when rows are not
\* missing; neither cur_cfg nor an update on its way has got to it.
LEMMA KeptCreate ==
    ASSUME Kept, Numbers, Contents, Contents', Onward, Tracking, ofctrl_seqno_update_create
    PROVE  Kept'
<1>1. /\ UNCHANGED <<need, reported, view, best, lost, cur_cfg, flow_updates, toSwitch, toController>>
      /\ nb_cfg' = get_nb_cfg
      /\ unaware' = (unaware \/ (nb_cfg' # nb_cfg /\ cond = "met" /\ ~ view.full))
  BY DEF ofctrl_seqno_update_create, dbVars, viewVars, switchVars, putVars, connVars, channels
<1>2. CASE SameRequest(nb_cfg')
  <2>1. UNCHANGED <<app, updates>> /\ (unaware => unaware')
    BY <1>1, <1>2 DEF ofctrl_seqno_update_create
  <2>. QED  BY <1>1, <2>1, UpdatesFewer, KeptStill
<1>3. CASE ~ SameRequest(nb_cfg')
  <2>1. /\ app' = [app EXCEPT !.req_cfg = nb_cfg'] /\ req_seqno' = req_seqno + 1
        /\ updates' = Append(updates, [flow_cfg |-> req_seqno', req_cfg |-> nb_cfg'])
    BY <1>3 DEF ofctrl_seqno_update_create
  <2>2. nb_cfg' = view.nb_cfg /\ cond = "met" /\ nb_cfg' # nb_cfg
    BY <1>1, <1>3 DEF SameRequest, get_nb_cfg, Numbers
  <2>. SUFFICES ASSUME lost = 0, ~ unaware' PROVE Kept'
    BY <1>1 DEF Kept
  <2>3. ~ unaware /\ view.full
    BY <1>1, <2>2
  <2>4. PICK r : r = [flow_cfg |-> req_seqno', req_cfg |-> nb_cfg'] /\ updates' = Append(updates, r)
    BY <2>1
  <2>5. r.flow_cfg = req_seqno + 1 /\ r.req_cfg = view.nb_cfg
    BY <2>1, <2>2, <2>4
  <2>6. \A u \in Requests' : u \in Requests \/ u = r
    <3>1. updates \in Seq(Pending)
      BY DEF Numbers, Pending
    <3>2. \A i \in DOMAIN updates' : updates'[i] = r \/ (i \in DOMAIN updates /\ updates'[i] = updates[i])
      BY <2>4, <3>1, SMT, SMTT(60)
    <3>. QED  BY <3>2 DEF Requests
  <2>7. \A u \in Requests : Founded(u)' /\ Satisfied(u)' /\ \A f \in Tracks' : Covered(u, f)'
    <3>1. Tracks' = Tracks
      BY <1>1 DEF Tracks
    <3>2. \A w, x : (Comes(w, x) => Comes(w, x)') /\ (Spoiled(x) => Spoiled(x)')
      BY <1>1 DEF Comes, Spoiled
    <3>3. Carried
      BY <3>2 DEF Carried
    <3>4. best' \in Nat /\ best <= best'
      BY <1>1, SMT, SMTT(60) DEF Numbers
    <3>5. \A u \in Requests : Founded(u)' /\ Satisfied(u)'
      BY <1>1, <2>3, WantedStays DEF Kept, Satisfied
    <3>. QED  BY <2>3, <3>1, <3>3, <3>4, <3>5, CoveredStays DEF Kept
  <2>8. Founded(r)'
    <3>1. need[view.nb_cfg] <= view.flows /\ view.flows \in Nat /\ view.nb_cfg \in 1..MaxCfg
      <4>1. /\ need[view.nb_cfg] <= view.flows /\ sb.nb_cfg \in 1..MaxCfg /\ view.nb_cfg <= sb.nb_cfg
            /\ view.flows \in Nat /\ view.nb_cfg \in Nat \ {0}
        BY DEF Contents
      <4>. QED  BY <4>1, BoundsAssumption, SMT, SMTT(60)
    <3>2. need[view.nb_cfg] \in Nat
      BY <3>1 DEF Contents
    <3>3. 2 * need[view.nb_cfg] <= 2 * view.flows
      BY <3>1, <3>2, SMT, SMTT(60)
    <3>. QED  BY <1>1, <2>3, <2>5, <3>3 DEF Founded, Wanted, FlowsOf
  <2>9. Satisfied(r)' /\ \A f \in Tracks' : Covered(r, f)'
    <3>1. \A n \in Nat : n <= req_seqno => ~ (r.flow_cfg <= n)
      BY <2>5, SMT, SMTT(60) DEF Numbers
    <3>2. cur_cfg \in Nat /\ cur_cfg <= req_seqno
      BY DEF Numbers, Tracking
    <3>3. \A f \in Tracks : f.req_cfg \in Nat /\ f.req_cfg <= req_seqno
      BY RequestTypes DEF Tracking, Tracks
    <3>4. Tracks' = Tracks
      BY <1>1 DEF Tracks
    <3>. QED  BY <1>1, <3>1, <3>2, <3>3, <3>4 DEF Satisfied, Covered
  <2>10. Done(app.cur_cfg)' /\ Done(reported)'
    <3>1. app'.cur_cfg = app.cur_cfg
      BY <2>1 DEF Numbers
    <3>. QED  BY <1>1, <2>3, <3>1 DEF Kept, Done
  <2>. QED  BY <2>6, <2>7, <2>8, <2>9, <2>10 DEF Kept
<1>. QED  BY <1>2, <1>3

\* What is installed is on the switch, or on its way there, or spoiled by an error.
LEMMA InstalledComes ==
    ASSUME Numbers, Linked, Order, Handshake, OfctrlTypes, InstalledMatchesSwitch,
           lost = 0, state = "S_UPDATE_FLOWS", ~ initialClear
    PROVE  installed <= best \/ Comes(installed, xid) \/ Spoiled(xid)
<1>1. connected /\ ~ fresh
  BY DEF Linked
<1>2. CASE ~ NoneRefused
  <2>1. PICK e \in DOMAIN toController : toController[e].type = "error"
    BY <1>2 DEF NoneRefused
  <2>. QED  BY <2>1 DEF Order, Spoiled
<1>3. CASE NoneRefused /\ toSwitch = <<>>
  BY <1>1, <1>3 DEF InstalledMatchesSwitch, Numbers
<1>4. CASE NoneRefused /\ toSwitch # <<>>
  <2>1. installed = toSwitch[Len(toSwitch)].to
    BY <1>1, <1>4 DEF InstalledMatchesSwitch
  <2>2. Len(toSwitch) \in DOMAIN toSwitch
    BY <1>4, SMT, SMTT(60) DEF OfctrlTypes
  <2>3. toSwitch[Len(toSwitch)].type = "bundle"
    BY <1>1, <2>2 DEF Handshake
  <2>4. toSwitch[Len(toSwitch)].xid <= xid
    BY <2>2, <2>3 DEF Order
  <2>5. installed <= toSwitch[Len(toSwitch)].to
    BY <2>1, SMT, SMTT(60) DEF OfctrlTypes
  <2>. QED  BY <2>2, <2>3, <2>4, <2>5 DEF Comes
<1>. QED  BY <1>2, <1>3, <1>4

\* With no update on its way it is on the switch.
LEMMA InstalledArrived ==
    ASSUME Numbers, Linked, Tracking, Order, Handshake, OfctrlTypes, InstalledMatchesSwitch,
           lost = 0, state = "S_UPDATE_FLOWS", ~ initialClear, flow_updates = <<>>
    PROVE  installed <= best
<1>1. NoBundle
  BY DEF Tracking
<1>2. ~ Comes(installed, xid) /\ ~ Spoiled(xid)
  BY <1>1 DEF NoBundle, NoneRefused, Comes, Spoiled
<1>. QED  BY <1>2, InstalledComes

\* Requests are founded on the flows that are installed when a put has nothing to do.
LEMMA RequestsInstalled ==
    ASSUME Numbers, Contents, Contents', Onward, OfctrlTypes, installed = FlowsOf(view), NEW u \in Requests, Founded(u)
    PROVE  Wanted(u) \in Nat /\ Wanted(u) <= installed
BY WantedStays DEF Founded

\* A put that finds nothing to do, and nothing on its way.
LEMMA KeptReached ==
    ASSUME Kept, Numbers, Contents, Contents', Onward, OfctrlTypes, Fewer, lost = 0 => installed <= best,
           installed = FlowsOf(view), flow_updates' = <<>>, UNCHANGED <<app, reported, lost, unaware, best>>
    PROVE  Kept'
<1>1. best' \in Nat /\ best <= best' /\ best \in Nat /\ installed \in Int
  BY SMT, SMTT(60) DEF Numbers, OfctrlTypes
<1>2. Tracks' = {}
  BY SMT, SMTT(60) DEF Tracks
<1>3. ASSUME NEW u \in Requests, Founded(u), lost = 0
      PROVE  Satisfied(u)'
  <2>1. Wanted(u) \in Nat /\ Wanted(u) <= installed /\ installed <= best
    BY <1>3, RequestsInstalled
  <2>2. Wanted(u) <= best
    BY <1>1, <2>1, SMT, SMTT(60)
  <2>3. Wanted(u)' = Wanted(u)
    BY WantedStays
  <2>. QED  BY <2>2, <2>3 DEF Satisfied
<1>. QED  BY <1>1, <1>2, <1>3, KeptFrame

\* A put that leaves cur_cfg alone: the updates are those of before, and one for all
\* requests, behind what the switch will have.
LEMMA KeptAppended ==
    ASSUME Kept, Numbers, Contents, Contents', Onward, OfctrlTypes, Fewer, Carried,
           UNCHANGED <<app, reported, lost, unaware, best, cur_cfg>>, NEW x \in Nat,
           \A f \in Tracks' : f \in Tracks \/ f.xid = x,
           lost = 0 => \A w \in Nat : w <= FlowsOf(view) => w <= best' \/ Comes(w, x)' \/ Spoiled(x)'
    PROVE  Kept'
<1>1. best' \in Nat /\ best <= best'
  BY SMT, SMTT(60) DEF Numbers
<1>2. ASSUME NEW u \in Requests, Founded(u), Satisfied(u), \A f \in Tracks : Covered(u, f), lost = 0
      PROVE  Satisfied(u)' /\ \A f \in Tracks' : Covered(u, f)'
  <2>1. Wanted(u) \in Nat /\ Wanted(u)' = Wanted(u)
    BY WantedStays
  <2>2. Satisfied(u)'
    BY <1>2, <2>1 DEF Satisfied
  <2>3. ASSUME NEW f, f.xid = x
        PROVE  Covered(u, f)'
    <3>1. PICK w \in Nat : w = Wanted(u)
      BY <2>1
    <3>2. w <= best' \/ Comes(w, x)' \/ Spoiled(x)'
      BY <1>2, <3>1 DEF Founded
    <3>3. Comes(w, x)' => Comes(Wanted(u), f.xid)'
      BY <2>1, <2>3, <3>1 DEF Comes
    <3>4. Spoiled(x)' => Spoiled(f.xid)'
      BY <2>3 DEF Spoiled
    <3>. QED  BY <2>1, <3>1, <3>2, <3>3, <3>4 DEF Covered
  <2>. QED  BY <1>1, <1>2, <2>2, <2>3, CoveredStays
<1>. QED  BY <1>1, <1>2, KeptFrame

\* A put, or none.
LEMMA KeptPut ==
    ASSUME Kept, Numbers, Contents, Contents', Onward, Order, PutDue, Linked, Tracking, FlowsFollow, OfctrlTypes,
           OfctrlTypes', Handshake, Reconciled, InstalledMatchesSwitch, PutNothing \/ PutMessages \/ PutUpToDate
    PROVE  Kept'
<1>1. UNCHANGED <<app, reported, lost, unaware, best, updates, toController>>
  BY DEF PutNothing, PutMessages, PutUpToDate, putFrame, dbVars, seqnoVars, switchVars, history
<1>2. Fewer
  BY <1>1, UpdatesFewer
<1>3. ASSUME toSwitch' = toSwitch
      PROVE  /\ \A w, x : Comes(w, x) => Comes(w, x)'
             /\ \A x : Spoiled(x) => Spoiled(x)'
  BY <1>1, <1>3 DEF Comes, Spoiled
<1>4. CASE PutNothing
  <2>1. UNCHANGED <<flow_updates, toSwitch>>
    BY <1>4 DEF PutNothing
  <2>2. CASE cur_cfg' = cur_cfg
    BY <1>1, <1>2, <2>1, <2>2, KeptStill
  <2>3. CASE cur_cfg' # cur_cfg
    <3>1. outcome = "done" /\ ~ NeedPut /\ flow_updates = <<>>
      BY <1>4, <2>3 DEF PutNothing
    <3>2. state = "S_UPDATE_FLOWS" /\ ~ Unput /\ ~ initialClear
      BY <3>1 DEF NeedPut, PutDue, Unput
    <3>3. installed = FlowsOf(view)
      BY <3>1, <3>2 DEF Reconciled, FlowsFollow
    <3>4. lost = 0 => installed <= best
      BY <3>1, <3>2, InstalledArrived
    <3>. QED  BY <1>1, <1>2, <2>1, <3>1, <3>3, <3>4, KeptReached
  <2>. QED  BY <2>2, <2>3
<1>5. CASE PutUpToDate
  <2>1. /\ toSwitch' = toSwitch /\ state = "S_UPDATE_FLOWS" /\ ~ initialClear /\ outcome = "done"
        /\ NewInstalled = installed
    BY <1>5 DEF PutUpToDate, CanPut
  <2>2. installed = FlowsOf(view)
    BY <1>5, <2>1, PutInstalls DEF FlowsFollow
  <2>3. CASE flow_updates = <<>>
    <3>1. flow_updates' = <<>>
      BY <1>5, <2>3 DEF PutUpToDate
    <3>2. lost = 0 => installed <= best
      BY <2>1, <2>3, InstalledArrived
    <3>. QED  BY <1>1, <1>2, <2>2, <3>1, <3>2, KeptReached
  <2>4. CASE flow_updates # <<>>
    <3>1. cur_cfg' = cur_cfg
      BY <1>5, <2>4 DEF PutUpToDate
    <3>2. Carried
      BY <1>3, <2>1 DEF Carried
    <3>3. xid \in Nat /\ installed \in Int /\ best \in Nat
      BY DEF OfctrlTypes, Numbers
    <3>4. CASE lost # 0
      BY <1>1, <3>4 DEF Kept
    <3>5. CASE lost = 0
      <4>1. \A f \in Tracks' : f \in Tracks \/ f.xid = xid
        BY <1>5, <2>4, <3>5, UpToDateFacts DEF Tracks, Tracking
      <4>2. PICK x \in Nat : x = xid
        BY <3>3
      <4>3. ASSUME NEW w \in Nat, w <= FlowsOf(view)
            PROVE  w <= best' \/ Comes(w, x)' \/ Spoiled(x)'
        <5>1. w <= installed
          BY <2>2, <4>3
        <5>2. installed <= best \/ Comes(installed, x) \/ Spoiled(x)
          BY <2>1, <3>5, <4>2, InstalledComes
        <5>3. installed <= best => w <= best'
          BY <1>1, <3>3, <5>1, SMT, SMTT(60)
        <5>4. Comes(installed, x) => Comes(w, x)
          <6>. SUFFICES ASSUME NEW l \in DOMAIN toSwitch, toSwitch[l].type = "bundle", toSwitch[l].xid <= x,
                               installed <= toSwitch[l].to
                        PROVE  Comes(w, x)
            BY DEF Comes
          <6>1. toSwitch[l] \in Bundle
            BY MessageTypes
          <6>2. toSwitch[l].to \in Int
            BY <6>1 DEF Bundle
          <6>3. w <= toSwitch[l].to
            BY <3>3, <5>1, <6>2, SMT, SMTT(60)
          <6>. QED  BY <6>3 DEF Comes
        <5>. QED  BY <1>3, <2>1, <5>2, <5>3, <5>4
      <4>. QED  BY <1>1, <1>2, <3>1, <3>2, <4>1, <4>2, <4>3, KeptAppended
    <3>. QED  BY <3>4, <3>5
  <2>. QED  BY <2>3, <2>4
<1>6. CASE PutMessages
  <2>1. cur_cfg' = cur_cfg /\ xid' = xid + 1 /\ outcome = "done"
    BY <1>6 DEF PutMessages
  <2>2. NewInstalled = FlowsOf(view) /\ NewInstalled \in Int
    <3>1. NewInstalled = desired
      BY <1>6, PutInstalls
    <3>. QED  BY <2>1, <3>1 DEF FlowsFollow, OfctrlTypes
  <2>3. PICK m : /\ toSwitch' = Append(toSwitch, m)
                 /\ m = [type |-> "bundle", xid |-> xid', clear |-> initialClear, from |-> installed, to |-> NewInstalled]
    BY <1>6 DEF PutMessages
  <2>4. m.type = "bundle" /\ m.xid = xid' /\ m.to = NewInstalled
    BY <2>3
  <2>5. /\ \A l \in DOMAIN toSwitch : l \in DOMAIN toSwitch' /\ toSwitch'[l] = toSwitch[l]
        /\ Len(toSwitch) + 1 \in DOMAIN toSwitch' /\ toSwitch'[Len(toSwitch) + 1] = m
    <3>1. toSwitch \in Seq(Request \cup Bundle) /\ toSwitch' = Append(toSwitch, m)
      BY <2>3 DEF OfctrlTypes
    <3>. QED  BY <3>1, SMT, SMTT(60)
  <2>6. Carried
    <3>1. \A w, x : Comes(w, x) => Comes(w, x)'
      BY <2>5 DEF Comes
    <3>2. \A x : Spoiled(x) => Spoiled(x)'
      BY <1>1 DEF Spoiled
    <3>. QED  BY <3>1, <3>2 DEF Carried
  <2>7. PICK x \in Nat : x = xid'
    BY <2>1 DEF OfctrlTypes
  <2>8. \A f \in Tracks' : f \in Tracks \/ f.xid = x
    <3>1. [xid |-> xid', req_cfg |-> req_seqno].xid = x
      BY <2>7
    <3>. QED  BY <1>6, <3>1, TrackedFacts DEF Tracks
  <2>9. ASSUME NEW w \in Nat, w <= FlowsOf(view)
        PROVE  Comes(w, x)'
    <3>1. x <= x
      BY <2>7, SMT, SMTT(60)
    <3>2. m.xid <= x /\ w <= m.to
      BY <2>2, <2>4, <2>7, <2>9, <3>1
    <3>. QED  BY <2>4, <2>5, <3>2 DEF Comes
  <2>. QED  BY <1>1, <1>2, <2>1, <2>6, <2>7, <2>8, <2>9, KeptAppended
<1>. QED  BY <1>4, <1>5, <1>6

\* The requests that are acknowledged are those that cur_cfg has got to.
LEMMA KeptStore ==
    ASSUME Kept, Numbers, Contents, Contents', Onward, NEW ok \in BOOLEAN, Store(ok)
    PROVE  Kept'
<1>1. UNCHANGED <<need, view, best, lost, unaware, cur_cfg, flow_updates, toSwitch, toController>>
  BY DEF Store, putVars, connVars, channels, switchVars, history
<1>. SUFFICES ASSUME lost = 0, ~ unaware PROVE Kept'
  BY <1>1 DEF Kept
<1>2. PICK n \in 0..Len(updates) :
            /\ IF pc = "ack" THEN ofctrl_seqno_run(n) ELSE n = 0
            /\ app' = IF n = 0 THEN app ELSE [app EXCEPT !.cur_cfg = updates[n].req_cfg]
            /\ updates' = <<>> \/ updates' = SubSeq(updates, n + 1, Len(updates))
  BY DEF Store, engine_need_run, IsConnectedRun
<1>3. Fewer
  BY <1>2, UpdatesFewer
<1>4. \A u \in Requests : Founded(u)' /\ Satisfied(u)' /\ \A f \in Tracks' : Covered(u, f)'
  <2>1. Tracks' = Tracks
    BY <1>1 DEF Tracks
  <2>2. \A w, x : (Comes(w, x) => Comes(w, x)') /\ (Spoiled(x) => Spoiled(x)')
    BY <1>1 DEF Comes, Spoiled
  <2>3. Carried
    BY <2>2 DEF Carried
  <2>4. best' \in Nat /\ best <= best'
    BY <1>1, SMT, SMTT(60) DEF Numbers
  <2>5. \A u \in Requests : Founded(u)' /\ Satisfied(u)'
    BY <1>1, WantedStays DEF Kept, Satisfied
  <2>. QED  BY <2>1, <2>3, <2>4, <2>5, CoveredStays DEF Kept
<1>5. \A u \in Requests' : u \in Requests
  BY <1>3 DEF Requests, Fewer
<1>6. app'.cur_cfg = app.cur_cfg \/ \E u \in Requests : Processed(u) /\ app'.cur_cfg = u.req_cfg
  <2>1. CASE n = 0
    BY <1>2, <2>1
  <2>2. CASE n # 0
    <3>1. updates \in Seq(Pending) /\ app \in [cur_cfg : Nat, req_cfg : Nat]
      BY DEF Numbers, Pending
    <3>2. n \in DOMAIN updates /\ n \in 1..n
      BY <1>2, <2>2, <3>1, SMT, SMTT(60)
    <3>3. Processed(updates[n])
      BY <1>2, <2>2, <3>2 DEF ofctrl_seqno_run
    <3>4. app' = [app EXCEPT !.cur_cfg = updates[n].req_cfg]
      BY <1>2, <2>2
    <3>5. app'.cur_cfg = updates[n].req_cfg
      BY <3>1, <3>4
    <3>. QED  BY <3>2, <3>3, <3>5 DEF Requests
  <2>. QED  BY <2>1, <2>2
<1>7. Done(app.cur_cfg)'
  <2>1. CASE app'.cur_cfg = app.cur_cfg
    BY <1>1, <2>1 DEF Kept, Done
  <2>2. ASSUME NEW u \in Requests, Processed(u), app'.cur_cfg = u.req_cfg
        PROVE  Done(app.cur_cfg)'
    BY <1>1, <2>2 DEF Kept, Done, Satisfied, Processed, Wanted
  <2>. QED  BY <1>6, <2>1, <2>2
<1>8. Done(reported)'
  <2>1. reported' = app'.cur_cfg \/ reported' = reported
    BY DEF Store
  <2>2. CASE reported' = app'.cur_cfg
    BY <1>7, <2>2 DEF Done
  <2>3. CASE reported' = reported
    <3>1. Done(reported)
      BY DEF Kept
    <3>. QED  BY <1>1, <2>3, <3>1 DEF Done
  <2>. QED  BY <2>1, <2>2, <2>3
<1>. QED  BY <1>4, <1>5, <1>7, <1>8 DEF Kept

\* Every step.
LEMMA KeptFollows ==
    ASSUME Kept, Numbers, Numbers', Contents, Contents', Onward, Order, PutDue, Linked, Tracking, Tracking',
           FlowsFollow, OfctrlTypes, OfctrlTypes', Handshake, Reconciled, InstalledMatchesSwitch, [Next]_vars
    PROVE  Kept'
<1>0. lost \in Nat
  BY DEF Numbers
<1>1. CASE Northd \/ Deliver \/ DeliverCondition \/ Connect \/ (\E txn, b \in BOOLEAN : OfctrlRunDone(txn, b))
           \/ EngineSkipped \/ UNCHANGED vars
  <2>1. UNCHANGED <<app, reported, lost, unaware, best, cur_cfg, flow_updates, toSwitch, toController, updates>>
    BY <1>1 DEF Northd, Deliver, DeliverCondition, Connect, OfctrlRunDone, EngineSkipped, engineFrame, dbVars,
          putVars, seqnoVars, connVars, channels, switchVars, history, vars
  <2>. QED  BY <2>1, UpdatesFewer, KeptStill
<1>2. CASE EngineCanceled \/ \E recompute \in BOOLEAN : EngineRun(recompute)
  <2>1. UNCHANGED <<app, reported, lost, unaware, best, cur_cfg, flow_updates, toSwitch, toController>>
    BY <1>2 DEF EngineCanceled, EngineRun, engineFrame, dbVars, putVars, connVars, channels, switchVars, history
  <2>2. updates' = updates \/ updates' = <<>>
    BY <1>2 DEF EngineCanceled, EngineRun, IsConnectedRun
  <2>. QED  BY <2>1, <2>2, UpdatesFewer, KeptStill
<1>3. CASE Disconnect
  BY <1>0, <1>3, LostGrows DEF Disconnect, Kept
<1>4. CASE OfctrlReconnected \/ run_S_NEW \/ run_S_WAIT_BEFORE_CLEAR \/ run_S_CLEAR_FLOWS
           \/ recv_S_TLV_TABLE_REQUESTED \/ recv_S_TLV_TABLE_MOD_SENT
  <2>1. UNCHANGED <<app, reported, lost, unaware, best, cur_cfg, updates>>
    BY <1>4 DEF OfctrlReconnected, run_S_NEW, run_S_WAIT_BEFORE_CLEAR, run_S_CLEAR_FLOWS,
          recv_S_TLV_TABLE_REQUESTED, recv_S_TLV_TABLE_MOD_SENT, ofctrlFrame, dbVars, putVars, seqnoVars
  <2>2. state' # "S_UPDATE_FLOWS" \/ flow_updates' = <<>>
    BY <1>4 DEF OfctrlReconnected, run_S_NEW, run_S_WAIT_BEFORE_CLEAR, run_S_CLEAR_FLOWS, recv_S_TLV_TABLE_REQUESTED,
          recv_S_TLV_TABLE_MOD_SENT
  <2>3. lost = 0 => flow_updates' = <<>>
    BY <2>1, <2>2 DEF Tracking
  <2>. QED  BY <2>1, <2>3, UpdatesFewer, KeptBefore
<1>5. CASE ofctrl_recv
  <2>1. UNCHANGED <<app, reported, unaware, best, cur_cfg, flow_updates, updates, state>>
    BY <1>5 DEF ofctrl_recv, ofctrlFrame, dbVars, putVars, seqnoVars
  <2>2. CASE Disconnected
    BY <1>0, <2>2, LostGrows DEF Kept
  <2>3. CASE lost' = lost /\ state # "S_UPDATE_FLOWS"
    <3>1. lost = 0 => flow_updates' = <<>>
      BY <2>1, <2>3 DEF Tracking
    <3>. QED  BY <2>1, <2>3, <3>1, UpdatesFewer, KeptBefore
  <2>4. Disconnected \/ (lost' = lost /\ state # "S_UPDATE_FLOWS")
    BY <1>5 DEF ofctrl_recv
  <2>. QED  BY <2>2, <2>3, <2>4
<1>6. ASSUME NEW mapped \in BOOLEAN, SwitchTlv(mapped)
      PROVE  Kept'
  <2>1. toSwitch # <<>> /\ toSwitch[1].type # "bundle" /\ 1 \in DOMAIN toSwitch
    BY <1>6, SMT, SMTT(60) DEF SwitchTlv, OfctrlTypes
  <2>2. UNCHANGED <<app, reported, lost, unaware, best, cur_cfg, flow_updates, updates>>
    BY <1>6 DEF SwitchTlv, Reply, dbVars, putVars, seqnoVars, switchVars, history
  <2>3. state # "S_UPDATE_FLOWS"
    BY <2>1 DEF Handshake
  <2>4. lost = 0 => flow_updates' = <<>>
    BY <2>2, <2>3 DEF Tracking
  <2>. QED  BY <2>2, <2>4, UpdatesFewer, KeptBefore
<1>7. CASE SwitchApply \/ SwitchRefuse
  BY <1>7, KeptSwitch
<1>8. CASE recv_barrier_reply
  BY <1>8, KeptReceive
<1>9. CASE ofctrl_seqno_update_create
  BY <1>9, KeptCreate
<1>10. CASE PutNothing \/ PutMessages \/ PutUpToDate
  BY <1>10, KeptPut
<1>11. CASE \E ok \in BOOLEAN : Store(ok)
  BY <1>11, KeptStore
<1>. QED
  BY <1>1, <1>2, <1>3, <1>4, <1>5, <1>6, <1>7, <1>8, <1>9, <1>10, <1>11
  DEF Next, Environment, Faults, OfctrlRun, Iteration

\* The invariant that the reported number rests on.
ReportInv ==
    /\ FlowsFollow /\ OfctrlTypes /\ Handshake /\ Reconciled /\ InstalledMatchesSwitch
    /\ Contents /\ Numbers /\ Order /\ PutDue /\ Linked /\ Tracking /\ Kept

LEMMA ReportInvInit ==
    ASSUME Init
    PROVE  ReportInv
<1>1. FlowsFollow /\ OfctrlTypes /\ Handshake /\ Reconciled /\ InstalledMatchesSwitch
  BY InstalledInvInit
<1>2. /\ reported = 0 /\ app = [cur_cfg |-> 0, req_cfg |-> 0] /\ updates = <<>> /\ flow_updates = <<>>
      /\ toSwitch = <<>> /\ toController = <<>>
  BY DEF Init
<1>3. Contents
  <2>1. /\ sb = [flows |-> 1, nb_cfg |-> 1] /\ need = [n \in 1..MaxCfg |-> 1]
        /\ view = [flows |-> 1, nb_cfg |-> 1, full |-> MonitorAll]
    BY DEF Init
  <2>2. sb.nb_cfg = 1 /\ sb.flows = 1 /\ view.nb_cfg = 1 /\ view.flows = 1
    BY <2>1
  <2>3. 1 \in Nat \ {0} /\ 1 \in 1..MaxCfg /\ 1 <= 1
    BY BoundsAssumption, SMT, SMTT(60)
  <2>4. need \in [1..MaxCfg -> Nat] /\ need[1] = 1
    BY <2>1, <2>3
  <2>5. view \in [flows : Nat, nb_cfg : Nat \ {0}, full : BOOLEAN]
    BY <2>1, <2>3, MonitorAllAssumption
  <2>. QED  BY <2>2, <2>3, <2>4, <2>5 DEF Contents
<1>4. Numbers
  <2>1. view.nb_cfg = 1 /\ nb_cfg = 0 /\ req_seqno = 0 /\ cur_cfg = 0 /\ lost = 0 /\ best = 0 /\ switch = -1
    BY DEF Init, Empty, Bad
  <2>2. app \in [cur_cfg : Nat, req_cfg : Nat] /\ app.cur_cfg = 0 /\ app.req_cfg = 0
    BY <1>2
  <2>3. /\ updates \in Seq([flow_cfg : Nat, req_cfg : Nat \ {0}]) /\ DOMAIN updates = {}
        /\ flow_updates \in Seq([xid : Nat, req_cfg : Nat])
    BY <1>2, SMT, SMTT(60)
  <2>4. 0 \in Nat /\ 0 <= 1 /\ -1 <= 0
    BY SMT, SMTT(60)
  <2>. QED  BY <1>2, <2>1, <2>2, <2>3, <2>4 DEF Numbers
<1>5. Order
  BY <1>2, SMT, SMTT(60) DEF Order
<1>6. PutDue /\ Linked
  <2>1. force /\ outcome # "done" /\ ~ ofConnected /\ state = "S_NEW"
    BY DEF Init
  <2>. QED  BY <2>1 DEF PutDue, Linked
<1>7. Tracking
  <2>1. cur_cfg = 0 /\ req_seqno = 0 /\ 0 <= 0
    BY SMT, SMTT(60) DEF Init
  <2>2. DOMAIN flow_updates = {} /\ DOMAIN toSwitch = {} /\ DOMAIN toController = {}
    BY <1>2, SMT, SMTT(60)
  <2>. QED  BY <1>2, <2>1, <2>2 DEF Tracking, NoBundle, NoneRefused
<1>8. Kept
  <2>1. Requests = {}
    BY <1>2, SMT, SMTT(60) DEF Requests
  <2>2. Done(app.cur_cfg) /\ Done(reported)
    BY <1>2 DEF Done
  <2>. QED  BY <2>1, <2>2 DEF Kept
<1>. QED  BY <1>1, <1>3, <1>4, <1>5, <1>6, <1>7, <1>8 DEF ReportInv

LEMMA ReportInvFollows ==
    ASSUME ReportInv, [Next]_vars
    PROVE  ReportInv'
<1>1. /\ FlowsFollow /\ OfctrlTypes /\ Handshake /\ Reconciled /\ InstalledMatchesSwitch
      /\ Contents /\ Numbers /\ Order /\ PutDue /\ Linked /\ Tracking /\ Kept
  BY DEF ReportInv
<1>2. FlowsFollow' /\ OfctrlTypes' /\ Handshake' /\ Reconciled' /\ InstalledMatchesSwitch'
  BY <1>1, FlowsFollowNext, TypesFollow, HandshakeFollows, ReconciledFollows, MatchesFollows
<1>3. Contents' /\ Onward
  BY <1>1, ContentsFollow
<1>4. Numbers'
  BY <1>1, <1>3, NumbersFollow
<1>5. Order' /\ PutDue' /\ Linked'
  BY <1>1, <1>2, OrderFollows, PutDueFollows, LinkedFollows
<1>6. Tracking'
  BY <1>1, <1>2, TrackingFollows
<1>7. Kept'
  BY <1>1, <1>2, <1>3, <1>4, <1>6, KeptFollows
<1>. QED  BY <1>2, <1>3, <1>4, <1>5, <1>6, <1>7 DEF ReportInv

\* A chassis reports a number only when its switch has had every flow of the contents
\* that the number stands for: store_nb_cfg after ofctrl_seqno_run, the answers to the
\* barriers and the bundles before them, as long as no connection is lost and nb_cfg
\* was not read while rows were missing.
THEOREM ReportedAreInstalled == Spec => []ReportedIsInstalled
<1>1. Init => ReportInv
  BY ReportInvInit
<1>2. ReportInv /\ [Next]_vars => ReportInv'
  BY ReportInvFollows
<1>3. ReportInv => ReportedIsInstalled
  BY DEF ReportInv, Kept, Done, ReportedIsInstalled
<1>. QED  BY <1>1, <1>2, <1>3, PTL DEF Spec

=============================================================================
