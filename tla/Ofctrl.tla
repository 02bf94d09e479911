------------------------------- MODULE Ofctrl -------------------------------
(***************************************************************************)
(* The path of a configuration number through ovn-controller: the          *)
(* southbound view, the incremental engine, ofctrl and its OpenFlow        *)
(* connection, the sequence numbers of ofctrl-seqno, and the number that   *)
(* the chassis reports in Chassis_Private (ovn-controller.c, ofctrl.c,     *)
(* ofctrl-seqno.c, inc-proc-eng.c).                                        *)
(*                                                                         *)
(* A flow table is a version number: an even one, 2 * f, holds everything  *)
(* that the southbound contents f ask for, 2 * f - 1 lacks the rows of     *)
(* datapaths that are not monitored yet, Empty is no flow at all and Bad a *)
(* table that is not known, or what a difference makes of a table that it  *)
(* was not made for.                                                       *)
(*                                                                         *)
(* An iteration of the main loop takes the steps run, engine, request,     *)
(* put, ack, store.  The process has one thread, which reads its databases *)
(* and its connection in the first step only; what they do during the      *)
(* others cannot be told from what they do before the next iteration, and  *)
(* takes place then.                                                       *)
(***************************************************************************)
EXTENDS Integers, Sequences

CONSTANTS MaxFlows,     \* bound: versions of the southbound contents
          MaxCfg,       \* bound: values of SB_Global.nb_cfg
          MaxLosses,    \* bound: OpenFlow connections that end
          MonitorAll    \* ovn-monitor-all: every row is monitored from the start

ASSUME BoundsAssumption ==
    MaxFlows \in Nat \ {0} /\ MaxCfg \in Nat \ {0} /\ MaxLosses \in Nat
ASSUME MonitorAllAssumption == MonitorAll \in BOOLEAN

VARIABLES
    sb,             \* the southbound database: version of its contents, SB_Global.nb_cfg
    need,           \* history: the contents that each nb_cfg stands for
    reported,       \* Chassis_Private.nb_cfg
    view,           \* the IDL's copy; full: no row outside the conditions is missing
    tracker,        \* the copy at the last ovsdb_idl_track_clear
    cond,           \* cond_seqno = expected_cond_seqno ("met"); what was sent may be outdated
    settled,        \* ~ daemon_started_recently()
    pc,             \* the step of the main loop
    sbTxn,          \* this iteration may write to the southbound database
    backlog,        \* ofctrl_has_backlog() in this iteration
    outcome,        \* of the engine in this iteration; lflow_output has data if "done"
    changed,        \* lflows_changed or pflows_changed
    force,          \* engine_force_recompute
    canceled,       \* engine_run_canceled
    ofConnected,    \* the data of the node ofctrl_is_connected
    desired,        \* the desired flow table
    tracked,        \* its change_tracked
    base,           \* the table its tracked_flows start from
    state,          \* state of ofctrl
    proceed,        \* wait_before_clear_proceed
    initialClear,   \* ofctrl_initial_clear
    skipped,        \* skipped_last_time
    old_req_cfg,    \* old_req_cfg of ofctrl_put
    cur_cfg,        \* cur_cfg of ofctrl
    flow_updates,
    installed,      \* installed_lflows and installed_pflows
    nb_cfg,         \* the static variable of get_nb_cfg
    updates,        \* ofctrl_seqno_updates
    req_seqno,      \* ofctrl_req_seqno
    app,            \* the ofctrl_seqno_state of type nb_cfg
    connected,
    fresh,          \* the connection is newer than ofctrl's seqno
    toSwitch, toController,
    xid,            \* the last xid of a barrier on this connection
    switch,         \* the flow table of the switch
    best,           \* history: the most complete table the switch has had
    lost,           \* history: OpenFlow connections that have ended
    unaware         \* history: nb_cfg was taken while rows were missing and not asked for

dbVars == <<sb, need, reported>>
viewVars == <<view, tracker, cond, settled>>
iterVars == <<sbTxn, backlog, outcome, changed>>
engineVars == <<force, canceled, ofConnected>>
tableVars == <<desired, tracked, base>>
putVars == <<initialClear, skipped, old_req_cfg, cur_cfg, flow_updates, installed>>
seqnoVars == <<nb_cfg, updates, req_seqno, app>>
channels == <<toSwitch, toController>>
connVars == <<connected, fresh, channels>>
switchVars == <<switch, best>>
history == <<lost, unaware>>
vars == <<dbVars, viewVars, pc, iterVars, engineVars, tableVars, state, proceed, putVars,
          seqnoVars, connVars, xid, switchVars, history>>

Empty == 0
Bad == -1
FlowsOf(v) == IF v.full THEN 2 * v.flows ELSE 2 * v.flows - 1
\* A difference made for the table "from" leads to the table "to" from there only.
Patch(table, from, to) == IF table = from THEN to ELSE Bad
Larger(a, b) == IF a > b THEN a ELSE b

\* A process that starts finds on the switch what an earlier one has left there.
\* Its IDL has just connected: a recompute is forced.
Init ==
    /\ sb = [flows |-> 1, nb_cfg |-> 1] /\ need = [n \in 1..MaxCfg |-> 1] /\ reported = 0
    /\ switch = Bad /\ best = Empty
    /\ view = [flows |-> 1, nb_cfg |-> 1, full |-> MonitorAll]
    /\ tracker = view /\ cond = "unset" /\ settled = FALSE
    /\ pc = "run" /\ sbTxn = FALSE /\ backlog = TRUE /\ outcome = "stale" /\ changed = FALSE
    /\ force = TRUE /\ canceled = FALSE /\ ofConnected = FALSE
    /\ desired = Empty /\ tracked = FALSE /\ base = Empty
    /\ state = "S_NEW" /\ proceed = FALSE /\ initialClear = FALSE /\ skipped = FALSE
    /\ old_req_cfg = 0 /\ cur_cfg = 0 /\ flow_updates = <<>> /\ installed = Empty
    /\ nb_cfg = 0 /\ updates = <<>> /\ req_seqno = 0 /\ app = [cur_cfg |-> 0, req_cfg |-> 0]
    /\ connected = FALSE /\ fresh = FALSE /\ toSwitch = <<>> /\ toController = <<>> /\ xid = 0
    /\ lost = 0 /\ unaware = FALSE

-----------------------------------------------------------------------------
(* The southbound database *)

\* ovn-northd writes new contents, a new nb_cfg, or both, in one transaction.
Northd ==
    /\ pc = "run"
    /\ \E f \in 0..1, n \in 0..1 :
        /\ f + n > 0 /\ sb.flows + f <= MaxFlows /\ sb.nb_cfg + n <= MaxCfg
        /\ sb' = [flows |-> sb.flows + f, nb_cfg |-> sb.nb_cfg + n]
    /\ need' = IF sb'.nb_cfg = sb.nb_cfg THEN need ELSE [need EXCEPT ![sb'.nb_cfg] = sb'.flows]
    /\ UNCHANGED <<reported, viewVars, pc, iterVars, engineVars, tableVars, state, proceed, putVars,
                   seqnoVars, connVars, xid, switchVars, history>>

\* ovsdb_idl_loop_run takes the changes that have arrived, of the rows that the
\* conditions cover; the new contents may need more, also more than conditions
\* that were sent before.
Deliver ==
    /\ pc = "run" /\ (view.flows # sb.flows \/ view.nb_cfg # sb.nb_cfg)
    /\ \E full \in {view.full, view.full /\ (MonitorAll \/ view.flows = sb.flows)} :
        /\ view' = [flows |-> sb.flows, nb_cfg |-> sb.nb_cfg, full |-> full]
        /\ cond' \in {cond} \cup IF cond = "sent" /\ ~ full /\ view.flows # sb.flows
                               THEN {"outdated"} ELSE {}
    /\ UNCHANGED <<dbVars, tracker, settled, pc, iterVars, engineVars, tableVars, state,
                   proceed, putVars, seqnoVars, connVars, xid, switchVars, history>>

\* The reply to a change of the conditions, after the rows they ask for.
DeliverCondition ==
    /\ pc = "run" /\ cond \in {"sent", "outdated"}
    /\ cond' = "met" /\ view' = [view EXCEPT !.full = view.full \/ cond = "sent"]
    /\ UNCHANGED <<dbVars, tracker, settled, pc, iterVars, engineVars, tableVars, state, proceed,
                   putVars, seqnoVars, connVars, xid, switchVars, history>>

-----------------------------------------------------------------------------
(* The OpenFlow connection and the switch *)

\* The connection comes up, which rconn_run notices.
Connect ==
    /\ pc = "run" /\ ~ connected
    /\ connected' = TRUE /\ fresh' = TRUE
    /\ UNCHANGED <<dbVars, viewVars, pc, iterVars, engineVars, tableVars, state, proceed, putVars,
                   seqnoVars, channels, xid, switchVars, history>>

\* The connection ends, and with it what is on its way.  The switch may have ended
\* as well: what it has from then on is not known.
Disconnected ==
    /\ connected' = FALSE /\ fresh' = FALSE /\ toSwitch' = <<>> /\ toController' = <<>>
    /\ xid' = 0 /\ lost' = lost + 1 /\ switch' = Bad

Disconnect ==
    /\ pc = "run" /\ connected /\ lost < MaxLosses
    /\ Disconnected
    /\ UNCHANGED <<dbVars, viewVars, pc, iterVars, engineVars, tableVars, state, proceed, putVars,
                   seqnoVars, best, unaware>>

Reply(messages) ==
    /\ pc = "run"
    /\ toSwitch' = Tail(toSwitch)
    /\ toController' = toController \o messages
    /\ UNCHANGED <<dbVars, viewVars, pc, iterVars, engineVars, tableVars, state, proceed, putVars,
                   seqnoVars, connected, fresh, xid, history>>

Message(type, id) == [type |-> type, xid |-> id]

\* The answers to NXT_TLV_TABLE_REQUEST and to NXT_TLV_TABLE_MOD with its barrier.
\* Answers that disable Geneve lead where those lead that find the option mapped.
SwitchTlv(mapped) ==
    /\ toSwitch # <<>> /\ Head(toSwitch).type \in {"tlv_request", "tlv_mod"}
    /\ LET answer == <<Message(IF mapped THEN "tlv_mapped" ELSE "tlv_unmapped", 0)>>
           barrier == <<Message("barrier", 0)>>
       IN  Reply(IF Head(toSwitch).type = "tlv_request" THEN answer
                 ELSE IF mapped THEN barrier ELSE answer \o barrier)
    /\ UNCHANGED switchVars

\* A bundle is applied as a whole before the barrier behind it is answered.
SwitchApply ==
    /\ toSwitch # <<>> /\ Head(toSwitch).type = "bundle"
    /\ LET m == Head(toSwitch)
       IN  /\ switch' = IF m.clear THEN m.to ELSE Patch(switch, m.from, m.to)
           /\ best' = Larger(best, switch')
           /\ Reply(<<Message("barrier", m.xid)>>)

\* A bundle is refused: an error, and the answer to the barrier.
SwitchRefuse ==
    /\ toSwitch # <<>> /\ Head(toSwitch).type = "bundle" /\ lost < MaxLosses
    /\ Reply(<<Message("error", 0), Message("barrier", Head(toSwitch).xid)>>)
    /\ UNCHANGED switchVars

-----------------------------------------------------------------------------
(* ofctrl_run *)

ofctrlFrame == <<dbVars, viewVars, pc, iterVars, canceled, ofConnected, tableVars, seqnoVars,
                 best, unaware>>

\* FAULTY: the state machine goes on where the old connection left it.
ReconnectedKeepsState ==
    /\ pc = "run" /\ connected /\ fresh
    /\ fresh' = FALSE /\ force' = TRUE
    /\ UNCHANGED <<ofctrlFrame, state, proceed, putVars, connected, channels, xid, lost, switch>>

\* A connection that ofctrl has not seen: start again, and force a recompute.
OfctrlReconnected ==
    /\ pc = "run" /\ connected /\ fresh
    /\ fresh' = FALSE /\ state' = "S_NEW" /\ force' = TRUE
    /\ UNCHANGED <<ofctrlFrame, proceed, putVars, connected, channels, xid, lost, switch>>

Running == pc = "run" /\ connected /\ ~ fresh

run_S_NEW ==
    /\ Running /\ state = "S_NEW"
    /\ toSwitch' = Append(toSwitch, Message("tlv_request", 0))
    /\ proceed' = FALSE /\ state' = "S_TLV_TABLE_REQUESTED"
    /\ UNCHANGED <<ofctrlFrame, force, putVars, connected, fresh, toController, xid, lost, switch>>

run_S_WAIT_BEFORE_CLEAR ==
    /\ Running /\ state = "S_WAIT_BEFORE_CLEAR" /\ proceed
    /\ state' = "S_CLEAR_FLOWS"
    /\ UNCHANGED <<ofctrlFrame, force, proceed, putVars, connVars, xid, lost, switch>>

run_S_CLEAR_FLOWS ==
    /\ Running /\ state = "S_CLEAR_FLOWS"
    /\ initialClear' = TRUE /\ installed' = Empty /\ flow_updates' = <<>>
    /\ state' = "S_UPDATE_FLOWS"
    /\ UNCHANGED <<ofctrlFrame, force, proceed, skipped, old_req_cfg, cur_cfg, connVars, xid, lost, switch>>

\* The states whose run_ function has nothing to do wait for a message.
Waiting ==
    \/ state \in {"S_TLV_TABLE_REQUESTED", "S_TLV_TABLE_MOD_SENT", "S_UPDATE_FLOWS"}
    \/ state = "S_WAIT_BEFORE_CLEAR" /\ ~ proceed

Receive == Running /\ Waiting /\ toController # <<>>
Received == toController' = Tail(toController)

\* recv_S_TLV_TABLE_REQUESTED: the option is there, or has to be asked for.
recv_S_TLV_TABLE_REQUESTED ==
    /\ Receive /\ state = "S_TLV_TABLE_REQUESTED" /\ Head(toController).type # "barrier"
    /\ IF Head(toController).type = "tlv_mapped"
       THEN state' = "S_WAIT_BEFORE_CLEAR" /\ UNCHANGED toSwitch
       ELSE state' = "S_TLV_TABLE_MOD_SENT" /\ toSwitch' = Append(toSwitch, Message("tlv_mod", 0))
    /\ Received
    /\ UNCHANGED <<ofctrlFrame, force, proceed, putVars, connected, fresh, xid, lost, switch>>

\* recv_S_TLV_TABLE_MOD_SENT: the option is ours, or another controller was faster.
recv_S_TLV_TABLE_MOD_SENT ==
    /\ Receive /\ state = "S_TLV_TABLE_MOD_SENT"
    /\ state' = IF Head(toController).type = "barrier" THEN "S_WAIT_BEFORE_CLEAR" ELSE "S_NEW"
    /\ Received
    /\ UNCHANGED <<ofctrlFrame, force, proceed, putVars, connected, fresh, toSwitch, xid, lost, switch>>

\* flow_updates_handle_barrier_reply
recv_barrier_reply ==
    /\ Receive /\ state = "S_UPDATE_FLOWS" /\ Head(toController).type = "barrier"
    /\ IF flow_updates # <<>> /\ Head(flow_updates).xid = Head(toController).xid
       THEN /\ cur_cfg' = Larger(cur_cfg, Head(flow_updates).req_cfg)
            /\ flow_updates' = Tail(flow_updates)
       ELSE UNCHANGED <<cur_cfg, flow_updates>>
    /\ Received
    /\ UNCHANGED <<ofctrlFrame, force, state, proceed, initialClear, skipped, old_req_cfg, installed,
                   connected, fresh, toSwitch, xid, lost, switch>>

\* ofctrl_recv: an error ends the connection, anything else is ignored.
ofctrl_recv ==
    /\ Receive
    /\ LET type == Head(toController).type
       IN  \/ type = "error" /\ Disconnected
           \/ /\ type = "barrier" /\ state \in {"S_TLV_TABLE_REQUESTED", "S_WAIT_BEFORE_CLEAR"}
              /\ Received
              /\ UNCHANGED <<connected, fresh, toSwitch, xid, lost, switch>>
    /\ UNCHANGED <<ofctrlFrame, force, state, proceed, putVars>>

\* ofctrl_run returns; "backlog" is whether the queue to the switch was not
\* written out, or there is no connection.
OfctrlRunDone(txn, b) ==
    /\ pc = "run" /\ ~ fresh /\ (connected => Waiting)
    /\ pc' = "engine"
    /\ sbTxn' = txn /\ backlog' = (~ connected \/ (b /\ toSwitch # <<>>))
    /\ UNCHANGED <<dbVars, viewVars, outcome, changed, engineVars, tableVars, state, proceed, putVars, seqnoVars,
                   connVars, xid, switchVars, history>>

-----------------------------------------------------------------------------
(* The incremental engine *)

\* en_ofctrl_is_connected_run, with ofctrl_seqno_flush of the pending updates when
\* the connection is gone.
IsConnectedRun(pending) ==
    /\ ofConnected' = connected
    /\ IF ofConnected /\ ~ connected
       THEN updates' = <<>> /\ req_seqno' = 0
       ELSE updates' = pending /\ UNCHANGED req_seqno

RecomputeAllowed == sbTxn /\ ~ backlog
\* FAULTY: what the IDL has tracked is forgotten.
InputsIgnoreTracked == ofConnected # connected
InputsChanged == view # tracker \/ ofConnected # connected

engineFrame == <<dbVars, view, tracker, sbTxn, backlog, state, proceed, putVars, nb_cfg, app,
                 connVars, xid, switchVars, history>>

\* The engine does not run: there is no bridge or chassis, or the last run was
\* canceled and a recompute is not allowed.
EngineSkipped ==
    /\ pc = "engine"
    /\ \/ pc' = "store"
       \/ pc' = "request" /\ canceled /\ ~ RecomputeAllowed
    /\ UNCHANGED <<engineFrame, cond, settled, outcome, changed, engineVars, tableVars, updates,
                   req_seqno>>

\* A node that writes to the southbound database would have to be recomputed.
EngineCanceled ==
    /\ pc = "engine" /\ ~ RecomputeAllowed /\ ~ canceled /\ (force \/ InputsChanged)
    /\ pc' = "request"
    /\ outcome' = "canceled" /\ canceled' = TRUE /\ force' = TRUE
    /\ IsConnectedRun(updates) \/ UNCHANGED <<ofConnected, updates, req_seqno>>
    /\ UNCHANGED <<engineFrame, cond, settled, changed, tableVars>>

\* The engine runs to its end: the flow tables are computed anew, or changed by
\* what the IDL has tracked.  Then the conditions follow (update_sb_monitors).
EngineRun(recompute) ==
    /\ pc = "engine" /\ (canceled \/ force => RecomputeAllowed)
    /\ (force => recompute) /\ (recompute => force \/ InputsChanged)
    /\ pc' = "request"
    /\ canceled' = FALSE /\ force' = FALSE
    /\ IsConnectedRun(updates)
    /\ desired' = IF recompute THEN FlowsOf(view)
                  ELSE IF view = tracker THEN desired
                  ELSE Patch(desired, FlowsOf(tracker), FlowsOf(view))
    /\ tracked' = (tracked /\ ~ recompute)
    /\ outcome' = "done" /\ changed' = (recompute \/ desired' # desired)
    /\ cond' \in IF ~ view.full THEN {"sent"}
                 ELSE IF cond = "unset" THEN {"sent", "met"} ELSE {cond}
    /\ settled' = (settled \/ cond' = "met")
    /\ UNCHANGED <<engineFrame, base>>

-----------------------------------------------------------------------------
(* ofctrl_seqno_update_create, ofctrl_put, ofctrl_seqno_run, store_nb_cfg *)

\* FAULTY: the number is taken while the rows it stands for are on their way.
get_nb_cfg_at_once == view.nb_cfg
\* get_nb_cfg: not while rows that belong to it may be on their way.
get_nb_cfg == IF cond = "met" THEN view.nb_cfg ELSE nb_cfg

SameRequest(new_cfg) == new_cfg = app.req_cfg

ofctrl_seqno_update_create ==
    /\ pc = "request"
    /\ pc' = "put"
    /\ nb_cfg' = get_nb_cfg
    /\ IF SameRequest(nb_cfg') THEN UNCHANGED <<app, req_seqno, updates>>
       ELSE /\ app' = [app EXCEPT !.req_cfg = nb_cfg']
            /\ req_seqno' = req_seqno + 1
            /\ updates' = Append(updates, [flow_cfg |-> req_seqno', req_cfg |-> nb_cfg'])
    /\ unaware' = (unaware \/ (nb_cfg' # nb_cfg /\ cond = "met" /\ ~ view.full))
    /\ UNCHANGED <<dbVars, viewVars, iterVars, engineVars, tableVars, state, proceed, putVars,
                   connVars, xid, switchVars, lost>>

\* FAULTY: a put that was not possible last time is forgotten.
NeedPutForgets ==
    \/ changed \/ initialClear
    \/ req_seqno # old_req_cfg /\ cur_cfg # old_req_cfg
NeedPut ==
    \/ changed \/ skipped \/ initialClear
    \/ req_seqno # old_req_cfg /\ cur_cfg # old_req_cfg
CanPut == state = "S_UPDATE_FLOWS" /\ ~ backlog

putFrame == <<dbVars, viewVars, iterVars, engineVars, state, seqnoVars, connected, fresh,
              toController, switchVars, history>>

\* Nothing to put, or nowhere to put it yet.
PutNothing ==
    /\ pc = "put" /\ pc' = "ack"
    /\ \/ outcome # "done" /\ UNCHANGED <<proceed, skipped, old_req_cfg, cur_cfg>>
       \/ /\ outcome = "done" /\ state = "S_WAIT_BEFORE_CLEAR"
          /\ proceed' = (proceed \/ settled) /\ skipped' = TRUE
          /\ UNCHANGED <<old_req_cfg, cur_cfg>>
       \/ /\ outcome = "done" /\ state # "S_WAIT_BEFORE_CLEAR" /\ ~ NeedPut
          /\ IF flow_updates = <<>> /\ req_seqno # old_req_cfg
             THEN cur_cfg' = req_seqno /\ old_req_cfg' = req_seqno
             ELSE UNCHANGED <<cur_cfg, old_req_cfg>>
          /\ UNCHANGED <<proceed, skipped>>
       \/ /\ outcome = "done" /\ state # "S_WAIT_BEFORE_CLEAR" /\ NeedPut /\ ~ CanPut
          /\ skipped' = TRUE /\ old_req_cfg' = req_seqno
          /\ UNCHANGED <<proceed, cur_cfg>>
    /\ UNCHANGED <<putFrame, tableVars, initialClear, flow_updates, installed, toSwitch, xid>>

\* The flows that the switch will have: by track or by compare.
NewInstalled ==
    IF ~ (changed \/ skipped) THEN installed
    ELSE IF tracked THEN Patch(installed, base, desired) ELSE desired

\* The updates on their way, with one more for req_cfg: from the back of the list,
\* later ones are dropped, and one for the same req_cfg waits for the new barrier
\* instead.
Tracked(req) ==
    \E n \in 0..Len(flow_updates) :
        /\ \A i \in n + 1..Len(flow_updates) : flow_updates[i].req_cfg > req
        /\ n > 0 => flow_updates[n].req_cfg <= req
        /\ LET kept == IF n > 0 /\ flow_updates[n].req_cfg = req THEN n - 1 ELSE n
           IN  flow_updates' = Append(SubSeq(flow_updates, 1, kept), [xid |-> xid', req_cfg |-> req])

\* There is something to send, with a barrier behind it.
PutMessages ==
    /\ pc = "put" /\ pc' = "ack"
    /\ outcome = "done" /\ NeedPut /\ CanPut
    /\ initialClear \/ NewInstalled # installed
    /\ xid' = xid + 1
    /\ toSwitch' = Append(toSwitch, [type |-> "bundle", xid |-> xid', clear |-> initialClear,
                                     from |-> installed, to |-> NewInstalled])
    /\ Tracked(req_seqno)
    /\ installed' = NewInstalled
    /\ initialClear' = FALSE /\ skipped' = FALSE /\ old_req_cfg' = req_seqno
    /\ tracked' = TRUE /\ base' = desired
    /\ UNCHANGED <<putFrame, desired, proceed, cur_cfg>>

\* Nothing to send: the last update on its way stands for req_cfg as well.
PutUpToDate ==
    /\ pc = "put" /\ pc' = "ack"
    /\ outcome = "done" /\ NeedPut /\ CanPut
    /\ ~ initialClear /\ NewInstalled = installed
    /\ IF flow_updates = <<>>
       THEN cur_cfg' = req_seqno /\ UNCHANGED flow_updates
       ELSE /\ flow_updates' = [flow_updates EXCEPT ![Len(flow_updates)].req_cfg = req_seqno]
            /\ UNCHANGED cur_cfg
    /\ skipped' = FALSE /\ old_req_cfg' = req_seqno
    /\ tracked' = TRUE /\ base' = desired
    /\ UNCHANGED <<putFrame, desired, proceed, initialClear, installed, toSwitch, xid>>

\* FAULTY: the update of the current number itself is left out.
ProcessedBefore(update) == update.flow_cfg < cur_cfg
Processed(update) == update.flow_cfg <= cur_cfg

\* The first n requests are acknowledged, and no more.
ofctrl_seqno_run(n) ==
    /\ \A i \in 1..n : Processed(updates[i])
    /\ n < Len(updates) => ~ Processed(updates[n + 1])

\* engine_need_run looks at the inputs until it finds one that has changed.
engine_need_run(pending) ==
    \/ IsConnectedRun(pending)
    \/ view # tracker /\ updates' = pending /\ UNCHANGED <<ofConnected, req_seqno>>

\* ofctrl_seqno_run where the chassis is there, engine_need_run if the engine has
\* not run, store_nb_cfg, the commit, which may fail, and ovsdb_idl_track_clear.
Store(ok) ==
    /\ pc \in {"ack", "store"}
    /\ pc' = "run"
    /\ \E n \in 0..Len(updates) :
        /\ IF pc = "ack" THEN ofctrl_seqno_run(n) ELSE n = 0
        /\ app' = IF n = 0 THEN app ELSE [app EXCEPT !.cur_cfg = updates[n].req_cfg]
        /\ LET pending == SubSeq(updates, n + 1, Len(updates))
           IN  IF outcome = "stale" THEN engine_need_run(pending)
               ELSE updates' = pending /\ UNCHANGED <<ofConnected, req_seqno>>
    /\ ~ ok => sbTxn
    /\ reported' = IF sbTxn /\ ok /\ app'.cur_cfg # 0 THEN app'.cur_cfg ELSE reported
    /\ force' = (force \/ ~ ok \/ (outcome = "stale" /\ InputsChanged))
    /\ tracker' = view
    /\ sbTxn' = FALSE /\ backlog' = TRUE /\ outcome' = "stale" /\ changed' = FALSE
    /\ UNCHANGED <<sb, need, view, cond, settled, canceled, tableVars, state, proceed, putVars,
                   nb_cfg, connVars, xid, switchVars, history>>

Environment == Deliver \/ DeliverCondition \/ Connect \/ SwitchTlv(TRUE) \/ SwitchApply
Faults == Disconnect \/ SwitchTlv(FALSE) \/ SwitchRefuse
OfctrlRun ==
    \/ OfctrlReconnected \/ run_S_NEW \/ run_S_WAIT_BEFORE_CLEAR \/ run_S_CLEAR_FLOWS
    \/ recv_S_TLV_TABLE_REQUESTED \/ recv_S_TLV_TABLE_MOD_SENT \/ recv_barrier_reply \/ ofctrl_recv
Iteration ==
    \/ EngineSkipped \/ EngineCanceled \/ \E recompute \in BOOLEAN : EngineRun(recompute)
    \/ ofctrl_seqno_update_create \/ PutNothing \/ PutMessages \/ PutUpToDate
    \/ \E ok \in BOOLEAN : Store(ok)

Next ==
    \/ Northd \/ Environment \/ Faults
    \/ OfctrlRun \/ (\E txn, b \in BOOLEAN : OfctrlRunDone(txn, b)) \/ Iteration

Spec == Init /\ [][Next]_vars

\* The databases, the connection and the switch answer, the main loop receives
\* what they send and ends the iterations it begins; the queue to the switch is
\* written out, the engine finds bridge and chassis, and a transaction is possible
\* and succeeds, again and again.
Fairness ==
    /\ SF_vars(Environment) /\ SF_vars(OfctrlRun) /\ WF_vars(Iteration)
    /\ SF_vars(OfctrlRunDone(TRUE, FALSE))
    /\ SF_vars(\E recompute \in BOOLEAN : EngineRun(recompute))
    /\ SF_vars(sbTxn /\ Store(TRUE))

FairSpec == Spec /\ Fairness

-----------------------------------------------------------------------------
(* Properties *)

NoneRefused == \A i \in DOMAIN toController : toController[i].type # "error"

Tables == {Bad, Empty} \cup 1..2 * MaxFlows

\* The types; requests in particular are made for real numbers only, so that the
\* list of pending requests never holds one for nb_cfg 0.
TypeOK ==
    /\ sb \in [flows : 1..MaxFlows, nb_cfg : 1..MaxCfg]
    /\ need \in [1..MaxCfg -> 1..MaxFlows]
    /\ reported \in 0..MaxCfg
    /\ view \in [flows : 1..MaxFlows, nb_cfg : 1..MaxCfg, full : BOOLEAN]
    /\ tracker \in [flows : 1..MaxFlows, nb_cfg : 1..MaxCfg, full : BOOLEAN]
    /\ cond \in {"unset", "sent", "outdated", "met"}
    /\ pc \in {"run", "engine", "request", "put", "ack", "store"}
    /\ outcome \in {"stale", "canceled", "done"}
    /\ {settled, sbTxn, backlog, changed, force, canceled, ofConnected, tracked, proceed,
        initialClear, skipped, connected, fresh, unaware} \subseteq BOOLEAN
    /\ {desired, base, installed, switch, best} \subseteq Tables
    /\ state \in {"S_NEW", "S_TLV_TABLE_REQUESTED", "S_TLV_TABLE_MOD_SENT", "S_WAIT_BEFORE_CLEAR",
                  "S_CLEAR_FLOWS", "S_UPDATE_FLOWS"}
    /\ {old_req_cfg, cur_cfg, req_seqno, xid, lost} \subseteq Nat
    /\ flow_updates \in Seq([xid : Nat, req_cfg : Nat])
    /\ nb_cfg \in 0..MaxCfg
    /\ updates \in Seq([flow_cfg : Nat, req_cfg : 1..MaxCfg])
    /\ app \in [cur_cfg : 0..MaxCfg, req_cfg : 0..MaxCfg]

\* A chassis reports a number only when its switch has had every flow of the
\* contents that the number stands for.  Not claimed once an OpenFlow connection
\* has been lost, or when nb_cfg was read while a canceled engine run had kept
\* the process from asking for rows.
ReportedIsInstalled ==
    lost = 0 /\ ~ unaware /\ reported # 0 => 2 * need[reported] <= best

\* When ofctrl maintains flows, what it takes for installed is what the switch
\* has or will have: every bundle on its way is made for the table that the one
\* before it leaves, and the last one leaves what is installed.
InstalledMatchesSwitch ==
    connected /\ ~ fresh /\ state = "S_UPDATE_FLOWS" /\ ~ initialClear /\ NoneRefused =>
        /\ installed # Bad
        /\ installed = IF toSwitch = <<>> THEN switch ELSE toSwitch[Len(toSwitch)].to
        /\ \A i \in DOMAIN toSwitch :
            \/ i = 1 /\ toSwitch[i].clear
            \/ toSwitch[i].from = IF i = 1 THEN switch ELSE toSwitch[i - 1].to

\* No change of the southbound database is lost between two iterations: the
\* desired flows are those of the view, or a recompute is due.
NothingLost == pc = "run" => force \/ desired = FlowsOf(tracker)

\* The flows of the last contents get to the switch, whatever is lost or refused.
FlowsConverge == <>[](switch = 2 * sb.flows)

\* The last number is reported, if no OpenFlow connection is lost.
ReportConverges == <>[](lost > 0 \/ reported = sb.nb_cfg)

=============================================================================
