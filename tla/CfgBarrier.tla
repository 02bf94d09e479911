----------------------------- MODULE CfgBarrier -----------------------------
(***************************************************************************)
(* The barrier of "ovn-nbctl --wait": a client increments nb_cfg with its  *)
(* change, ovn-northd copies the number to the southbound database with    *)
(* the contents it computes and reports it as sb_cfg when that transaction *)
(* has committed, every chassis reports the number whose contents it has   *)
(* installed, and ovn-northd reports the least of these as hv_cfg          *)
(* (ovn-nbctl.c, ovn-northd.c, and the loop of ovsdb-idl.c).               *)
(*                                                                         *)
(* The contents of a database are a version number.  A chassis keeps the   *)
(* promise that the module Ofctrl is about: it reports a number after its  *)
(* switch has had the flows of the contents that came with it.             *)
(***************************************************************************)
EXTENDS Integers

CONSTANTS Clients, Chassis,
          MaxWrites,    \* bound: changes of the northbound contents
          MaxFaults     \* bound: failed commits, restarts, chassis that come or go

ASSUME BoundsAssumption == MaxWrites \in Nat /\ MaxFaults \in Nat

VARIABLES
    nb,         \* NB_Global and the contents of the northbound database
    sb,         \* SB_Global.nb_cfg and the contents of the southbound database
    chassis,    \* the Chassis_Private rows: nb_cfg, or Absent
    running,    \* what each chassis has installed, and its number
    client,     \* the processes of ovn-nbctl
    nbView, sbView,     \* the copies of ovn-northd's IDLs
    nbTxn, sbTxn,       \* the transactions that are being committed: none or one
    cur_cfg, next_cfg,  \* of the southbound ovsdb_idl_loop
    dirty,      \* northbound changes that the engine has not processed
    force,      \* engine_force_recompute
    need,       \* history: the contents that each nb_cfg stands for
    faults      \* history: faults so far

dbVars == <<nb, sb, chassis>>
northdVars == <<nbView, sbView, nbTxn, sbTxn, cur_cfg, next_cfg, dirty, force>>
vars == <<dbVars, running, client, northdVars, need, faults>>

Absent == -1
Cfgs == 0..MaxWrites
Lesser(a, b) == IF a < b THEN a ELSE b
Present(rows) == {h \in Chassis : rows[h] # Absent}
View == [content |-> sb.content, nb_cfg |-> sb.nb_cfg, chassis |-> chassis]
NoClient == [pc |-> "idle", wait |-> "none", next_cfg |-> 0, watch |-> {}]

Init ==
    /\ nb = [content |-> 0, nb_cfg |-> 0, sb_cfg |-> 0, hv_cfg |-> 0]
    /\ sb = [content |-> 0, nb_cfg |-> 0]
    /\ \E present \in SUBSET Chassis : chassis = [h \in Chassis |-> IF h \in present THEN 0 ELSE Absent]
    /\ running = [h \in Chassis |-> [content |-> 0, nb_cfg |-> 0]]
    /\ client = [c \in Clients |-> NoClient]
    /\ nbView = nb /\ sbView = View /\ nbTxn = {} /\ sbTxn = {}
    /\ cur_cfg = 0 /\ next_cfg = 0 /\ dirty = FALSE /\ force = TRUE
    /\ need = [n \in Cfgs |-> 0] /\ faults = 0

-----------------------------------------------------------------------------
(* ovn-nbctl *)

\* nbctl_pre_execute and the commit of do_dbctl: the change and the increment of
\* nb_cfg are one transaction.  "sync" increments nb_cfg without a change.
Execute(c, wait, changes) ==
    /\ client[c].pc # "waiting"
    /\ nb.nb_cfg < MaxWrites /\ nb.content + changes <= MaxWrites
    /\ nb' = [nb EXCEPT !.content = @ + changes, !.nb_cfg = @ + 1]
    /\ need' = [need EXCEPT ![nb'.nb_cfg] = nb'.content]
    /\ client' = [client EXCEPT ![c] = [pc |-> "waiting", wait |-> wait,
                                        next_cfg |-> nb'.nb_cfg, watch |-> Present(chassis)]]
    /\ UNCHANGED <<sb, chassis, running, northdVars, faults>>

\* A change that nobody waits for leaves nb_cfg alone.
ExecuteNoWait ==
    /\ nb.content < MaxWrites
    /\ nb' = [nb EXCEPT !.content = @ + 1]
    /\ UNCHANGED <<sb, chassis, running, client, northdVars, need, faults>>

\* FAULTY: the hypervisors are believed before the southbound database is there.
ReachedHv(wait) == IF wait = "sb" THEN nb.sb_cfg ELSE nb.hv_cfg
\* cur_cfg of nbctl_post_execute
Reached(wait) == IF wait = "sb" THEN nb.sb_cfg ELSE Lesser(nb.sb_cfg, nb.hv_cfg)

\* The two ends of nbctl_post_execute.  A client reads its copy of NB_Global, which
\* may be late: it then returns later.
Return(c) ==
    /\ client[c].pc = "waiting" /\ Reached(client[c].wait) >= client[c].next_cfg
    /\ client' = [client EXCEPT ![c].pc = "done"]
    /\ UNCHANGED <<dbVars, running, northdVars, need, faults>>

TimeoutExpired(c) ==
    /\ client[c].pc = "waiting"
    /\ client' = [client EXCEPT ![c].pc = "failed"]
    /\ UNCHANGED <<dbVars, running, northdVars, need, faults>>

-----------------------------------------------------------------------------
(* The chassis *)

ChassisInstall(h) ==
    /\ chassis[h] # Absent /\ running[h] # sb
    /\ running' = [running EXCEPT ![h] = sb]
    /\ UNCHANGED <<dbVars, client, northdVars, need, faults>>

ChassisReport(h) ==
    /\ chassis[h] # Absent /\ chassis[h] # running[h].nb_cfg
    /\ chassis' = [chassis EXCEPT ![h] = running[h].nb_cfg]
    /\ UNCHANGED <<nb, sb, running, client, northdVars, need, faults>>

\* A chassis registers, or is removed.
ChassisChange(h) ==
    /\ faults < MaxFaults /\ faults' = faults + 1
    /\ chassis' = [chassis EXCEPT ![h] = IF @ = Absent THEN 0 ELSE Absent]
    /\ running' = [running EXCEPT ![h] = [content |-> 0, nb_cfg |-> 0]]
    /\ client' = [c \in Clients |-> [client[c] EXCEPT !.watch = @ \ {h}]]
    /\ UNCHANGED <<nb, sb, northdVars, need>>

-----------------------------------------------------------------------------
(* ovn-northd *)

NbChanged == nb.content # nbView.content \/ nb.nb_cfg # nbView.nb_cfg

\* The IDLs take what has changed.
DeliverNb ==
    /\ nbView # nb
    /\ nbView' = nb
    /\ dirty' = (dirty \/ NbChanged)
    /\ UNCHANGED <<dbVars, running, client, sbView, nbTxn, sbTxn, cur_cfg, next_cfg, force, need, faults>>

DeliverSb ==
    /\ sbView # View
    /\ sbView' = View
    /\ UNCHANGED <<dbVars, running, client, nbView, nbTxn, sbTxn, cur_cfg, next_cfg, dirty, force, need,
                   faults>>

\* The numbers whose least is hv_cfg of update_sequence_numbers.
Reported == {nbView.nb_cfg} \cup {sbView.chassis[h] : h \in Present(sbView.chassis)}

sb_cfg_is_in_sync == cur_cfg = 0 \/ nbView.sb_cfg = cur_cfg

\* FAULTY: a transaction without the contents is committed with the number.
AbortsNever(activity, next) == FALSE
\* The southbound transaction is aborted: its number may be ahead of its contents.
Aborts(activity, next) == ~ activity /\ cur_cfg # next

\* FAULTY: a commit that has nothing to write does not count.
CommitSbUnchanged(activity, content, cfg, next) ==
    \/ /\ Aborts(activity, next)
       /\ force' = TRUE /\ UNCHANGED <<sbTxn, cur_cfg>>
    \/ /\ ~ Aborts(activity, next)
       /\ force' = (force /\ ~ activity)
       /\ IF content = sbView.content /\ cfg = sbView.nb_cfg
          THEN UNCHANGED <<sbTxn, cur_cfg>>
          ELSE sbTxn' = {[content |-> content, nb_cfg |-> cfg, applied |-> FALSE]} /\ UNCHANGED cur_cfg
\* ovsdb_idl_loop_commit_and_wait of the southbound loop: aborted, nothing to
\* commit, or sent.
CommitSb(activity, content, cfg, next) ==
    \/ /\ Aborts(activity, next)
       /\ force' = TRUE /\ UNCHANGED <<sbTxn, cur_cfg>>
    \/ /\ ~ Aborts(activity, next)
       /\ force' = (force /\ ~ activity)
       /\ IF content = sbView.content /\ cfg = sbView.nb_cfg
          THEN cur_cfg' = next /\ UNCHANGED sbTxn
          ELSE sbTxn' = {[content |-> content, nb_cfg |-> cfg, applied |-> FALSE]} /\ UNCHANGED cur_cfg

\* An iteration with both transactions: the engine runs unless sb_cfg has to be
\* written first, then update_sequence_numbers and the commits.
Iterate ==
    /\ nbTxn = {} /\ sbTxn = {}
    /\ next_cfg' = nbView.nb_cfg
    /\ \E hv_cfg \in Reported :
        /\ \A n \in Reported : hv_cfg <= n
        /\ LET sb_cfg == IF cur_cfg # 0 THEN cur_cfg ELSE nbView.sb_cfg
           IN  nbTxn' = IF /\ sb_cfg = nbView.sb_cfg /\ hv_cfg = nbView.hv_cfg
                           /\ nbView.nb_cfg = sbView.nb_cfg      \* no timestamp either
                        THEN {}
                        ELSE {[sb_cfg |-> sb_cfg, hv_cfg |-> hv_cfg, applied |-> FALSE]}
    /\ LET activity == sb_cfg_is_in_sync /\ (force \/ dirty)
       IN  CommitSb(activity, IF activity THEN nbView.content ELSE sbView.content,
                    nbView.nb_cfg, nbView.nb_cfg)
    /\ dirty' = (dirty /\ ~ sb_cfg_is_in_sync)
    /\ UNCHANGED <<dbVars, running, client, nbView, sbView, need, faults>>

\* An iteration without one of the transactions, or in which the engine is held
\* back: the southbound transaction is empty.
IterateIdle ==
    /\ sbTxn = {}
    /\ CommitSb(FALSE, sbView.content, sbView.nb_cfg, next_cfg)
    /\ UNCHANGED <<dbVars, running, client, nbView, sbView, nbTxn, next_cfg, dirty, need, faults>>

\* The databases execute a transaction.
NbApply ==
    /\ \E w \in nbTxn : /\ ~ w.applied
                        /\ nb' = [nb EXCEPT !.sb_cfg = w.sb_cfg, !.hv_cfg = w.hv_cfg]
                        /\ nbTxn' = {[w EXCEPT !.applied = TRUE]}
    /\ UNCHANGED <<sb, chassis, running, client, nbView, sbView, sbTxn, cur_cfg, next_cfg, dirty, force,
                   need, faults>>

SbApply ==
    /\ \E w \in sbTxn : /\ ~ w.applied
                        /\ sb' = [content |-> w.content, nb_cfg |-> w.nb_cfg]
                        /\ sbTxn' = {[w EXCEPT !.applied = TRUE]}
    /\ UNCHANGED <<nb, chassis, running, client, nbView, sbView, nbTxn, cur_cfg, next_cfg, dirty, force,
                   need, faults>>

\* ovsdb_idl_try_commit_loop_txn when the commit has ended: with success, or without
\* (refused, or executed and the answer lost with the connection).
NbCommitted(ok) ==
    /\ \E w \in nbTxn : /\ ok => w.applied
                        /\ nbView' = IF w.applied THEN nb ELSE nbView
                        /\ dirty' = (dirty \/ (w.applied /\ NbChanged))
    /\ nbTxn' = {} /\ force' = (force \/ ~ ok)
    /\ faults' = IF ok THEN faults ELSE faults + 1
    /\ faults' <= MaxFaults
    /\ UNCHANGED <<dbVars, running, client, sbView, sbTxn, cur_cfg, next_cfg, need>>

\* FAULTY: cur_cfg follows a failure too.
SbCommittedAnyway(ok) ==
    /\ \E w \in sbTxn : (ok => w.applied) /\ sbView' = IF w.applied THEN View ELSE sbView
    /\ sbTxn' = {} /\ force' = (force \/ ~ ok)
    /\ cur_cfg' = next_cfg
    /\ faults' = IF ok THEN faults ELSE faults + 1
    /\ faults' <= MaxFaults
    /\ UNCHANGED <<dbVars, running, client, nbView, nbTxn, next_cfg, dirty, need>>
SbCommitted(ok) ==
    /\ \E w \in sbTxn : (ok => w.applied) /\ sbView' = IF w.applied THEN View ELSE sbView
    /\ sbTxn' = {} /\ force' = (force \/ ~ ok)
    /\ cur_cfg' = IF ok THEN next_cfg ELSE cur_cfg
    /\ faults' = IF ok THEN faults ELSE faults + 1
    /\ faults' <= MaxFaults
    /\ UNCHANGED <<dbVars, running, client, nbView, nbTxn, next_cfg, dirty, need>>

\* ovn-northd ends and is started again; what it had sent has been executed or not.
Restart ==
    /\ faults < MaxFaults /\ faults' = faults + 1
    /\ nbView' = nb /\ sbView' = View /\ nbTxn' = {} /\ sbTxn' = {}
    /\ cur_cfg' = 0 /\ next_cfg' = 0 /\ dirty' = FALSE /\ force' = TRUE
    /\ UNCHANGED <<dbVars, running, client, need>>

-----------------------------------------------------------------------------

Next ==
    \/ \E c \in Clients :
        \/ Return(c) \/ TimeoutExpired(c)
        \/ \E wait \in {"sb", "hv"}, changes \in 0..1 : Execute(c, wait, changes)
    \/ ExecuteNoWait
    \/ \E h \in Chassis : ChassisInstall(h) \/ ChassisReport(h) \/ ChassisChange(h)
    \/ DeliverNb \/ DeliverSb \/ Iterate \/ IterateIdle
    \/ NbApply \/ SbApply
    \/ \E ok \in BOOLEAN : NbCommitted(ok) \/ SbCommitted(ok)
    \/ Restart

Spec == Init /\ [][Next]_vars

\* ovn-northd goes on, the databases answer and are successful in the end, and the
\* chassis that are registered are at work.
Fairness ==
    /\ WF_vars(DeliverNb) /\ WF_vars(DeliverSb) /\ WF_vars(Iterate)
    /\ WF_vars(NbApply) /\ WF_vars(SbApply)
    /\ WF_vars(NbCommitted(TRUE)) /\ WF_vars(SbCommitted(TRUE))
    /\ \A h \in Chassis : WF_vars(ChassisInstall(h)) /\ WF_vars(ChassisReport(h))
    /\ \A c \in Clients : WF_vars(Return(c))

FairSpec == Spec /\ Fairness

-----------------------------------------------------------------------------
(* Properties *)

NbGlobal == [content : Cfgs, nb_cfg : Cfgs, sb_cfg : Cfgs, hv_cfg : Cfgs]
SbGlobal == [content : Cfgs, nb_cfg : Cfgs]
Rows == [Chassis -> Cfgs \cup {Absent}]
Client == [pc : {"idle", "waiting", "done", "failed"}, wait : {"none", "sb", "hv"},
           next_cfg : Cfgs, watch : SUBSET Chassis]
NbTxn == [sb_cfg : Cfgs, hv_cfg : Cfgs, applied : BOOLEAN]
SbTxn == [content : Cfgs, nb_cfg : Cfgs, applied : BOOLEAN]

\* The types; in particular hv_cfg, which update_sequence_numbers writes, is a number
\* that nb_cfg has had.
TypeOK ==
    /\ nb \in NbGlobal /\ sb \in SbGlobal /\ chassis \in Rows
    /\ running \in [Chassis -> SbGlobal] /\ client \in [Clients -> Client]
    /\ nbView \in NbGlobal /\ sbView \in [content : Cfgs, nb_cfg : Cfgs, chassis : Rows]
    /\ nbTxn \in SUBSET NbTxn /\ (\A v, w \in nbTxn : v = w)
    /\ sbTxn \in SUBSET SbTxn /\ (\A v, w \in sbTxn : v = w)
    /\ cur_cfg \in Cfgs /\ next_cfg \in Cfgs /\ dirty \in BOOLEAN /\ force \in BOOLEAN
    /\ need \in [Cfgs -> Cfgs] /\ faults \in 0..MaxFaults

\* The number in the southbound database is never ahead of the contents there, so
\* that a chassis that sees the number sees what it stands for (the abort that
\* "should prevent ovn-nbctl sync calls to return before the SB updates are
\* actually done", ovn-northd.c).
NumberNotAhead == need[sb.nb_cfg] <= sb.content

\* When "ovn-nbctl --wait=sb" or "--wait=hv" returns, the southbound database has
\* the contents of the change.
WaitSbIsDone ==
    \A c \in Clients : client[c].pc = "done" => need[client[c].next_cfg] <= sb.content

\* When "ovn-nbctl --wait=hv" returns, every chassis that has been registered since
\* the change was made has installed it.
WaitHvIsDone ==
    \A c \in Clients : client[c].pc = "done" /\ client[c].wait = "hv" =>
        \A h \in client[c].watch : need[client[c].next_cfg] <= running[h].content

\* Every wait ends, without the timeout, whatever commits have failed and however often ovn-northd was
\* started again.
WaitsEnd == \A c \in Clients : client[c].pc = "waiting" ~> client[c].pc # "waiting"

=============================================================================
