----------------------------- MODULE CanaryProbe -----------------------------
(***************************************************************************)
(* CanaryTraceService: one canary probe from _build_probe to _run_cleanup. *)
(*                                                                         *)
(* Probes run concurrently: request threads, the worker of the trace       *)
(* manager and the scheduler each run one, against one OVN northbound      *)
(* database.  ovn-northd and ovn-controller (Northd, Controller) carry its *)
(* rows to the southbound database and to OpenFlow in their own time.      *)
(*                                                                         *)
(* An ovn-nbctl command may succeed, fail (an HTTPException) or raise      *)
(* another exception, and one that did not succeed may still have been     *)
(* carried out.  Time is counted in ticks from the start of the probe.     *)
(***************************************************************************)
EXTENDS Naturals, FiniteSets

CONSTANTS Probes,    \* probe ids
          Requests,  \* requests that may be made
          Octets,    \* the addresses that _probe_octets derives from each id
          Occurs,    \* pairs of addresses: the first as text occurs in the second
          None,      \* Python's None
          Target,    \* the existing switch or router that a request may name
          Timeout,   \* timeout_s, in ticks
          Delays     \* bound: the ticks that a command or a query may take

Capable == {"acl", "nat"}
Datapaths == {"logical_switch", "logical_router"}
Ports == {"logical_switch_port", "logical_router_port"}
ResourceTypes == Capable \cup Datapaths \cup Ports \cup
    {"logical_flow", "nat_rule", "network", "logical_port", "subnet"}

ASSUME RequestsAssumption ==
    Requests \subseteq [resource_type : ResourceTypes, target : BOOLEAN, expect : {"yes", "no", "default"}]

ASSUME AddressesAssumption ==
    \A p \in Probes : <<Octets[p], Octets[p]>> \in Occurs

\* Temporary datapaths are named after the fresh id of their probe.
ASSUME NamesAssumption == Target \notin Probes /\ None \notin Probes

ASSUME TimeAssumption == Timeout \in Nat /\ Delays \subseteq Nat /\ None \notin Nat

VARIABLES nb,        \* rows of the northbound database that probes have created
          sb,        \* the rows that are realized in the southbound database
          flows,     \* the rows that are realized in OpenFlow
          probe,     \* what the thread of each probe knows, and where it is
          created,   \* history: probes whose row was committed
          realized   \* history: probes whose row has reached the southbound database

vars == <<nb, sb, flows, probe, created, realized>>

-----------------------------------------------------------------------------
(* The request.                                                             *)

Resolve(type) ==
    CASE type = "logical_flow" -> "acl"
      [] type = "nat_rule" -> "nat"
      [] type = "network" -> "logical_switch"
      [] type = "logical_port" -> "logical_switch_port"
      [] type = "subnet" -> "logical_router_port"
      [] OTHER -> type

OpenflowExpected(req) ==
    /\ Resolve(req.resource_type) \in Capable
    /\ req.expect = "yes" \/ (req.expect = "default" /\ req.target)

Stage(status, latency) == [status |-> status, latency |-> latency]
Skipped == Stage("skipped", None)

NewProbe ==
    [pc |-> "new", type |-> "acl", parent |-> None, openflow |-> FALSE, elapsed |-> 0,
     nb |-> Skipped, sb |-> Skipped, of |-> Skipped, errors |-> FALSE, cleanup |-> "skipped",
     result |-> FALSE, status |-> None, delta |-> None, delta2 |-> None, total |-> None]

\* The parent of a port, an ACL or a NAT rule is the target or, when there is
\* none, a temporary switch or router that is named after the probe.
Prepared(p, req) ==
    LET type == Resolve(req.resource_type)
        parent == IF type \in Datapaths THEN None ELSE IF req.target THEN Target ELSE p
    IN  [NewProbe EXCEPT !.type = type, !.parent = parent, !.openflow = OpenflowExpected(req),
                         !.pc = IF parent = p THEN "setup" ELSE "create"]

\* ACLs and NAT rules are known by addresses, other resources by name.
KeyOf(p) == IF probe[p].type \in Capable THEN Octets[p] ELSE p
Row(p) == [type |-> probe[p].type, parent |-> probe[p].parent, key |-> KeyOf(p), owner |-> p]
TempRow(p) == [type |-> "target", parent |-> None, key |-> p, owner |-> p]
SameRow(r, s) == r.type = s.type /\ r.parent = s.parent /\ r.key = s.key

-----------------------------------------------------------------------------
(* Commands and observations.                                               *)

ParentExists(p) == probe[p].parent # p \/ TempRow(p) \in nb

\* What a command may do that can succeed if "possible" and then leaves rows
\* "after": it succeeds, or it does not and was carried out or not.
Results(possible, after) ==
    {[outcome |-> o, rows |-> nb] : o \in {"error", "raise"}} \cup
    IF possible THEN {[outcome |-> o, rows |-> after] : o \in {"ok", "error", "raise"}} ELSE {}

\* _find_nb_row looks through the whole table.
NbSees(p) == \E r \in nb : r.type = probe[p].type /\ r.key = KeyOf(p)

\* Flows are also found by an address that occurs in them as text.
FlowMatch(p, r) == r.type = probe[p].type /\ <<KeyOf(p), r.key>> \in Occurs

\* Faulty variant: every flow is taken for evidence.
SbSeesAny(p) == sb # {}

SbSees(p) ==
    \E r \in sb : IF probe[p].type \in Capable THEN FlowMatch(p, r)
                  ELSE r.type = probe[p].type /\ r.key = KeyOf(p)
FlowSees(p) == \E r \in flows : FlowMatch(p, r)

-----------------------------------------------------------------------------
(* The result.                                                              *)

PhaseDelta(previous, current) ==
    IF previous.status # "observed" \/ previous.latency = None \/ current.latency = None THEN None
    ELSE IF current.latency > previous.latency THEN current.latency - previous.latency ELSE 0

TotalLatency(r) ==
    IF r.openflow /\ r.of.status # "skipped" /\ r.of.latency # None THEN r.of.latency
    ELSE IF r.sb.status # "skipped" /\ r.sb.latency # None THEN r.sb.latency
    ELSE r.nb.latency

\* Faulty variant: the OpenFlow stage does not count.
DeriveWithoutOpenflow(r) ==
    LET required == {r.nb, r.sb}
    IN  IF \E s \in required : s.status = "failed" THEN "failed"
        ELSE IF \E s \in required : s.status = "timeout" THEN "timeout"
        ELSE IF r.cleanup = "failed" THEN "partial_success" ELSE "success"

DeriveStatus(r) ==
    LET required == {r.nb, r.sb} \cup (IF r.openflow THEN {r.of} ELSE {})
    IN  IF \E s \in required : s.status = "failed" THEN "failed"
        ELSE IF \E s \in required : s.status = "timeout" THEN "timeout"
        ELSE IF r.cleanup = "failed" THEN "partial_success" ELSE "success"

\* A probe that fails before its resource exists.
NotCreated(r) ==
    [r EXCEPT !.nb = Stage("failed", None), !.sb = Stage("failed", None),
              !.of = IF r.openflow THEN Stage("failed", None) ELSE Skipped,
              !.result = TRUE, !.pc = "cleanup"]

\* The return of _execute_probe, with the latencies between the stages.
Return(r) ==
    [r EXCEPT !.delta = PhaseDelta(r.nb, r.sb), !.delta2 = PhaseDelta(r.sb, r.of),
              !.total = TotalLatency(r), !.result = TRUE, !.pc = "cleanup"]

\* The first stage that was not observed timed out or failed; the stages that
\* follow it were not evaluated.
Missed(r, status) ==
    Return(IF r.nb.status # "observed"
           THEN [r EXCEPT !.nb = Stage(status, r.elapsed), !.sb = Skipped, !.of = Skipped]
           ELSE IF r.sb.status # "observed"
           THEN [r EXCEPT !.sb = Stage(status, r.elapsed), !.of = Skipped]
           ELSE [r EXCEPT !.of = Stage(status, r.elapsed)])

-----------------------------------------------------------------------------
Init ==
    /\ nb = {} /\ sb = {} /\ flows = {}
    /\ probe = [p \in Probes |-> NewProbe]
    /\ created = {} /\ realized = {}

Become(p, r) == probe' = [probe EXCEPT ![p] = r]

Build(p) ==
    /\ probe[p].pc = "new"
    /\ \E req \in Requests : Become(p, Prepared(p, req))
    /\ UNCHANGED <<nb, sb, flows, created, realized>>

\* _run_setup creates the temporary parent.
Setup(p) ==
    /\ probe[p].pc = "setup"
    /\ \E c \in Results(TRUE, nb \cup {TempRow(p)}) :
        /\ nb' = c.rows
        /\ Become(p, CASE c.outcome = "ok" -> [probe[p] EXCEPT !.pc = "wait"]
                       [] c.outcome = "error" -> NotCreated(probe[p])
                       [] OTHER -> [probe[p] EXCEPT !.pc = "cleanup"])
    /\ UNCHANGED <<sb, flows, created, realized>>

\* Then it waits until the parent is realized in the southbound database.  The
\* wait has a deadline of its own, after which the setup has failed, as it has
\* when a query fails; another exception goes straight to the cleanup.
WaitSetup(p) ==
    /\ probe[p].pc = "wait"
    /\ \/ TempRow(p) \in nb \cap sb /\ Become(p, [probe[p] EXCEPT !.pc = "create"])
       \/ Become(p, NotCreated(probe[p]))
       \/ Become(p, [probe[p] EXCEPT !.pc = "cleanup"])
    /\ UNCHANGED <<nb, sb, flows, created, realized>>

\* The create command: rejected when the parent does not exist or the same row
\* does.
Create(p) ==
    /\ probe[p].pc = "create"
    /\ \E c \in Results(ParentExists(p) /\ ~ \E r \in nb : SameRow(r, Row(p)), nb \cup {Row(p)}), d \in Delays :
        LET r == [probe[p] EXCEPT !.elapsed = @ + d]
        IN  /\ nb' = c.rows
            /\ created' = IF c.rows = nb THEN created ELSE created \cup {p}
            /\ Become(p, CASE c.outcome = "ok" ->
                                [r EXCEPT !.nb = Stage("timeout", None), !.sb = Stage("timeout", None),
                                          !.of = IF r.openflow THEN Stage("timeout", None) ELSE Skipped,
                                          !.pc = "check"]
                           [] c.outcome = "error" -> NotCreated(r)
                           [] OTHER -> [r EXCEPT !.pc = "cleanup"])
    /\ UNCHANGED <<sb, flows, realized>>

FirstMissing(r) ==
    IF r.nb.status # "observed" THEN "nb" ELSE IF r.sb.status # "observed" THEN "sb" ELSE "of"

\* Faulty variant: every iteration has a deadline of its own.
CheckFreshDeadline(p) ==
    /\ probe[p].pc = "check"
    /\ Become(p, [probe[p] EXCEPT !.elapsed = 0, !.pc = FirstMissing(probe[p])])
    /\ UNCHANGED <<nb, sb, flows, created, realized>>

\* The head of the poll loop: the deadline is looked at once in an iteration,
\* which goes on with the first stage that was not observed.
Check(p) ==
    /\ probe[p].pc = "check"
    /\ Become(p, IF probe[p].elapsed > Timeout THEN Missed(probe[p], "timeout")
                 ELSE [probe[p] EXCEPT !.pc = FirstMissing(probe[p])])
    /\ UNCHANGED <<nb, sb, flows, created, realized>>

\* A query of the poll loop: it finds evidence (only if there is some, but the
\* replica may lag), finds none, fails, or raises another exception.  The loop
\* sleeps for a tick when it has found none.
Query(p, stage, sees, Found(_)) ==
    /\ probe[p].pc = stage
    /\ \E d \in Delays :
        LET r == [probe[p] EXCEPT !.elapsed = @ + d]
        IN  \/ sees /\ Become(p, Found(r))
            \/ Become(p, [r EXCEPT !.elapsed = @ + 1, !.pc = "check"])
            \/ Become(p, Missed(r, "failed"))
            \/ Become(p, [r EXCEPT !.pc = "cleanup"])
    /\ UNCHANGED <<nb, sb, flows, created, realized>>

FindNb(p) ==
    LET Found(r) == [r EXCEPT !.nb = Stage("observed", r.elapsed), !.pc = "sb"]
    IN  Query(p, "nb", NbSees(p), Found)

FindSb(p) ==
    LET Found(r) == LET s == [r EXCEPT !.sb = Stage("observed", r.elapsed)]
                    IN  IF r.openflow THEN [s EXCEPT !.pc = "of"] ELSE Return(s)
    IN  Query(p, "sb", SbSees(p), Found)

FindOf(p) ==
    LET Found(r) == Return([r EXCEPT !.of = Stage("observed", r.elapsed)])
    IN  Query(p, "of", FlowSees(p), Found)

\* The end of run_prepared_probe; nothing is returned when there is no result.
End(r) ==
    LET s == [r EXCEPT !.cleanup = IF r.errors THEN "failed" ELSE "observed", !.pc = "done"]
    IN  [s EXCEPT !.status = IF r.result THEN DeriveStatus(s) ELSE None]

\* A cleanup command that leaves rows "after".  An error is noted and the next
\* command follows; any other exception ends the cleanup and loses the result.
CleanupCommand(p, possible, after, Continue(_)) ==
    /\ \E c \in Results(possible, after) :
        /\ nb' = c.rows
        /\ Become(p, CASE c.outcome = "ok" -> Continue(probe[p])
                       [] c.outcome = "error" -> Continue([probe[p] EXCEPT !.errors = TRUE])
                       [] OTHER -> [probe[p] EXCEPT !.errors = TRUE, !.pc = "done"])
    /\ UNCHANGED <<sb, flows, created, realized>>

\* Faulty variant: the row is left to the deletion of its parent.
CleanupNothing(p) ==
    LET Continue(r) == IF r.parent = p THEN [r EXCEPT !.pc = "parent"] ELSE End(r)
    IN  /\ probe[p].pc = "cleanup"
        /\ CleanupCommand(p, TRUE, nb, Continue)

\* Faulty variant: acl-del without a match deletes every ACL of the switch.
CleanupEveryRow(p) ==
    LET Continue(r) == IF r.parent = p THEN [r EXCEPT !.pc = "parent"] ELSE End(r)
    IN  /\ probe[p].pc = "cleanup"
        /\ CleanupCommand(p, probe[p].type \in Capable => ParentExists(p),
                          {r \in nb : r.type # probe[p].type \/ r.parent # probe[p].parent}, Continue)

\* The first cleanup command deletes the row by its key, whoever created it.
CleanupRow(p) ==
    LET Continue(r) == IF r.parent = p THEN [r EXCEPT !.pc = "parent"] ELSE End(r)
    IN  /\ probe[p].pc = "cleanup"
        /\ CleanupCommand(p, probe[p].type \in Capable => ParentExists(p),
                          {r \in nb : ~ SameRow(r, Row(p))}, Continue)

\* The second one deletes the temporary parent with what it contains.
CleanupParent(p) ==
    /\ probe[p].pc = "parent"
    /\ CleanupCommand(p, TRUE, {r \in nb : r # TempRow(p) /\ r.parent # p}, End)

-----------------------------------------------------------------------------
(* ovn-northd and ovn-controller.                                           *)

Northd ==
    /\ sb # nb
    /\ sb' = nb
    /\ realized' = realized \cup {r.owner : r \in {r \in nb : r.type # "target"}}
    /\ UNCHANGED <<nb, flows, probe, created>>

Controller ==
    /\ flows # sb
    /\ flows' = sb
    /\ UNCHANGED <<nb, sb, probe, created, realized>>

ProbeStep(p) ==
    \/ Build(p) \/ Setup(p) \/ WaitSetup(p) \/ Create(p) \/ Check(p)
    \/ FindNb(p) \/ FindSb(p) \/ FindOf(p)
    \/ CleanupRow(p) \/ CleanupParent(p)

Next == (\E p \in Probes : ProbeStep(p)) \/ Northd \/ Controller

Spec == Init /\ [][Next]_vars

\* Every thread goes on with the probe it has begun.
FairSpec == Spec /\ \A p \in Probes : WF_vars(ProbeStep(p))

-----------------------------------------------------------------------------
(* Properties.                                                              *)

Latencies == Nat \cup {None}
Stages == [status : {"observed", "timeout", "skipped", "failed"}, latency : Latencies]
Rows ==
    [type : Capable \cup Datapaths \cup Ports \cup {"target"}, parent : Probes \cup {Target, None},
     key : Probes \cup {Octets[p] : p \in Probes}, owner : Probes]

Records ==
    [pc : {"new", "setup", "wait", "create", "check", "nb", "sb", "of", "cleanup", "parent", "done"},
     type : Capable \cup Datapaths \cup Ports, parent : Probes \cup {Target, None},
     openflow : BOOLEAN, elapsed : Nat, nb : Stages, sb : Stages, of : Stages,
     errors : BOOLEAN, cleanup : {"skipped", "observed", "failed"}, result : BOOLEAN,
     status : {"success", "partial_success", "timeout", "failed", None},
     delta : Latencies, delta2 : Latencies, total : Latencies]

\* Databases hold rows of probes; every field of a probe has its type.
TypeOK ==
    /\ nb \subseteq Rows /\ sb \subseteq Rows /\ flows \subseteq Rows
    /\ created \subseteq Probes /\ realized \subseteq Probes
    /\ probe \in [Probes -> Records]

\* The status of a probe is that of the first stage that was required and not
\* observed.  If there is none the cleanup decides, and only then.
VerdictIsFirstMissingStage ==
    \A p \in Probes : LET r == probe[p] IN
        r.status # None =>
            r.status = IF r.nb.status # "observed" THEN r.nb.status
                       ELSE IF r.sb.status # "observed" THEN r.sb.status
                       ELSE IF r.openflow /\ r.of.status # "observed" THEN r.of.status
                       ELSE IF r.errors THEN "partial_success" ELSE "success"

\* A probe whose cleanup had no error has left none of its rows behind, however
\* it ended and although a command that failed may have been carried out.
NothingLeftBehind ==
    \A p \in Probes :
        probe[p].pc = "done" /\ ~ probe[p].errors => \A r \in nb : r.owner # p

Begun(p) == probe[p].pc # "new"

\* A stage is reported as observed only if the row of this very probe got there,
\* unless a probe is about whose addresses contain those of this one.
ObservedIsOwn ==
    \A p \in Probes :
        (\A q \in Probes \ {p} : Begun(q) /\ probe[q].type = probe[p].type => <<KeyOf(p), KeyOf(q)>> \notin Occurs)
        => /\ probe[p].nb.status = "observed" => p \in created
           /\ probe[p].sb.status = "observed" => p \in realized

\* While a probe polls, its row is there: no other probe removes it, unless both
\* have the same parent and the same addresses.
Undisturbed ==
    \A p \in Probes :
        probe[p].pc \in {"check", "nb", "sb", "of"} =>
            Row(p) \in nb \/ \E q \in Probes \ {p} : Begun(q) /\ SameRow(Row(q), Row(p))

\* Every probe that has begun ends: the poll loop ends at its deadline, and
\* the cleanup is finite.
ProbesEnd == \A p \in Probes : Begun(p) ~> probe[p].pc = "done"
=============================================================================
