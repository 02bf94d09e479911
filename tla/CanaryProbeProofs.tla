------------------------- MODULE CanaryProbeProofs --------------------------
(***************************************************************************)
(* What CanaryProbe promises, for any number of probes that run at the     *)
(* same time and for any requests, addresses, deadlines and delays.        *)
(***************************************************************************)
EXTENDS CanaryProbe, TLAPS

\* The provers, in the order in which they try a leaf that names none.
USE Zenon, SMT, ZenonT(60), SMTT(60)

-----------------------------------------------------------------------------
(* The inductive invariant.                                                 *)

Early == {"new", "setup", "wait", "create"}
Polling == {"check", "nb", "sb", "of"}

\* What the poll loop has found out when it is at its head or about to look for
\* a stage.
Polled(r) ==
    /\ r.nb.status \in {"timeout", "observed"} /\ r.sb.status \in {"timeout", "observed"}
    /\ r.of.status = IF r.openflow THEN "timeout" ELSE "skipped"
    /\ r.sb.status = "observed" => r.nb.status = "observed" /\ r.openflow
    /\ r.pc = "nb" => r.nb.status # "observed"
    /\ r.pc = "sb" => r.nb.status = "observed" /\ r.sb.status # "observed"
    /\ r.pc = "of" => r.sb.status = "observed"

\* The stages of a result: those after the first that was not observed do not
\* count for more than it does.
Conclusive(r) ==
    \/ r.nb.status = "failed"
    \/ r.nb.status = "timeout" /\ r.sb.status = "skipped" /\ r.of.status = "skipped"
    \/ r.nb.status = "observed" /\ r.sb.status \in {"timeout", "failed"} /\ r.of.status = "skipped"
    \/ /\ r.nb.status = "observed" /\ r.sb.status = "observed"
       /\ r.openflow => r.of.status \in {"observed", "timeout", "failed"}

FirstMissingStage(r) ==
    IF r.nb.status # "observed" THEN r.nb.status
    ELSE IF r.sb.status # "observed" THEN r.sb.status
    ELSE IF r.openflow /\ r.of.status # "observed" THEN r.of.status
    ELSE IF r.errors THEN "partial_success" ELSE "success"

\* What the thread of a probe knows, by where it is.
Known(r) ==
    /\ r.pc \in Early => r.nb = Skipped /\ r.sb = Skipped
    /\ r.pc \in Early \cup Polling => ~ r.result
    /\ r.pc \in Polling => Polled(r)
    /\ r.result => Conclusive(r)
    /\ r.pc # "done" => r.status = None
    /\ r.status # None => r.status = FirstMissingStage(r)

\* A probe works on the target, on nothing, or on a datapath of its own.
Placed(p) ==
    /\ probe[p].parent \in {p, Target, None}
    /\ probe[p].pc \in {"setup", "wait", "parent"} => probe[p].parent = p

\* Every row is one that its owner would create again.
RowsOwned ==
    \A r \in nb \cup sb :
        /\ Begun(r.owner)
        /\ r = Row(r.owner) \/ (r = TempRow(r.owner) /\ probe[r.owner].parent = r.owner)

\* The histories have the owners of all rows but the temporary datapaths.
RowsRecorded ==
    /\ \A r \in nb : r.type # "target" => r.owner \in created
    /\ \A r \in sb : r.type # "target" => r.owner \in realized

IInv ==
    /\ TypeOK
    /\ \A p \in Probes : Known(probe[p]) /\ Placed(p)
    /\ RowsOwned /\ RowsRecorded
    /\ Undisturbed /\ NothingLeftBehind /\ ObservedIsOwn
-----------------------------------------------------------------------------
(* The thread of a probe.                                                   *)

\* A step of a probe that has begun: it stays about the same resource.
Moves(r, s) ==
    /\ s \in Records /\ Known(s)
    /\ s.type = r.type /\ s.parent = r.parent /\ s.pc # "new"

\* _resolve_resource_type yields a type that has a builder.
LEMMA ResolveType == \A type \in ResourceTypes : Resolve(type) \in Capable \cup Datapaths \cup Ports
BY DEF ResourceTypes, Resolve, Capable, Datapaths, Ports

\* _build_probe.
LEMMA PreparedRecord ==
    ASSUME NEW p \in Probes, NEW req \in Requests
    PROVE  LET s == Prepared(p, req)
           IN  /\ s \in Records /\ Known(s)
               /\ s.pc = IF s.parent = p THEN "setup" ELSE "create"
               /\ s.parent \in {p, Target, None} /\ s.nb = Skipped /\ s.sb = Skipped
<1>. DEFINE type == Resolve(req.resource_type)
            parent == IF type \in Datapaths THEN None ELSE IF req.target THEN Target ELSE p
            pc == IF parent = p THEN "setup" ELSE "create"
            s == Prepared(p, req)
<1>1. NewProbe \in Records /\ NewProbe.nb = Skipped /\ NewProbe.sb = Skipped
      /\ ~ NewProbe.result /\ NewProbe.status = None
  BY DEF NewProbe, Records, Skipped, Stage, Stages, Latencies, Capable
<1>2. type \in Capable \cup Datapaths \cup Ports
  BY RequestsAssumption, ResolveType
<1>3. OpenflowExpected(req) \in BOOLEAN
  BY DEF OpenflowExpected
<1>4. s \in Records
  <2>1. parent \in Probes \cup {Target, None} /\ pc \in {"setup", "create"}
    OBVIOUS
  <2>2. s = [NewProbe EXCEPT !.type = type, !.parent = parent, !.openflow = OpenflowExpected(req), !.pc = pc]
    BY DEF Prepared
  <2>. DEFINE a == [NewProbe EXCEPT !.type = type, !.parent = parent]
              b == [a EXCEPT !.openflow = OpenflowExpected(req)]
  <2>. HIDE DEF type, parent, pc
  <2>3. a \in Records
    BY <1>1, <1>2, <2>1 DEF Records
  <2>4. b \in Records
    <3>. HIDE DEF a
    <3>. QED  BY <1>3, <2>3 DEF Records
  <2>5. s = [b EXCEPT !.pc = pc]
    BY <2>2
  <2>. HIDE DEF b, s
  <2>. QED  BY <2>1, <2>4, <2>5 DEF Records
<1>5. /\ s.pc = IF s.parent = p THEN "setup" ELSE "create"
      /\ s.parent \in {p, Target, None} /\ s.nb = Skipped /\ s.sb = Skipped
      /\ ~ s.result /\ s.status = None
  BY <1>1 DEF Prepared, Records
<1>6. Known(s)
  BY <1>5 DEF Known, Early, Polling
<1>. QED  BY <1>4, <1>5, <1>6

\* A command or a query takes time.
LEMMA LaterRecord ==
    ASSUME NEW r \in Records, Known(r), NEW d \in Nat
    PROVE  LET s == [r EXCEPT !.elapsed = @ + d]
           IN  /\ s \in Records /\ Known(s)
               /\ s.pc = r.pc /\ s.type = r.type /\ s.parent = r.parent /\ s.openflow = r.openflow
               /\ s.nb = r.nb /\ s.sb = r.sb /\ s.of = r.of
<1>. DEFINE s == [r EXCEPT !.elapsed = @ + d]
<1>1. s \in Records
  BY SMT, SMTT(60) DEF Records
<1>2. /\ s.pc = r.pc /\ s.type = r.type /\ s.parent = r.parent /\ s.openflow = r.openflow
      /\ s.nb = r.nb /\ s.sb = r.sb /\ s.of = r.of /\ s.errors = r.errors /\ s.result = r.result
      /\ s.status = r.status
  BY DEF Records
<1>3. Known(s)
  BY <1>2 DEF Known, Polled, Conclusive, FirstMissingStage
<1>. QED  BY <1>1, <1>2, <1>3

\* A probe that fails before its resource exists.
LEMMA NotCreatedRecord ==
    ASSUME NEW r \in Records, Known(r), r.pc \in Early
    PROVE  Moves(r, NotCreated(r)) /\ NotCreated(r).pc = "cleanup"
<1>. DEFINE s == NotCreated(r)
<1>1. Stage("failed", None) \in Stages /\ Skipped \in Stages
  BY DEF Skipped, Stage, Stages, Latencies
<1>2. s \in Records
  BY <1>1 DEF NotCreated, Records
<1>3. /\ s.pc = "cleanup" /\ s.type = r.type /\ s.parent = r.parent /\ s.nb.status = "failed"
      /\ s.status = r.status
  BY DEF NotCreated, Records, Stage
<1>4. Known(s)
  BY <1>3 DEF Known, Conclusive, Early, Polling
<1>. QED  BY <1>2, <1>3, <1>4 DEF Moves

\* An exception other than an HTTPException goes straight to the cleanup, without
\* a result.
LEMMA AbortedRecord ==
    ASSUME NEW r \in Records, Known(r), r.pc \in Early \cup Polling, r.pc # "new"
    PROVE  Moves(r, [r EXCEPT !.pc = "cleanup"]) /\ [r EXCEPT !.pc = "cleanup"].pc = "cleanup"
<1>. DEFINE s == [r EXCEPT !.pc = "cleanup"]
<1>1. s \in Records
  BY DEF Records
<1>2. /\ s.pc = "cleanup" /\ s.type = r.type /\ s.parent = r.parent
      /\ s.result = r.result /\ s.status = r.status
  BY DEF Records
<1>3. Known(s)
  BY <1>2 DEF Known, Early, Polling
<1>. QED  BY <1>1, <1>2, <1>3 DEF Moves

\* _phase_delta and _total_latency yield latencies.
LEMMA LatencyTypes ==
    /\ \A a, b \in Stages : PhaseDelta(a, b) \in Latencies
    /\ \A r \in Records : TotalLatency(r) \in Latencies
<1>1. ASSUME NEW a \in Stages, NEW b \in Stages PROVE PhaseDelta(a, b) \in Latencies
  <2>1. a.latency \in Latencies /\ b.latency \in Latencies
    BY DEF Stages
  <2>. QED  BY <2>1, SMT, SMTT(60) DEF PhaseDelta, Latencies
<1>2. ASSUME NEW r \in Records PROVE TotalLatency(r) \in Latencies
  <2>1. r.of.latency \in Latencies /\ r.sb.latency \in Latencies /\ r.nb.latency \in Latencies
    BY DEF Records, Stages
  <2>. QED  BY <2>1 DEF TotalLatency
<1>. QED  BY <1>1, <1>2

\* The return of _execute_probe keeps the stages.
LEMMA ReturnRecord ==
    ASSUME NEW r \in Records, Conclusive(r), r.status = None
    PROVE  Moves(r, Return(r)) /\ Return(r).pc = "cleanup"
           /\ Return(r).nb = r.nb /\ Return(r).sb = r.sb
<1>. DEFINE s == Return(r)
<1>1. s \in Records
  <2>1. r.nb \in Stages /\ r.sb \in Stages /\ r.of \in Stages
    BY DEF Records
  <2>2. /\ PhaseDelta(r.nb, r.sb) \in Latencies /\ PhaseDelta(r.sb, r.of) \in Latencies
        /\ TotalLatency(r) \in Latencies
    BY <2>1, LatencyTypes
  <2>. QED  BY <2>2 DEF Return, Records
<1>2. /\ s.pc = "cleanup" /\ s.type = r.type /\ s.parent = r.parent /\ s.openflow = r.openflow
      /\ s.nb = r.nb /\ s.sb = r.sb /\ s.of = r.of /\ s.status = None
  BY DEF Return, Records
<1>3. Known(s)
  BY <1>2 DEF Known, Conclusive, Early, Polling
<1>. QED  BY <1>1, <1>2, <1>3 DEF Moves

\* _poll_stages ends with the first stage that was not observed.
LEMMA MissedRecord ==
    ASSUME NEW r \in Records, Known(r), r.pc \in Polling, NEW status \in {"timeout", "failed"}
    PROVE  Moves(r, Missed(r, status)) /\ Missed(r, status).pc = "cleanup"
           /\ (Missed(r, status).nb.status = "observed" => r.nb.status = "observed")
           /\ (Missed(r, status).sb.status = "observed" => r.sb.status = "observed")
<1>. DEFINE late == Stage(status, r.elapsed)
            s == IF r.nb.status # "observed"
                 THEN [r EXCEPT !.nb = late, !.sb = Skipped, !.of = Skipped]
                 ELSE IF r.sb.status # "observed"
                 THEN [r EXCEPT !.sb = late, !.of = Skipped]
                 ELSE [r EXCEPT !.of = late]
<1>1. late \in Stages /\ late.status = status /\ Skipped \in Stages /\ Skipped.status = "skipped"
  BY DEF Records, Stages, Stage, Skipped, Latencies
<1>2. Polled(r) /\ r.status = None
  BY DEF Known, Polling
<1>3. Missed(r, status) = Return(s)
  BY DEF Missed
<1>. HIDE DEF late
<1>4. s \in Records
  BY <1>1 DEF Records
<1>5. /\ s.type = r.type /\ s.parent = r.parent /\ s.openflow = r.openflow /\ s.status = r.status
      /\ s.nb = IF r.nb.status # "observed" THEN late ELSE r.nb
      /\ s.sb = IF r.nb.status # "observed" THEN Skipped ELSE IF r.sb.status # "observed" THEN late ELSE r.sb
      /\ s.of = IF r.nb.status # "observed" \/ r.sb.status # "observed" THEN Skipped ELSE late
  BY DEF Records
<1>. HIDE DEF s
<1>6. Conclusive(s)
  BY <1>1, <1>2, <1>5 DEF Conclusive, Polled
<1>7. Moves(s, Return(s)) /\ Return(s).pc = "cleanup" /\ Return(s).nb = s.nb /\ Return(s).sb = s.sb
  BY <1>2, <1>4, <1>5, <1>6, ReturnRecord
<1>. QED  BY <1>1, <1>3, <1>5, <1>7 DEF Moves

\* _derive_status is about the first stage that was not observed.
LEMMA EndRecord ==
    ASSUME NEW r \in Records, Known(r), r.pc \in {"cleanup", "parent"}
    PROVE  Moves(r, End(r)) /\ End(r).pc = "done" /\ End(r).errors = r.errors
           /\ End(r).nb = r.nb /\ End(r).sb = r.sb
<1>. DEFINE s == [r EXCEPT !.cleanup = IF r.errors THEN "failed" ELSE "observed", !.pc = "done"]
            status == IF r.result THEN DeriveStatus(s) ELSE None
<1>1. s \in Records
  BY DEF Records
<1>2. /\ s.pc = "done" /\ s.type = r.type /\ s.parent = r.parent /\ s.openflow = r.openflow
      /\ s.nb = r.nb /\ s.sb = r.sb /\ s.of = r.of /\ s.errors = r.errors /\ s.result = r.result
      /\ s.cleanup = IF r.errors THEN "failed" ELSE "observed"
  BY DEF Records
<1>3. End(r) = [s EXCEPT !.status = status]
  BY DEF End
<1>. HIDE DEF s
<1>4. r.result => Conclusive(s)
  BY <1>2 DEF Known, Conclusive
<1>5. r.result => DeriveStatus(s) = FirstMissingStage(s)
  BY <1>2, <1>4 DEF Conclusive, DeriveStatus, FirstMissingStage
<1>6. status \in {"success", "partial_success", "timeout", "failed", None}
  BY <1>4, <1>5 DEF FirstMissingStage, Conclusive
<1>. HIDE DEF status
<1>7. End(r) \in Records
  BY <1>1, <1>3, <1>6 DEF Records
<1>8. /\ End(r).pc = "done" /\ End(r).type = r.type /\ End(r).parent = r.parent
      /\ End(r).openflow = s.openflow /\ End(r).nb = s.nb /\ End(r).sb = s.sb /\ End(r).of = s.of
      /\ End(r).errors = s.errors /\ End(r).result = r.result /\ End(r).status = status
  BY <1>1, <1>2, <1>3 DEF Records
<1>9. Known(End(r))
  BY <1>4, <1>5, <1>8 DEF status, Known, Early, Polling, Conclusive, FirstMissingStage
<1>. QED  BY <1>2, <1>7, <1>8, <1>9 DEF Moves
-----------------------------------------------------------------------------
(* A step of a probe: what its thread knows then, and what becomes of the   *)
(* northbound rows.                                                         *)

ThreadStep(p, s) ==
    /\ s \in Records /\ Known(s) /\ s.pc # "new"
    /\ Begun(p) => s.type = probe[p].type /\ s.parent = probe[p].parent
    /\ s.parent \in {p, Target, None}
    /\ s.pc \in {"setup", "wait", "parent"} => s.parent = p
    /\ s.nb.status = "observed" => Begun(p) /\ (probe[p].nb.status = "observed" \/ NbSees(p))
    /\ s.sb.status = "observed" => Begun(p) /\ (probe[p].sb.status = "observed" \/ SbSees(p))

RowStep(p, s) ==
    /\ \/ nb' = nb /\ created' = created
       \/ nb' = nb \cup {TempRow(p)} /\ probe[p].pc = "setup" /\ created' = created
       \/ nb' = nb \cup {Row(p)} /\ probe[p].pc = "create" /\ created' = created \cup {p}
       \/ nb' = {r \in nb : ~ SameRow(r, Row(p))} /\ probe[p].pc = "cleanup" /\ created' = created
       \/ nb' = {r \in nb : r # TempRow(p) /\ r.parent # p} /\ probe[p].pc = "parent" /\ created' = created
    /\ s.pc \in Polling => (probe[p].pc \in Polling /\ nb' = nb) \/ Row(p) \in nb'
    /\ s.pc = "done" /\ ~ s.errors =>
        \/ probe[p].pc = "cleanup" /\ probe[p].parent # p /\ \A r \in nb' : ~ SameRow(r, Row(p))
        \/ probe[p].pc = "parent" /\ \A r \in nb' : r # TempRow(p) /\ r.parent # p

Effect(p, s) ==
    /\ ThreadStep(p, s) /\ RowStep(p, s)
    /\ probe' = [probe EXCEPT ![p] = s]
    /\ UNCHANGED <<sb, flows, realized>>

\* What a step starts from.
LEMMA Before ==
    ASSUME IInv, NEW p \in Probes
    PROVE  /\ probe \in [Probes -> Records] /\ probe[p] \in Records /\ Known(probe[p]) /\ Placed(p)
           /\ nb \subseteq Rows /\ sb \subseteq Rows
BY DEF IInv, TypeOK

LEMMA BuildStep ==
    ASSUME IInv, NEW p \in Probes, Build(p)
    PROVE  \E s : Effect(p, s)
<1>1. PICK req \in Requests : Become(p, Prepared(p, req))
  BY DEF Build
<1>. DEFINE s == Prepared(p, req)
<1>2. /\ s \in Records /\ Known(s) /\ s.pc = (IF s.parent = p THEN "setup" ELSE "create")
      /\ s.parent \in {p, Target, None} /\ s.nb = Skipped /\ s.sb = Skipped
  BY PreparedRecord, SMT, SMTT(60)
<1>3. Skipped.status = "skipped"
  BY DEF Skipped, Stage
<1>4. ~ Begun(p) /\ UNCHANGED <<nb, sb, flows, created, realized>>
  BY DEF Build, Begun
<1>. HIDE DEF s
<1>5. ThreadStep(p, s)
  BY <1>2, <1>3, <1>4 DEF ThreadStep
<1>6. RowStep(p, s)
  BY <1>2, <1>4 DEF RowStep, Polling
<1>. QED  BY <1>1, <1>4, <1>5, <1>6 DEF Effect, Become, s

\* Before its resource exists a probe goes on, fails or is aborted, and has
\* observed nothing.
LEMMA EarlyRecord ==
    ASSUME NEW r \in Records, Known(r), r.pc \in Early, r.pc # "new", NEW s,
           NEW pc \in {"wait", "create", "cleanup"}, s = [r EXCEPT !.pc = pc] \/ s = NotCreated(r)
    PROVE  /\ Moves(r, s) /\ s.pc \in {pc, "cleanup"}
           /\ s.nb.status # "observed" /\ s.sb.status # "observed"
<1>1. CASE s = [r EXCEPT !.pc = pc]
  <2>1. s \in Records
    BY <1>1 DEF Records
  <2>2. /\ s.pc = pc /\ s.type = r.type /\ s.parent = r.parent
        /\ s.nb = r.nb /\ s.sb = r.sb /\ s.result = r.result /\ s.status = r.status
    BY <1>1 DEF Records
  <2>3. ~ r.result /\ r.nb = Skipped /\ r.sb = Skipped /\ r.status = None
    BY DEF Known, Early
  <2>4. Known(s)
    BY <2>2, <2>3 DEF Known, Early, Polling
  <2>. QED  BY <2>1, <2>2, <2>3, <2>4, SMT, SMTT(60) DEF Moves, Skipped, Stage
<1>2. CASE s = NotCreated(r)
  <2>1. s.nb.status = "failed" /\ s.sb.status = "failed"
    BY <1>2 DEF NotCreated, Stage, Records
  <2>. QED  BY <1>2, <2>1, NotCreatedRecord
<1>. QED  BY <1>1, <1>2

LEMMA SetupStep ==
    ASSUME IInv, NEW p \in Probes, Setup(p)
    PROVE  \E s : Effect(p, s)
<1>. DEFINE r == probe[p]
<1>0. r \in Records /\ Known(r) /\ r.pc = "setup" /\ Begun(p) /\ r.parent = p
  BY Before DEF Setup, Begun, Placed
<1>1. PICK c \in Results(TRUE, nb \cup {TempRow(p)}) :
        /\ nb' = c.rows
        /\ Become(p, CASE c.outcome = "ok" -> [r EXCEPT !.pc = "wait"]
                       [] c.outcome = "error" -> NotCreated(r)
                       [] OTHER -> [r EXCEPT !.pc = "cleanup"])
  BY DEF Setup
<1>2. UNCHANGED <<sb, flows, created, realized>>
  BY DEF Setup
<1>3. nb' = nb \/ nb' = nb \cup {TempRow(p)}
  BY <1>1, SMT, SMTT(60) DEF Results
<1>4. PICK s : /\ s = [r EXCEPT !.pc = "wait"] \/ s = [r EXCEPT !.pc = "cleanup"] \/ s = NotCreated(r)
               /\ probe' = [probe EXCEPT ![p] = s]
  BY <1>1 DEF Become
<1>5. /\ Moves(r, s) /\ s.pc \in {"wait", "create", "cleanup"}
      /\ s.nb.status # "observed" /\ s.sb.status # "observed"
  BY <1>0, <1>4, EarlyRecord DEF Early
<1>6. ThreadStep(p, s)
  BY <1>0, <1>5 DEF ThreadStep, Moves
<1>7. RowStep(p, s)
  BY <1>0, <1>2, <1>3, <1>5 DEF RowStep, Polling
<1>. QED  BY <1>2, <1>4, <1>6, <1>7 DEF Effect

LEMMA WaitSetupStep ==
    ASSUME IInv, NEW p \in Probes, WaitSetup(p)
    PROVE  \E s : Effect(p, s)
<1>. DEFINE r == probe[p]
<1>0. r \in Records /\ Known(r) /\ r.pc = "wait" /\ Begun(p) /\ r.parent = p
  BY Before DEF WaitSetup, Begun, Placed
<1>1. UNCHANGED <<nb, sb, flows, created, realized>>
  BY DEF WaitSetup
<1>2. PICK s : /\ s = [r EXCEPT !.pc = "create"] \/ s = [r EXCEPT !.pc = "cleanup"] \/ s = NotCreated(r)
               /\ probe' = [probe EXCEPT ![p] = s]
  BY DEF WaitSetup, Become
<1>3. /\ Moves(r, s) /\ s.pc \in {"wait", "create", "cleanup"}
      /\ s.nb.status # "observed" /\ s.sb.status # "observed"
  BY <1>0, <1>2, EarlyRecord DEF Early
<1>4. ThreadStep(p, s)
  BY <1>0, <1>3 DEF ThreadStep, Moves
<1>5. RowStep(p, s)
  BY <1>1, <1>3 DEF RowStep, Polling
<1>. QED  BY <1>1, <1>2, <1>4, <1>5 DEF Effect

\* The resource was created: no stage has been observed.
LEMMA CreatedRecord ==
    ASSUME NEW r \in Records, Known(r), r.pc = "create"
    PROVE  LET s == [r EXCEPT !.nb = Stage("timeout", None), !.sb = Stage("timeout", None),
                              !.of = IF r.openflow THEN Stage("timeout", None) ELSE Skipped,
                              !.pc = "check"]
           IN  Moves(r, s) /\ s.pc = "check" /\ s.nb.status = "timeout" /\ s.sb.status = "timeout"
<1>. DEFINE s == [r EXCEPT !.nb = Stage("timeout", None), !.sb = Stage("timeout", None),
                           !.of = IF r.openflow THEN Stage("timeout", None) ELSE Skipped,
                           !.pc = "check"]
<1>1. Stage("timeout", None) \in Stages /\ Skipped \in Stages
  BY DEF Skipped, Stage, Stages, Latencies
<1>2. s \in Records
  BY <1>1 DEF Records
<1>3. /\ s.pc = "check" /\ s.type = r.type /\ s.parent = r.parent /\ s.openflow = r.openflow
      /\ s.nb.status = "timeout" /\ s.sb.status = "timeout"
      /\ s.of.status = (IF s.openflow THEN "timeout" ELSE "skipped")
      /\ s.result = r.result /\ s.status = r.status
  BY DEF Records, Stage, Skipped
<1>4. ~ r.result /\ r.status = None
  BY DEF Known, Early
<1>. HIDE DEF s
<1>5. Polled(s)
  BY <1>3 DEF Polled
<1>6. Known(s)
  BY <1>3, <1>4, <1>5 DEF Known, Early, Polling
<1>. QED  BY <1>2, <1>3, <1>6 DEF Moves, s

LEMMA CreateStep ==
    ASSUME IInv, NEW p \in Probes, Create(p)
    PROVE  \E s : Effect(p, s)
<1>0. probe[p] \in Records /\ Known(probe[p]) /\ probe[p].pc = "create" /\ Begun(p) /\ Placed(p)
  BY Before DEF Create, Begun
<1>. DEFINE possible == ParentExists(p) /\ ~ \E r \in nb : SameRow(r, Row(p))
            Later(d) == [probe[p] EXCEPT !.elapsed = @ + d]
            Ok(r) == [r EXCEPT !.nb = Stage("timeout", None), !.sb = Stage("timeout", None),
                               !.of = IF r.openflow THEN Stage("timeout", None) ELSE Skipped,
                               !.pc = "check"]
<1>1. PICK c \in Results(possible, nb \cup {Row(p)}), d \in Delays :
        /\ nb' = c.rows
        /\ created' = IF c.rows = nb THEN created ELSE created \cup {p}
        /\ Become(p, CASE c.outcome = "ok" -> Ok(Later(d))
                       [] c.outcome = "error" -> NotCreated(Later(d))
                       [] OTHER -> [Later(d) EXCEPT !.pc = "cleanup"])
  BY DEF Create
<1>2. UNCHANGED <<sb, flows, realized>>
  BY DEF Create
<1>3. possible => Row(p) \notin nb
  BY DEF SameRow
<1>4. /\ (nb' = nb /\ created' = created) \/ (nb' = nb \cup {Row(p)} /\ created' = created \cup {p})
      /\ c.outcome = "ok" => Row(p) \in nb'
  <2>. HIDE DEF possible, Ok, Later
  <2>. QED  BY <1>1, <1>3, SMT, SMTT(60) DEF Results
<1>5. PICK r : r = Later(d)
  OBVIOUS
<1>6. d \in Nat
  BY TimeAssumption
<1>7. /\ r \in Records /\ Known(r) /\ r.pc = "create" /\ r.type = probe[p].type /\ r.parent = probe[p].parent
  BY <1>0, <1>5, <1>6, LaterRecord
<1>8. PICK s : /\ \/ c.outcome = "ok" /\ s = Ok(r)
                  \/ s = [r EXCEPT !.pc = "cleanup"] \/ s = NotCreated(r)
               /\ probe' = [probe EXCEPT ![p] = s]
  BY <1>1, <1>5 DEF Become
<1>9. /\ Moves(r, s) /\ s.nb.status # "observed" /\ s.sb.status # "observed"
      /\ s.pc = "cleanup" \/ (s.pc = "check" /\ c.outcome = "ok")
  <2>1. CASE c.outcome = "ok" /\ s = Ok(r)
    BY <1>7, <2>1, CreatedRecord
  <2>2. CASE s = [r EXCEPT !.pc = "cleanup"] \/ s = NotCreated(r)
    BY <1>7, <2>2, EarlyRecord DEF Early
  <2>. QED  BY <1>8, <2>1, <2>2
<1>. HIDE DEF possible, Later, Ok
<1>10. ThreadStep(p, s)
  BY <1>0, <1>7, <1>9 DEF ThreadStep, Moves, Placed
<1>11. RowStep(p, s)
  BY <1>0, <1>4, <1>9 DEF RowStep, Polling
<1>. QED  BY <1>2, <1>8, <1>10, <1>11 DEF Effect

\* A step of the poll loop leaves the rows alone.
LEMMA PollStep ==
    ASSUME IInv, NEW p \in Probes, probe[p].pc \in Polling, NEW s,
           Moves(probe[p], s), s.pc \in Polling \cup {"cleanup"},
           s.nb.status = "observed" => probe[p].nb.status = "observed" \/ NbSees(p),
           s.sb.status = "observed" => probe[p].sb.status = "observed" \/ SbSees(p),
           Become(p, s), UNCHANGED <<nb, sb, flows, created, realized>>
    PROVE  \E t : Effect(p, t)
<1>1. Begun(p) /\ Placed(p)
  BY Before DEF Begun, Polling
<1>2. ThreadStep(p, s)
  BY <1>1 DEF ThreadStep, Moves, Placed, Polling
<1>3. RowStep(p, s)
  BY DEF RowStep, Polling
<1>. QED  BY <1>2, <1>3 DEF Effect, Become

\* The head of the loop goes on with the first stage that is missing.
LEMMA CheckedRecord ==
    ASSUME NEW r \in Records, Known(r), r.pc = "check"
    PROVE  LET s == [r EXCEPT !.pc = FirstMissing(r)]
           IN  Moves(r, s) /\ s.pc \in Polling /\ s.nb = r.nb /\ s.sb = r.sb
<1>. DEFINE s == [r EXCEPT !.pc = FirstMissing(r)]
<1>1. FirstMissing(r) \in {"nb", "sb", "of"}
  BY DEF FirstMissing
<1>2. s \in Records
  BY <1>1 DEF Records
<1>3. /\ s.pc = FirstMissing(r) /\ s.type = r.type /\ s.parent = r.parent /\ s.openflow = r.openflow
      /\ s.nb = r.nb /\ s.sb = r.sb /\ s.of = r.of /\ s.result = r.result /\ s.status = r.status
  BY DEF Records
<1>4. ~ r.result /\ r.status = None /\ Polled(r)
  BY DEF Known, Polling
<1>. HIDE DEF s
<1>5. Polled(s)
  BY <1>3, <1>4 DEF Polled, FirstMissing
<1>6. Known(s)
  BY <1>1, <1>3, <1>4, <1>5 DEF Known, Early, Polling
<1>. QED  BY <1>1, <1>2, <1>3, <1>6 DEF Moves, Polling, s

LEMMA CheckStep ==
    ASSUME IInv, NEW p \in Probes, Check(p)
    PROVE  \E s : Effect(p, s)
<1>. DEFINE r == probe[p]
<1>1. r \in Records /\ Known(r) /\ r.pc = "check"
  BY Before DEF Check
<1>2. PICK s : (s = Missed(r, "timeout") \/ s = [r EXCEPT !.pc = FirstMissing(r)]) /\ Become(p, s)
  BY DEF Check
<1>3. /\ Moves(r, s) /\ s.pc \in Polling \cup {"cleanup"}
      /\ s.nb.status = "observed" => r.nb.status = "observed"
      /\ s.sb.status = "observed" => r.sb.status = "observed"
  <2>1. CASE s = Missed(r, "timeout")
    BY <1>1, <2>1, MissedRecord DEF Polling
  <2>2. CASE s = [r EXCEPT !.pc = FirstMissing(r)]
    BY <1>1, <2>2, CheckedRecord
  <2>. QED  BY <1>2, <2>1, <2>2
<1>. QED  BY <1>1, <1>2, <1>3, PollStep DEF Check, Polling

\* A query that finds nothing, fails or is aborted.
LEMMA UnansweredRecord ==
    ASSUME NEW r \in Records, Known(r), r.pc \in Polling, NEW s,
           \/ s = [r EXCEPT !.elapsed = @ + 1, !.pc = "check"]
           \/ s = Missed(r, "failed")
           \/ s = [r EXCEPT !.pc = "cleanup"]
    PROVE  /\ Moves(r, s) /\ s.pc \in Polling \cup {"cleanup"}
           /\ s.nb.status = "observed" => r.nb.status = "observed"
           /\ s.sb.status = "observed" => r.sb.status = "observed"
<1>1. CASE s = [r EXCEPT !.elapsed = @ + 1, !.pc = "check"]
  <2>1. s \in Records
    <3>1. PICK t : t = [r EXCEPT !.elapsed = @ + 1]
      OBVIOUS
    <3>2. t \in Records
      BY <3>1, LaterRecord
    <3>3. s = [t EXCEPT !.pc = "check"]
      BY <1>1, <3>1 DEF Records
    <3>. QED  BY <3>2, <3>3 DEF Records
  <2>2. /\ s.pc = "check" /\ s.type = r.type /\ s.parent = r.parent /\ s.openflow = r.openflow
        /\ s.nb = r.nb /\ s.sb = r.sb /\ s.of = r.of /\ s.result = r.result /\ s.status = r.status
    BY <1>1 DEF Records
  <2>3. ~ r.result /\ r.status = None /\ Polled(r)
    BY DEF Known, Polling
  <2>4. Polled(s)
    BY <2>2, <2>3 DEF Polled
  <2>5. Known(s)
    BY <2>2, <2>3, <2>4 DEF Known, Early, Polling
  <2>. QED  BY <2>1, <2>2, <2>5 DEF Moves, Polling
<1>2. CASE s = Missed(r, "failed")
  BY <1>2, MissedRecord
<1>3. CASE s = [r EXCEPT !.pc = "cleanup"]
  <2>1. s.nb = r.nb /\ s.sb = r.sb
    BY <1>3 DEF Records
  <2>. QED  BY <1>3, <2>1, AbortedRecord DEF Polling
<1>. QED  BY <1>1, <1>2, <1>3

\* The row is found in the northbound database.
LEMMA NbFoundRecord ==
    ASSUME NEW r \in Records, Known(r), r.pc = "nb"
    PROVE  LET s == [r EXCEPT !.nb = Stage("observed", r.elapsed), !.pc = "sb"]
           IN  Moves(r, s) /\ s.pc = "sb" /\ s.sb = r.sb
<1>. DEFINE s == [r EXCEPT !.nb = Stage("observed", r.elapsed), !.pc = "sb"]
<1>1. Stage("observed", r.elapsed) \in Stages
  BY DEF Stage, Stages, Latencies, Records
<1>2. s \in Records
  BY <1>1 DEF Records
<1>3. /\ s.pc = "sb" /\ s.type = r.type /\ s.parent = r.parent /\ s.openflow = r.openflow
      /\ s.nb.status = "observed" /\ s.sb = r.sb /\ s.of = r.of
      /\ s.result = r.result /\ s.status = r.status
  BY DEF Records, Stage
<1>4. ~ r.result /\ r.status = None /\ Polled(r)
  BY DEF Known, Polling
<1>. HIDE DEF s
<1>5. Polled(s)
  BY <1>3, <1>4 DEF Polled
<1>6. Known(s)
  BY <1>3, <1>4, <1>5 DEF Known, Early, Polling
<1>. QED  BY <1>2, <1>3, <1>6 DEF Moves, s

\* A query takes time; what the poll loop makes of its answer is a step of it.
LEMMA AnswerStep ==
    ASSUME IInv, NEW p \in Probes, probe[p].pc \in Polling, NEW d \in Delays,
           UNCHANGED <<nb, sb, flows, created, realized>>, NEW r, r = [probe[p] EXCEPT !.elapsed = @ + d]
    PROVE  /\ r \in Records /\ Known(r) /\ r.pc = probe[p].pc
           /\ \A s : /\ Become(p, s) /\ Moves(r, s) /\ s.pc \in Polling \cup {"cleanup"}
                     /\ s.nb.status = "observed" => r.nb.status = "observed" \/ NbSees(p)
                     /\ s.sb.status = "observed" => r.sb.status = "observed" \/ SbSees(p)
                     => \E t : Effect(p, t)
           /\ \/ Become(p, [r EXCEPT !.elapsed = @ + 1, !.pc = "check"])
              \/ Become(p, Missed(r, "failed"))
              \/ Become(p, [r EXCEPT !.pc = "cleanup"])
              => \E t : Effect(p, t)
<1>1. /\ r \in Records /\ Known(r) /\ r.pc = probe[p].pc /\ r.type = probe[p].type
      /\ r.parent = probe[p].parent /\ r.nb = probe[p].nb /\ r.sb = probe[p].sb
  BY Before, LaterRecord, TimeAssumption
<1>2. ASSUME NEW s, Become(p, s), Moves(r, s), s.pc \in Polling \cup {"cleanup"},
             s.nb.status = "observed" => r.nb.status = "observed" \/ NbSees(p),
             s.sb.status = "observed" => r.sb.status = "observed" \/ SbSees(p)
      PROVE  \E t : Effect(p, t)
  BY <1>1, <1>2, PollStep DEF Moves
<1>3. CASE Become(p, [r EXCEPT !.elapsed = @ + 1, !.pc = "check"])
  BY <1>1, <1>2, <1>3, UnansweredRecord
<1>4. CASE Become(p, Missed(r, "failed"))
  BY <1>1, <1>2, <1>4, UnansweredRecord
<1>5. CASE Become(p, [r EXCEPT !.pc = "cleanup"])
  BY <1>1, <1>2, <1>5, UnansweredRecord
<1>. QED  BY <1>1, <1>2, <1>3, <1>4, <1>5

\* The row is found in the southbound database; without OpenFlow that is the end.
LEMMA SbFoundRecord ==
    ASSUME NEW r \in Records, Known(r), r.pc = "sb", NEW t, t = [r EXCEPT !.sb = Stage("observed", r.elapsed)],
           NEW s, s = IF r.openflow THEN [t EXCEPT !.pc = "of"] ELSE Return(t)
    PROVE  Moves(r, s) /\ s.pc \in {"of", "cleanup"} /\ s.nb = r.nb
<1>1. Stage("observed", r.elapsed) \in Stages
  BY DEF Stage, Stages, Latencies, Records
<1>2. t \in Records
  BY <1>1 DEF Records
<1>3. /\ t.pc = "sb" /\ t.type = r.type /\ t.parent = r.parent /\ t.openflow = r.openflow
      /\ t.sb.status = "observed" /\ t.nb = r.nb /\ t.of = r.of
      /\ t.result = r.result /\ t.status = r.status
  BY DEF Records, Stage
<1>4. ~ r.result /\ r.status = None /\ Polled(r)
  BY DEF Known, Polling
<1>5. CASE r.openflow
  <2>1. s = [t EXCEPT !.pc = "of"]
    BY <1>5
  <2>2. s \in Records
    BY <1>2, <2>1 DEF Records
  <2>3. /\ s.pc = "of" /\ s.type = t.type /\ s.parent = t.parent /\ s.openflow = t.openflow
        /\ s.nb = t.nb /\ s.sb = t.sb /\ s.of = t.of /\ s.result = t.result /\ s.status = t.status
    BY <1>2, <2>1 DEF Records
  <2>4. Polled(s)
    BY <1>3, <1>4, <1>5, <2>3, SMT, SMTT(60) DEF Polled
  <2>5. Known(s)
    BY <1>3, <1>4, <2>3, <2>4 DEF Known, Early, Polling
  <2>. QED  BY <1>3, <2>2, <2>3, <2>5 DEF Moves
<1>6. CASE ~ r.openflow
  <2>1. s = Return(t)
    BY <1>6
  <2>2. Conclusive(t)
    BY <1>3, <1>4, <1>6 DEF Conclusive, Polled
  <2>3. Moves(t, s) /\ s.pc = "cleanup" /\ s.nb = t.nb
    BY <1>2, <1>3, <1>4, <2>1, <2>2, ReturnRecord
  <2>. QED  BY <1>3, <2>3 DEF Moves
<1>. QED  BY <1>5, <1>6

\* The flows are found: every stage was observed.
LEMMA OfFoundRecord ==
    ASSUME NEW r \in Records, Known(r), r.pc = "of"
    PROVE  LET s == Return([r EXCEPT !.of = Stage("observed", r.elapsed)])
           IN  Moves(r, s) /\ s.pc = "cleanup" /\ s.nb = r.nb /\ s.sb = r.sb
<1>. DEFINE t == [r EXCEPT !.of = Stage("observed", r.elapsed)]
<1>1. Stage("observed", r.elapsed) \in Stages
  BY DEF Stage, Stages, Latencies, Records
<1>2. t \in Records
  BY <1>1 DEF Records
<1>3. /\ t.pc = "of" /\ t.type = r.type /\ t.parent = r.parent /\ t.openflow = r.openflow
      /\ t.of.status = "observed" /\ t.nb = r.nb /\ t.sb = r.sb
      /\ t.result = r.result /\ t.status = r.status
  BY DEF Records, Stage
<1>4. r.status = None /\ Polled(r)
  BY DEF Known, Polling
<1>. HIDE DEF t
<1>5. Conclusive(t)
  BY <1>3, <1>4 DEF Conclusive, Polled
<1>6. Moves(t, Return(t)) /\ Return(t).pc = "cleanup" /\ Return(t).nb = t.nb /\ Return(t).sb = t.sb
  BY <1>2, <1>3, <1>4, <1>5, ReturnRecord
<1>. QED  BY <1>3, <1>6 DEF Moves, t

LEMMA FindNbStep ==
    ASSUME IInv, NEW p \in Probes, FindNb(p)
    PROVE  \E s : Effect(p, s)
<1>. DEFINE Later(d) == [probe[p] EXCEPT !.elapsed = @ + d]
            Found(r) == [r EXCEPT !.nb = Stage("observed", r.elapsed), !.pc = "sb"]
<1>1. probe[p].pc = "nb" /\ UNCHANGED <<nb, sb, flows, created, realized>>
  BY DEF FindNb, Query
<1>2. PICK d \in Delays :
        \/ NbSees(p) /\ Become(p, Found(Later(d)))
        \/ Become(p, [Later(d) EXCEPT !.elapsed = @ + 1, !.pc = "check"])
        \/ Become(p, Missed(Later(d), "failed"))
        \/ Become(p, [Later(d) EXCEPT !.pc = "cleanup"])
  BY DEF FindNb, Query
<1>3. PICK r : r = Later(d)
  OBVIOUS
<1>4. CASE NbSees(p) /\ Become(p, Found(r))
  <2>1. r \in Records /\ Known(r) /\ r.pc = "nb"
    BY <1>1, <1>3, AnswerStep DEF Polling
  <2>2. PICK s : s = Found(r)
    OBVIOUS
  <2>3. Moves(r, s) /\ s.pc \in Polling \cup {"cleanup"} /\ s.sb = r.sb
    BY <2>1, <2>2, NbFoundRecord DEF Polling
  <2>4. Become(p, s)
    BY <1>4, <2>2
  <2>. HIDE DEF Found
  <2>. QED  BY <1>1, <1>3, <1>4, <2>3, <2>4, AnswerStep DEF Polling
<1>5. CASE ~ (NbSees(p) /\ Become(p, Found(r)))
  BY <1>1, <1>2, <1>3, <1>5, AnswerStep DEF Polling
<1>. QED  BY <1>4, <1>5

LEMMA FindSbStep ==
    ASSUME IInv, NEW p \in Probes, FindSb(p)
    PROVE  \E s : Effect(p, s)
<1>. DEFINE Later(d) == [probe[p] EXCEPT !.elapsed = @ + d]
            Found(r) == LET t == [r EXCEPT !.sb = Stage("observed", r.elapsed)]
                        IN  IF r.openflow THEN [t EXCEPT !.pc = "of"] ELSE Return(t)
<1>1. probe[p].pc = "sb" /\ UNCHANGED <<nb, sb, flows, created, realized>>
  BY DEF FindSb, Query
<1>2. PICK d \in Delays :
        \/ SbSees(p) /\ Become(p, Found(Later(d)))
        \/ Become(p, [Later(d) EXCEPT !.elapsed = @ + 1, !.pc = "check"])
        \/ Become(p, Missed(Later(d), "failed"))
        \/ Become(p, [Later(d) EXCEPT !.pc = "cleanup"])
  BY DEF FindSb, Query
<1>3. PICK r : r = Later(d)
  OBVIOUS
<1>4. CASE SbSees(p) /\ Become(p, Found(r))
  <2>1. r \in Records /\ Known(r) /\ r.pc = "sb"
    BY <1>1, <1>3, AnswerStep DEF Polling
  <2>2. PICK s : s = Found(r)
    OBVIOUS
  <2>3. Moves(r, s) /\ s.pc \in Polling \cup {"cleanup"} /\ s.nb = r.nb
    <3>1. PICK t : t = [r EXCEPT !.sb = Stage("observed", r.elapsed)]
      OBVIOUS
    <3>2. s = IF r.openflow THEN [t EXCEPT !.pc = "of"] ELSE Return(t)
      BY <2>2, <3>1
    <3>3. Moves(r, s) /\ s.pc \in {"of", "cleanup"} /\ s.nb = r.nb
      BY <2>1, <3>1, <3>2, SbFoundRecord
    <3>. QED  BY <3>3 DEF Polling
  <2>4. Become(p, s)
    BY <1>4, <2>2
  <2>. HIDE DEF Found
  <2>. QED  BY <1>1, <1>3, <1>4, <2>3, <2>4, AnswerStep DEF Polling
<1>5. CASE ~ (SbSees(p) /\ Become(p, Found(r)))
  BY <1>1, <1>2, <1>3, <1>5, AnswerStep DEF Polling
<1>. QED  BY <1>4, <1>5

LEMMA FindOfStep ==
    ASSUME IInv, NEW p \in Probes, FindOf(p)
    PROVE  \E s : Effect(p, s)
<1>. DEFINE Later(d) == [probe[p] EXCEPT !.elapsed = @ + d]
            Found(r) == Return([r EXCEPT !.of = Stage("observed", r.elapsed)])
<1>1. probe[p].pc = "of" /\ UNCHANGED <<nb, sb, flows, created, realized>>
  BY DEF FindOf, Query
<1>2. PICK d \in Delays :
        \/ FlowSees(p) /\ Become(p, Found(Later(d)))
        \/ Become(p, [Later(d) EXCEPT !.elapsed = @ + 1, !.pc = "check"])
        \/ Become(p, Missed(Later(d), "failed"))
        \/ Become(p, [Later(d) EXCEPT !.pc = "cleanup"])
  BY DEF FindOf, Query
<1>3. PICK r : r = Later(d)
  OBVIOUS
<1>4. CASE FlowSees(p) /\ Become(p, Found(r))
  <2>1. r \in Records /\ Known(r) /\ r.pc = "of"
    BY <1>1, <1>3, AnswerStep DEF Polling
  <2>2. PICK s : s = Found(r)
    OBVIOUS
  <2>3. Moves(r, s) /\ s.pc \in Polling \cup {"cleanup"} /\ s.nb = r.nb /\ s.sb = r.sb
    BY <2>1, <2>2, OfFoundRecord DEF Polling
  <2>4. Become(p, s)
    BY <1>4, <2>2
  <2>. HIDE DEF Found
  <2>. QED  BY <1>1, <1>3, <1>4, <2>3, <2>4, AnswerStep DEF Polling
<1>5. CASE ~ (FlowSees(p) /\ Become(p, Found(r)))
  BY <1>1, <1>2, <1>3, <1>5, AnswerStep DEF Polling
<1>. QED  BY <1>4, <1>5

\* An error of a cleanup command is noted; any other exception ends the cleanup.
LEMMA ErrorRecord ==
    ASSUME NEW r \in Records, Known(r), r.pc \in {"cleanup", "parent"}
    PROVE  /\ LET s == [r EXCEPT !.errors = TRUE]
              IN  Moves(r, s) /\ s.pc = r.pc /\ s.nb = r.nb /\ s.sb = r.sb /\ s.errors
           /\ LET s == [r EXCEPT !.errors = TRUE, !.pc = "done"]
              IN  Moves(r, s) /\ s.pc = "done" /\ s.nb = r.nb /\ s.sb = r.sb /\ s.errors
<1>1. ASSUME NEW pc \in {r.pc, "done"}, NEW s, s = [r EXCEPT !.errors = TRUE, !.pc = pc]
      PROVE  Moves(r, s) /\ s.pc = pc /\ s.nb = r.nb /\ s.sb = r.sb /\ s.errors
  <2>1. s \in Records
    BY <1>1 DEF Records
  <2>2. /\ s.pc = pc /\ s.type = r.type /\ s.parent = r.parent /\ s.openflow = r.openflow
        /\ s.nb = r.nb /\ s.sb = r.sb /\ s.of = r.of /\ s.result = r.result /\ s.status = r.status
        /\ s.errors
    BY <1>1 DEF Records
  <2>3. r.status = None
    BY DEF Known
  <2>4. Known(s)
    BY <1>1, <2>2, <2>3 DEF Known, Conclusive, Early, Polling
  <2>. QED  BY <1>1, <2>1, <2>2, <2>4 DEF Moves
<1>2. [r EXCEPT !.errors = TRUE] = [r EXCEPT !.errors = TRUE, !.pc = r.pc]
  BY DEF Records
<1>. QED  BY <1>1, <1>2

\* The temporary parent is deleted next.
LEMMA ParentRecord ==
    ASSUME NEW r \in Records, Known(r), r.pc = "cleanup"
    PROVE  LET s == [r EXCEPT !.pc = "parent"]
           IN  Moves(r, s) /\ s.pc = "parent" /\ s.nb = r.nb /\ s.sb = r.sb /\ s.errors = r.errors
<1>. DEFINE s == [r EXCEPT !.pc = "parent"]
<1>1. s \in Records
  BY DEF Records
<1>2. /\ s.pc = "parent" /\ s.type = r.type /\ s.parent = r.parent /\ s.openflow = r.openflow
      /\ s.nb = r.nb /\ s.sb = r.sb /\ s.of = r.of /\ s.result = r.result /\ s.status = r.status
      /\ s.errors = r.errors
  BY DEF Records
<1>. HIDE DEF s
<1>3. Known(s)
  BY <1>2 DEF Known, Conclusive, Early, Polling
<1>. QED  BY <1>1, <1>2, <1>3 DEF Moves, s

LEMMA CleanupRowStep ==
    ASSUME IInv, NEW p \in Probes, CleanupRow(p)
    PROVE  \E s : Effect(p, s)
<1>. DEFINE Continue(r) == IF r.parent = p THEN [r EXCEPT !.pc = "parent"] ELSE End(r)
            possible == probe[p].type \in Capable => ParentExists(p)
            after == {r \in nb : ~ SameRow(r, Row(p))}
            r == probe[p]
<1>1. r \in Records /\ Known(r) /\ r.pc = "cleanup" /\ Begun(p) /\ Placed(p)
  BY Before DEF CleanupRow, Begun
<1>2. PICK c \in Results(possible, after) :
        /\ nb' = c.rows
        /\ Become(p, CASE c.outcome = "ok" -> Continue(r)
                       [] c.outcome = "error" -> Continue([r EXCEPT !.errors = TRUE])
                       [] OTHER -> [r EXCEPT !.errors = TRUE, !.pc = "done"])
  BY DEF CleanupRow, CleanupCommand
<1>3. UNCHANGED <<sb, flows, created, realized>>
  BY DEF CleanupRow, CleanupCommand
<1>4. (nb' = nb \/ nb' = after) /\ (c.outcome = "ok" => nb' = after)
  <2>. HIDE DEF possible, after, Continue
  <2>. QED  BY <1>2, SMT, SMTT(60) DEF Results
<1>5. ASSUME NEW t \in Records, Known(t), t.pc = "cleanup", NEW s, s = Continue(t)
      PROVE  /\ Moves(t, s) /\ s.nb = t.nb /\ s.sb = t.sb /\ s.errors = t.errors
             /\ s.pc = IF t.parent = p THEN "parent" ELSE "done"
  BY <1>5, ParentRecord, EndRecord
<1>. HIDE DEF Continue
<1>6. PICK s : /\ Become(p, s) /\ Moves(r, s) /\ s.nb = r.nb /\ s.sb = r.sb
               /\ (s.pc = "parent" /\ r.parent = p) \/ s.pc = "done"
               /\ s.pc = "done" /\ ~ s.errors => r.parent # p /\ nb' = after
  <2>1. CASE c.outcome = "ok"
    BY <1>1, <1>2, <1>4, <1>5, <2>1
  <2>2. CASE c.outcome = "error"
    <3>1. PICK t : t = [r EXCEPT !.errors = TRUE]
      OBVIOUS
    <3>2. Moves(r, t) /\ t.pc = "cleanup" /\ t.nb = r.nb /\ t.sb = r.sb /\ t.errors
      BY <1>1, <3>1, ErrorRecord
    <3>3. Become(p, Continue(t))
      BY <1>2, <2>2, <3>1
    <3>. QED  BY <1>5, <3>2, <3>3, SMT, SMTT(60) DEF Moves
  <2>3. CASE c.outcome \notin {"ok", "error"}
    BY <1>1, <1>2, <2>3, ErrorRecord
  <2>. QED  BY <2>1, <2>2, <2>3
<1>7. ThreadStep(p, s)
  BY <1>1, <1>6 DEF ThreadStep, Moves, Placed
<1>8. RowStep(p, s)
  BY <1>1, <1>3, <1>4, <1>6 DEF RowStep, Polling
<1>. QED  BY <1>3, <1>6, <1>7, <1>8 DEF Effect, Become

LEMMA CleanupParentStep ==
    ASSUME IInv, NEW p \in Probes, CleanupParent(p)
    PROVE  \E s : Effect(p, s)
<1>. DEFINE after == {r \in nb : r # TempRow(p) /\ r.parent # p}
            r == probe[p]
<1>1. r \in Records /\ Known(r) /\ r.pc = "parent" /\ Begun(p) /\ Placed(p)
  BY Before DEF CleanupParent, Begun
<1>2. PICK c \in Results(TRUE, after) :
        /\ nb' = c.rows
        /\ Become(p, CASE c.outcome = "ok" -> End(r)
                       [] c.outcome = "error" -> End([r EXCEPT !.errors = TRUE])
                       [] OTHER -> [r EXCEPT !.errors = TRUE, !.pc = "done"])
  BY DEF CleanupParent, CleanupCommand
<1>3. UNCHANGED <<sb, flows, created, realized>>
  BY DEF CleanupParent, CleanupCommand
<1>4. (nb' = nb \/ nb' = after) /\ (c.outcome = "ok" => nb' = after)
  <2>. HIDE DEF after
  <2>. QED  BY <1>2, SMT, SMTT(60) DEF Results
<1>5. PICK s : /\ Become(p, s) /\ Moves(r, s) /\ s.nb = r.nb /\ s.sb = r.sb /\ s.pc = "done"
               /\ ~ s.errors => nb' = after
  <2>1. CASE c.outcome = "ok"
    BY <1>1, <1>2, <1>4, <2>1, EndRecord
  <2>2. CASE c.outcome = "error"
    <3>1. PICK t : t = [r EXCEPT !.errors = TRUE]
      OBVIOUS
    <3>2. Moves(r, t) /\ t.pc = "parent" /\ t.nb = r.nb /\ t.sb = r.sb /\ t.errors
      BY <1>1, <3>1, ErrorRecord
    <3>3. Become(p, End(t))
      BY <1>2, <2>2, <3>1
    <3>. QED  BY <3>2, <3>3, EndRecord, SMT, SMTT(60) DEF Moves
  <2>3. CASE c.outcome \notin {"ok", "error"}
    BY <1>1, <1>2, <2>3, ErrorRecord
  <2>. QED  BY <2>1, <2>2, <2>3
<1>6. ThreadStep(p, s)
  BY <1>1, <1>5 DEF ThreadStep, Moves, Placed
<1>7. RowStep(p, s)
  BY <1>1, <1>3, <1>4, <1>5 DEF RowStep, Polling
<1>. QED  BY <1>3, <1>5, <1>6, <1>7 DEF Effect, Become
-----------------------------------------------------------------------------
(* A step of a probe keeps the invariant.                                   *)

\* A probe that has begun stays about the same resource.
LEMMA Stable ==
    ASSUME IInv, NEW p \in Probes, NEW s, Effect(p, s)
    PROVE  /\ probe'[p] = s /\ \A q \in Probes : q # p => probe'[q] = probe[q]
           /\ \A q \in Probes : Begun(q) =>
                /\ Begun(q)' /\ Row(q)' = Row(q) /\ KeyOf(q)' = KeyOf(q)
                /\ probe'[q].type = probe[q].type /\ probe'[q].parent = probe[q].parent
<1>1. probe'[p] = s /\ \A q \in Probes : q # p => probe'[q] = probe[q]
  BY Before DEF Effect
<1>2. ASSUME NEW q \in Probes, Begun(q)
      PROVE  Begun(q)' /\ probe'[q].type = probe[q].type /\ probe'[q].parent = probe[q].parent
  BY <1>1, <1>2 DEF Begun, Effect, ThreadStep
<1>. QED  BY <1>1, <1>2 DEF Row, KeyOf

\* The fields of rows.
LEMMA RowFields ==
    ASSUME NEW p
    PROVE  /\ Row(p).owner = p /\ Row(p).type = probe[p].type /\ Row(p).parent = probe[p].parent
           /\ Row(p).key = KeyOf(p)
           /\ TempRow(p).owner = p /\ TempRow(p).type = "target"
BY DEF Row, TempRow

\* A resource is not a temporary datapath.
LEMMA NotTarget ==
    ASSUME NEW r \in Records
    PROVE  r.type # "target"
BY DEF Records, Capable, Datapaths, Ports

LEMMA RowTypes ==
    ASSUME NEW p \in Probes, probe[p] \in Records
    PROVE  Row(p) \in Rows /\ TempRow(p) \in Rows
BY DEF Row, TempRow, Rows, Records, KeyOf

\* Every row after a step was there or is one of the probe's own.
LEMMA NewRows ==
    ASSUME IInv, NEW p \in Probes, NEW s, Effect(p, s)
    PROVE  /\ \A r \in nb' : \/ r \in nb
                             \/ r = Row(p) /\ Begun(p) /\ p \in created'
                             \/ r = TempRow(p) /\ Begun(p) /\ probe[p].parent = p
           /\ created \subseteq created' /\ created' \subseteq created \cup {p}
<1>1. Placed(p)
  BY Before
<1>2. RowStep(p, s)
  BY DEF Effect
<1>. QED  BY <1>1, <1>2 DEF RowStep, Begun, Placed

LEMMA EffectTypes ==
    ASSUME IInv, NEW p \in Probes, NEW s, Effect(p, s)
    PROVE  TypeOK' /\ \A q \in Probes : Known(probe'[q]) /\ Placed(q)'
<1>1. s \in Records /\ Known(s) /\ s.parent \in {p, Target, None}
      /\ (s.pc \in {"setup", "wait", "parent"} => s.parent = p)
  BY DEF Effect, ThreadStep
<1>2. probe' \in [Probes -> Records]
  BY <1>1, Before DEF Effect
<1>3. nb' \subseteq Rows
  BY Before, NewRows, RowTypes
<1>4. created' \subseteq Probes
  BY NewRows DEF IInv, TypeOK
<1>5. sb' \subseteq Rows /\ flows' \subseteq Rows /\ realized' \subseteq Probes
  BY DEF IInv, TypeOK, Effect
<1>6. ASSUME NEW q \in Probes PROVE Known(probe'[q]) /\ Placed(q)'
  BY <1>1, Before, Stable, SMT, SMTT(60) DEF Placed
<1>. QED  BY <1>2, <1>3, <1>4, <1>5, <1>6 DEF TypeOK

LEMMA EffectOwned ==
    ASSUME IInv, NEW p \in Probes, NEW s, Effect(p, s)
    PROVE  RowsOwned' /\ RowsRecorded'
<1>1. RowsOwned /\ RowsRecorded /\ nb \subseteq Rows /\ sb \subseteq Rows
  BY DEF IInv, TypeOK
<1>2. sb' = sb /\ realized' = realized
  BY DEF Effect
<1>3. ASSUME NEW r \in nb' \cup sb'
      PROVE  /\ Begun(r.owner)'
             /\ r = Row(r.owner)' \/ (r = TempRow(r.owner) /\ probe'[r.owner].parent = r.owner)
  <2>1. CASE r \in nb \cup sb
    <3>1. r.owner \in Probes
      BY <1>1, <2>1 DEF Rows
    <3>2. Begun(r.owner) /\ (r = Row(r.owner) \/ (r = TempRow(r.owner) /\ probe[r.owner].parent = r.owner))
      BY <1>1, <2>1 DEF RowsOwned
    <3>. QED  BY <3>1, <3>2, Stable
  <2>2. CASE r = Row(p) /\ Begun(p)
    BY <2>2, Stable, RowFields
  <2>3. CASE r = TempRow(p) /\ Begun(p) /\ probe[p].parent = p
    BY <2>3, Stable, RowFields, SMT, SMTT(60)
  <2>. QED  BY <1>2, <2>1, <2>2, <2>3, NewRows
<1>4. RowsOwned'
  BY <1>3 DEF RowsOwned, TempRow
<1>5. ASSUME NEW r \in nb', r.type # "target" PROVE r.owner \in created'
  BY <1>1, <1>5, NewRows, RowFields, SMT, SMTT(60) DEF RowsRecorded
<1>6. RowsRecorded'
  BY <1>1, <1>2, <1>5 DEF RowsRecorded
<1>. QED  BY <1>4, <1>6

LEMMA EffectUndisturbed ==
    ASSUME IInv, NEW p \in Probes, NEW s, Effect(p, s)
    PROVE  Undisturbed'
<1>1. SUFFICES ASSUME NEW q \in Probes, probe'[q].pc \in Polling
               PROVE  Row(q)' \in nb' \/ \E u \in Probes \ {q} : Begun(u)' /\ SameRow(Row(u)', Row(q)')
  BY DEF Undisturbed, Polling, SameRow
<1>2. RowStep(p, s) /\ RowsOwned /\ Undisturbed
  BY DEF Effect, IInv
<1>3. CASE q = p /\ Row(p) \in nb'
  <2>1. Begun(p)
    BY <1>2, <1>3, NewRows, RowFields, SMT, SMTT(60) DEF RowsOwned
  <2>. QED  BY <1>3, <2>1, Stable
<1>4. CASE ~ (q = p /\ Row(p) \in nb')
  <2>1. probe[q].pc \in Polling /\ (q = p => nb' = nb)
    BY <1>1, <1>2, <1>4, Stable, SMT, SMTT(60) DEF RowStep
  <2>2. Begun(q)
    BY <2>1 DEF Begun, Polling
  <2>3. Row(q) \in nb \/ \E u \in Probes \ {q} : Begun(u) /\ SameRow(Row(u), Row(q))
    BY <1>2, <2>1 DEF Undisturbed, Polling
  <2>4. CASE \E u \in Probes \ {q} : Begun(u) /\ SameRow(Row(u), Row(q))
    <3>1. PICK u \in Probes \ {q} : Begun(u) /\ SameRow(Row(u), Row(q))
      BY <2>4
    <3>2. Begun(u)' /\ Row(u)' = Row(u) /\ Row(q)' = Row(q)
      BY <2>2, <3>1, Stable
    <3>. QED  BY <3>1, <3>2
  <2>5. CASE Row(q) \in nb /\ Row(q) \in nb'
    BY <2>2, <2>5, Stable
  <2>6. CASE Row(q) \in nb /\ Row(q) \notin nb'
    <3>1. q # p
      BY <2>1, <2>6
    <3>2. Row(q) # TempRow(p) /\ Row(q).parent # p
      BY <3>1, Before, NamesAssumption, NotTarget, RowFields, SMT, SMTT(60) DEF Placed
    <3>3. SameRow(Row(q), Row(p)) /\ probe[p].pc = "cleanup"
      BY <1>2, <2>6, <3>2 DEF RowStep
    <3>4. Begun(p) /\ SameRow(Row(p), Row(q))
      BY <3>3 DEF Begun, SameRow
    <3>5. Begun(p)' /\ Row(p)' = Row(p) /\ Row(q)' = Row(q)
      BY <2>2, <3>4, Stable
    <3>. QED  BY <3>1, <3>4, <3>5
  <2>. QED  BY <2>3, <2>4, <2>5, <2>6
<1>. QED  BY <1>3, <1>4

LEMMA EffectNothingLeft ==
    ASSUME IInv, NEW p \in Probes, NEW s, Effect(p, s)
    PROVE  NothingLeftBehind'
<1>1. SUFFICES ASSUME NEW q \in Probes, probe'[q].pc = "done", ~ probe'[q].errors, NEW r \in nb', r.owner = q
               PROVE  FALSE
  BY DEF NothingLeftBehind
<1>2. RowStep(p, s) /\ NothingLeftBehind
  BY DEF Effect, IInv
<1>3. CASE q # p
  <2>1. r \in nb
    BY <1>1, <1>3, NewRows, RowFields
  <2>. QED  BY <1>1, <1>2, <1>3, <2>1, Stable DEF NothingLeftBehind
<1>4. CASE q = p
  <2>1. \/ probe[p].pc = "cleanup" /\ probe[p].parent # p /\ ~ SameRow(r, Row(p))
        \/ probe[p].pc = "parent" /\ r # TempRow(p) /\ r.parent # p
    BY <1>1, <1>2, <1>4, Stable DEF RowStep
  <2>2. Begun(p) /\ (probe[p].pc = "parent" => probe[p].parent = p)
    BY <2>1, Before DEF Begun, Placed
  <2>3. r = Row(p)' \/ (r = TempRow(p) /\ probe'[p].parent = p)
    BY <1>1, <1>4, EffectOwned DEF RowsOwned, TempRow
  <2>4. r = Row(p) \/ (r = TempRow(p) /\ probe[p].parent = p)
    BY <2>2, <2>3, Stable
  <2>. QED  BY <2>1, <2>2, <2>4, RowFields DEF SameRow
<1>. QED  BY <1>3, <1>4

\* No other probe that has begun is about a resource of the same type whose
\* addresses contain those of p.
Alone(p) ==
    \A q \in Probes \ {p} : Begun(q) /\ probe[q].type = probe[p].type => <<KeyOf(p), KeyOf(q)>> \notin Occurs

\* Two probes of one type with one key have one address, which occurs in itself.
LEMMA SameKeyOccurs ==
    ASSUME NEW p \in Probes, NEW q \in Probes, probe[q].type = probe[p].type, KeyOf(q) = KeyOf(p)
    PROVE  q = p \/ <<KeyOf(p), KeyOf(q)>> \in Occurs
BY AddressesAssumption DEF KeyOf

\* What a probe finds when it is alone is its own row.
LEMMA FindsOwn ==
    ASSUME IInv, NEW p \in Probes, Alone(p)
    PROVE  (NbSees(p) => p \in created) /\ (SbSees(p) => p \in realized)
<1>1. RowsOwned /\ RowsRecorded /\ nb \subseteq Rows /\ sb \subseteq Rows /\ probe[p] \in Records
  BY Before DEF IInv
<1>2. ASSUME NEW r \in nb \cup sb, r.type = probe[p].type, r.key = KeyOf(p) \/ <<KeyOf(p), r.key>> \in Occurs
      PROVE  r.owner = p /\ r.type # "target"
  <2>1. r.type # "target" /\ r.owner \in Probes
    BY <1>1, <1>2, NotTarget DEF Rows
  <2>2. Begun(r.owner) /\ r = Row(r.owner)
    BY <1>1, <2>1, RowFields, SMT, SMTT(60) DEF RowsOwned
  <2>3. r.key = KeyOf(r.owner) /\ probe[r.owner].type = probe[p].type
    BY <1>2, <2>2, RowFields
  <2>. QED  BY <1>2, <2>1, <2>2, <2>3, SameKeyOccurs DEF Alone
<1>3. NbSees(p) => p \in created
  BY <1>1, <1>2 DEF NbSees, RowsRecorded
<1>4. SbSees(p) => p \in realized
  BY <1>1, <1>2 DEF SbSees, FlowMatch, RowsRecorded
<1>. QED  BY <1>3, <1>4

LEMMA EffectObserved ==
    ASSUME IInv, NEW p \in Probes, NEW s, Effect(p, s)
    PROVE  ObservedIsOwn'
<1>1. SUFFICES ASSUME NEW q \in Probes, Alone(q)'
               PROVE  /\ probe'[q].nb.status = "observed" => q \in created'
                      /\ probe'[q].sb.status = "observed" => q \in realized'
  BY DEF ObservedIsOwn, Alone
<1>2. ThreadStep(p, s) /\ realized' = realized /\ created \subseteq created' /\ ObservedIsOwn
  BY NewRows DEF Effect, IInv
<1>3. CASE ~ Begun(q)
  <2>1. q # p => probe'[q].nb = Skipped /\ probe'[q].sb = Skipped
    BY <1>3, Before, Stable, SMT, SMTT(60) DEF Begun, Known, Early
  <2>2. Skipped.status # "observed"
    BY DEF Skipped, Stage
  <2>. QED  BY <1>2, <1>3, <2>1, <2>2, Stable DEF ThreadStep
<1>4. CASE Begun(q)
  <2>1. Alone(q)
    <3>1. SUFFICES ASSUME NEW u \in Probes \ {q}, Begun(u), probe[u].type = probe[q].type
                   PROVE  <<KeyOf(q), KeyOf(u)>> \notin Occurs
      BY DEF Alone
    <3>2. Begun(u)' /\ probe'[u].type = probe'[q].type /\ KeyOf(u)' = KeyOf(u) /\ KeyOf(q)' = KeyOf(q)
      BY <1>4, <3>1, Stable
    <3>. QED  BY <1>1, <3>2 DEF Alone
  <2>2. /\ probe[q].nb.status = "observed" => q \in created
        /\ probe[q].sb.status = "observed" => q \in realized
    BY <1>2, <2>1 DEF ObservedIsOwn, Alone
  <2>3. q = p => (NbSees(p) => p \in created) /\ (SbSees(p) => p \in realized)
    BY <2>1, FindsOwn
  <2>. QED  BY <1>2, <2>2, <2>3, Stable DEF ThreadStep
<1>. QED  BY <1>3, <1>4

LEMMA EffectKeeps ==
    ASSUME IInv, NEW p \in Probes, NEW s, Effect(p, s)
    PROVE  IInv'
BY EffectTypes, EffectOwned, EffectUndisturbed, EffectNothingLeft, EffectObserved DEF IInv

-----------------------------------------------------------------------------
(* Invariance.                                                              *)

LEMMA InitHolds == Init => IInv
<1>. SUFFICES ASSUME Init PROVE IInv
  OBVIOUS
<1>1. /\ NewProbe \in Records /\ NewProbe.nb = Skipped /\ NewProbe.sb = Skipped /\ NewProbe.pc = "new"
      /\ ~ NewProbe.result /\ NewProbe.status = None /\ NewProbe.parent = None
  BY DEF NewProbe, Records, Skipped, Stage, Stages, Latencies, Capable
<1>2. nb = {} /\ sb = {} /\ flows = {} /\ created = {} /\ realized = {} /\ probe = [p \in Probes |-> NewProbe]
  BY DEF Init
<1>3. TypeOK
  BY <1>1, <1>2 DEF TypeOK
<1>4. ASSUME NEW p \in Probes PROVE Known(probe[p]) /\ Placed(p)
  BY <1>1, <1>2 DEF Known, Placed, Early, Polling
<1>5. RowsOwned /\ RowsRecorded /\ NothingLeftBehind
  BY <1>2 DEF RowsOwned, RowsRecorded, NothingLeftBehind
<1>6. Undisturbed
  BY <1>1, <1>2 DEF Undisturbed
<1>7. ObservedIsOwn
  BY <1>1, <1>2, SMT, SMTT(60) DEF ObservedIsOwn, Skipped, Stage
<1>. QED  BY <1>3, <1>4, <1>5, <1>6, <1>7 DEF IInv

LEMMA ProbeKeeps ==
    ASSUME IInv, NEW p \in Probes, ProbeStep(p)
    PROVE  IInv'
<1>1. \E s : Effect(p, s)
  BY BuildStep, SetupStep, WaitSetupStep, CreateStep, CheckStep, FindNbStep, FindSbStep, FindOfStep,
     CleanupRowStep, CleanupParentStep DEF ProbeStep
<1>. QED  BY <1>1, EffectKeeps

\* ovn-northd realizes rows that their owners still have.
LEMMA NorthdKeeps ==
    ASSUME IInv, Northd
    PROVE  IInv'
<1>1. sb' = nb /\ realized' = realized \cup {r.owner : r \in {r \in nb : r.type # "target"}}
      /\ UNCHANGED <<nb, flows, probe, created>>
  BY DEF Northd
<1>2. TypeOK /\ RowsOwned /\ RowsRecorded /\ ObservedIsOwn /\ Undisturbed /\ NothingLeftBehind
  BY DEF IInv
<1>3. TypeOK'
  <2>1. \A r \in nb : r.owner \in Probes
    BY <1>2 DEF TypeOK, Rows
  <2>2. realized' \subseteq Probes
    BY <1>1, <1>2, <2>1 DEF TypeOK
  <2>. QED  BY <1>1, <1>2, <2>2 DEF TypeOK
<1>4. \A p \in Probes : Known(probe'[p]) /\ Placed(p)'
  BY <1>1 DEF IInv, Placed
<1>5. RowsOwned'
  BY <1>1, <1>2 DEF RowsOwned, Begun, Row, TempRow, KeyOf
<1>6. RowsRecorded'
  BY <1>1, <1>2 DEF RowsRecorded
<1>7. Undisturbed' /\ NothingLeftBehind'
  BY <1>1, <1>2 DEF Undisturbed, NothingLeftBehind, Begun, SameRow, Row, KeyOf
<1>8. ObservedIsOwn'
  <2>1. realized \subseteq realized'
    BY <1>1
  <2>. QED  BY <1>1, <1>2, <2>1 DEF ObservedIsOwn, Begun, KeyOf
<1>. QED  BY <1>3, <1>4, <1>5, <1>6, <1>7, <1>8 DEF IInv

\* What a step of ovn-controller, or a step of nothing, leaves alone.
LEMMA FrameKeeps ==
    ASSUME IInv, UNCHANGED <<nb, sb, probe, created, realized>>, flows' \subseteq Rows
    PROVE  IInv'
<1>1. TypeOK'
  BY DEF IInv, TypeOK
<1>2. \A p \in Probes : Known(probe'[p]) /\ Placed(p)'
  BY DEF IInv, Placed
<1>3. RowsOwned' /\ RowsRecorded'
  BY DEF IInv, RowsOwned, RowsRecorded, Begun, Row, TempRow, KeyOf
<1>4. Undisturbed' /\ NothingLeftBehind'
  BY DEF IInv, Undisturbed, NothingLeftBehind, Begun, SameRow, Row, KeyOf
<1>5. ObservedIsOwn'
  BY DEF IInv, ObservedIsOwn, Begun, KeyOf
<1>. QED  BY <1>1, <1>2, <1>3, <1>4, <1>5 DEF IInv

LEMMA NextHolds == IInv /\ [Next]_vars => IInv'
<1>. SUFFICES ASSUME IInv, [Next]_vars PROVE IInv'
  OBVIOUS
<1>1. CASE \E p \in Probes : ProbeStep(p)
  BY <1>1, ProbeKeeps
<1>2. CASE Northd
  BY <1>2, NorthdKeeps
<1>3. CASE Controller
  BY <1>3, FrameKeeps DEF Controller, IInv, TypeOK
<1>4. CASE UNCHANGED vars
  BY <1>4, FrameKeeps DEF vars, IInv, TypeOK
<1>. QED  BY <1>1, <1>2, <1>3, <1>4 DEF Next

LEMMA Invariance == Spec => []IInv
BY InitHolds, NextHolds, PTL DEF Spec

-----------------------------------------------------------------------------
(* What it implies.                                                         *)

\* The databases and what the threads know keep their types.
THEOREM TypesCorrect == Spec => []TypeOK
BY Invariance, PTL DEF IInv

\* _derive_status: whatever ended the probe, its status is that of the first
\* required stage that was not observed, and the cleanup decides only if there
\* is none.
THEOREM VerdictIsTrue == Spec => []VerdictIsFirstMissingStage
<1>1. IInv => VerdictIsFirstMissingStage
  BY DEF IInv, Known, FirstMissingStage, VerdictIsFirstMissingStage
<1>. QED  BY <1>1, Invariance, PTL

\* _run_cleanup: without an error in the cleanup no row of the probe is left,
\* although a command that failed may have been carried out.
THEOREM CleanupIsComplete == Spec => []NothingLeftBehind
BY Invariance, PTL DEF IInv

\* _poll_stages: what a probe reports as observed is its own row, unless another
\* probe of the same type has addresses that contain its own.
THEOREM ObservationsAreOwn == Spec => []ObservedIsOwn
BY Invariance, PTL DEF IInv

\* The row of a probe that polls is there, unless another probe has one with the
\* same parent and the same key.
THEOREM PollsUndisturbed == Spec => []Undisturbed
BY Invariance, PTL DEF IInv
=============================================================================
