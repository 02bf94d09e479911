------------------------ MODULE TraceManagerRefinement ------------------------
(***************************************************************************)
(* TraceManager implements RunLifecycle: what a client that polls a run    *)
(* sees of start, submit, run_sync, _run and stop, with failing store      *)
(* calls and restarts, is a behaviour of the abstract specification.       *)
(* Last comes the length of the history.                                   *)
(***************************************************************************)
EXTENDS TraceManagerProofs

USE ThreadsAssumption, ResultsAssumption, BoundsAssumption

\* The provers, in the order in which they try a leaf that names none.
USE Zenon, SMT, ZenonT(60), SMTT(60)

-----------------------------------------------------------------------------
(* What the refinement rests on.                                            *)

LEMMA NextHeldRows ==
    IndInv /\ ArgInv /\ HeldRows /\ [Next]_vars => HeldRows'
  <1> SUFFICES ASSUME IndInv, ArgInv, HeldRows, [Next]_vars PROVE HeldRows'
    OBVIOUS
  <1>0. TypeOK /\ LocalsSet /\ LaunchInv /\ Ownership
    BY DEF IndInv
  <1> USE <1>0
  <1>1. ASSUME NEW c \in Clients, Begin(c) PROVE HeldRows'
    <2>1. c \in Threads /\ UNCHANGED <<rows, queues, arg>> /\ \E l : Goto(c, l)
      BY <1>1 DEF Begin, storeVars, sharedVars, Threads
    <2>2. ~ AtWork(c)
      BY <1>1 DEF Begin, AtWork
    <2>. QED  BY <2>1, <2>2, QuietHeld
  <1>2. ASSUME NEW c \in Clients, Enqueue(c) PROVE HeldRows'
    <2>1. c \in Threads /\ UNCHANGED <<rows, queues, arg>> /\ Goto(c, "put") /\ pc[c] = "enqueue"
      BY <1>2 DEF Enqueue, storeVars, sharedVars, Threads
    <2>2. SameJob(pc[c], "put")
      BY <2>1 DEF SameJob, Expected
    <2>. QED  BY <2>1, <2>2, SameFades, StepHeld
  <1>3. ASSUME NEW t \in Clients \cup {Main}, StartCheck(t) PROVE HeldRows'
    <2>1. t \in Threads /\ UNCHANGED <<rows, queues, arg>> /\ \E l : Goto(t, l)
      BY <1>3 DEF StartCheck, storeVars, localVars, Threads
    <2>2. ~ AtWork(t)
      BY <1>3 DEF StartCheck, AtWork
    <2>. QED  BY <2>1, <2>2, QuietHeld
  <1>4. ASSUME NEW t \in Clients \cup {Main}, Recover(t) PROVE HeldRows'
    <2>1. t \in Threads /\ UNCHANGED <<queues, arg>> /\ \E l : Goto(t, l)
      BY <1>4 DEF Recover, StoreFault, localVars, Threads
    <2>2. ~ AtWork(t)
      BY <1>4 DEF Recover, AtWork
    <2>3. ASSUME NEW p \in Probes
          PROVE  Fades(p)
      <3>1. rows'[p] = rows[p] \/ rows'[p] = FailStale(p)
        BY <1>4 DEF Recover
      <3>2. rows[p] \in Row \cup {NoRow}
        BY DEF TypeOK, StoreOK
      <3>3. IsActive(p) => FailStale(p).status = "failed"
        BY <3>2 DEF FailStale, Row, NoRow
      <3>. QED  BY <3>1, <3>3 DEF Fades, FailStale
    <2>. QED  BY <2>1, <2>2, <2>3, IdleHeld
  <1>5. ASSUME NEW t \in Clients \cup {Main}, Swap(t) \/ Launch(t) PROVE HeldRows'
    <2>1. t \in Threads /\ UNCHANGED <<rows, queues, arg>>
      BY <1>5 DEF Swap, Launch, storeVars, sharedVars, Threads
    <2>2. PICK w \in Workers : /\ pc[w] \in {"unborn", "created"}
                               /\ \A x \in Threads : x # t /\ x # w => pc'[x] = pc[x]
      <3>1. CASE Swap(t)
        <4>1. PICK w \in Workers : pc[w] = "unborn" /\ pc' = [pc EXCEPT ![t] = "launch", ![w] = "created"]
          BY <3>1 DEF Swap
        <4>2. \A x \in Threads : x # t /\ x # w => pc'[x] = pc[x]
          BY <4>1 DEF TypeOK, PcOK
        <4>. QED  BY <4>1, <4>2
      <3>2. CASE Launch(t)
        <4>1. pc[t] = "launch" /\ pc' = [pc EXCEPT ![t] = AfterStart(t), ![ref[t]] = "loop"]
          BY <3>2 DEF Launch
        <4>2. ref[t] \in Workers /\ pc[ref[t]] = "created"
          BY <2>1, <4>1 DEF LaunchInv
        <4>3. \A x \in Threads : x # t /\ x # ref[t] => pc'[x] = pc[x]
          BY <4>1 DEF TypeOK, PcOK
        <4>. QED  BY <4>2, <4>3
      <3>. QED  BY <1>5, <3>1, <3>2
    <2>3. ~ AtWork(t) /\ ~ AtWork(w)
      BY <1>5, <2>2 DEF Swap, Launch, AtWork
    <2>4. arg[t] = None /\ arg[w] = None
      BY <2>1, <2>3 DEF ArgInv, Threads
    <2>5. \A x \in Threads : Keeps(x)
      BY <2>1, <2>2, <2>4 DEF Keeps
    <2>6. \A p \in Probes : Queued(p)' => Queued(p)
      BY <2>1 DEF Queued, InQueue
    <2>. QED  BY <2>1, <2>5, <2>6, SameFades, HeldFrame
  <1>6. ASSUME NEW t \in Clients \cup Workers, RunProbe(t) PROVE HeldRows'
    <2>1. /\ t \in Threads /\ UNCHANGED <<rows, queues, arg>> /\ pc[t] = "probe"
          /\ Goto(t, IF t \in Workers THEN "reload" ELSE "finish")
      BY <1>6 DEF RunProbe, storeVars, sharedVars, Threads
    <2>2. SameJob(pc[t], IF t \in Workers THEN "reload" ELSE "finish")
      BY <2>1 DEF SameJob, Expected
    <2>. QED  BY <2>1, <2>2, SameFades, StepHeld
  <1>7. ASSUME NEW t \in Clients \cup Workers, PruneSelect(t) \/ PruneDelete(t) PROVE HeldRows'
    <2>1. t \in Threads /\ UNCHANGED queues /\ pc[t] \in {"prune", "delete"}
      BY <1>7 DEF PruneSelect, PruneDelete, sharedVars, Threads
    <2>2. ASSUME NEW p \in Probes
          PROVE  Fades(p)
      <3>1. rows'[p] = rows[p] \/ rows'[p] = NoRow
        BY <1>7 DEF PruneSelect, PruneDelete, storeVars
      <3>2. NoRow.status = "absent"
        BY DEF NoRow
      <3>. QED  BY <3>1, <3>2 DEF Fades
    <2>3. CASE UNCHANGED arg /\ \E l \in {"delete", AfterPrune(t)} : Goto(t, l)
      <3>1. PICK l \in {"delete", AfterPrune(t)} : Goto(t, l)
        BY <2>3
      <3>2. arg[t] = None \/ SameJob(pc[t], l)
        BY <2>1, PruneJob
      <3>. QED  BY <2>1, <2>2, <2>3, <3>1, <3>2, StepHeld
    <2>4. CASE StoreFault(t) /\ arg' = [arg EXCEPT ![t] = None]
      <3>1. arg'[t] = None /\ \A x \in Threads : x # t => arg'[x] = arg[x]
        BY <2>1, <2>4 DEF TypeOK, LocalOK
      <3>. QED  BY <2>1, <2>2, <2>4, <3>1, StepHeld DEF StoreFault
    <2>. QED  BY <1>7, <2>3, <2>4 DEF PruneSelect, PruneDelete
  <1>8. ASSUME NEW w \in Workers, Loop(w) \/ GetTimeout(w) \/ TaskDone(w) PROVE HeldRows'
    <2>1. w \in Threads /\ UNCHANGED <<rows, queues, arg>> /\ \E l : Goto(w, l)
      BY <1>8 DEF Loop, GetTimeout, TaskDone, storeVars, sharedVars, localVars, Threads
    <2>2. ~ AtWork(w)
      BY <1>8 DEF Loop, GetTimeout, TaskDone, AtWork
    <2>. QED  BY <2>1, <2>2, QuietHeld
  <1>9. ASSUME NEW w \in Workers, Load(w) PROVE HeldRows'
    <2>1. w \in Threads /\ UNCHANGED <<rows, queues>> /\ pc[w] \in {"load", "reload"}
      BY <1>9 DEF Load, storeVars, sharedVars, Threads
    <2>2. CASE UNCHANGED arg /\ Goto(w, IF pc[w] = "load" THEN "mark" ELSE "finish")
      <3>1. SameJob(pc[w], IF pc[w] = "load" THEN "mark" ELSE "finish")
        BY <2>1 DEF SameJob, Expected
      <3>. QED  BY <2>1, <2>2, <3>1, SameFades, StepHeld
    <2>3. CASE arg' = [arg EXCEPT ![w] = None] /\ \E l : Goto(w, l)
      <3>1. arg'[w] = None /\ \A x \in Threads : x # w => arg'[x] = arg[x]
        BY <2>1, <2>3 DEF TypeOK, LocalOK
      <3>. QED  BY <2>1, <2>3, <3>1, SameFades, StepHeld
    <2>. QED  BY <1>9, <2>2, <2>3 DEF Load, StoreFault
  <1>10. CASE Boot
    <2>1. Main \in Threads /\ UNCHANGED <<rows, queues, arg>> /\ Goto(Main, "start")
      BY <1>10 DEF Boot, storeVars, sharedVars, localVars, Threads
    <2>2. ~ AtWork(Main)
      BY <1>10 DEF Boot, AtWork
    <2>. QED  BY <2>1, <2>2, QuietHeld
  <1>11. CASE Stop
    <2>1. /\ Main \in Threads /\ UNCHANGED <<rows, arg, queueRef>> /\ Goto(Main, "join") /\ pc[Main] = "serving"
          /\ queues' = [queues EXCEPT ![queueRef] = Append(@, None)]
      BY <1>11 DEF Stop, Serving, storeVars, localVars, Threads
    <2>2. arg[Main] = None
      <3>1. ~ AtWork(Main)
        BY <2>1 DEF AtWork
      <3>. QED  BY <2>1, <3>1 DEF ArgInv
    <2>3. \A x \in Threads : x # Main => pc'[x] = pc[x]
      BY <2>1, GotoFacts DEF TypeOK
    <2>4. \A x \in Threads : Keeps(x)
      BY <2>1, <2>2, <2>3 DEF Keeps
    <2>5. PICK s \in Seq(Probes \cup {None}) : s = queues[queueRef]
      BY DEF TypeOK, SharedOK
    <2>6. PICK u : u = Append(s, None)
      OBVIOUS
    <2>7. queues'[queueRef] = u /\ \A q \in QueueIds : q # queueRef => queues'[q] = queues[q]
      BY <2>1, <2>5, <2>6 DEF TypeOK, SharedOK
    <2>8. \A x : Has(u, x) <=> Has(s, x) \/ x = None
      BY <2>5, <2>6, AppendHas
    <2>9. ASSUME NEW p \in Probes, NEW q \in QueueIds, InQueue(q, p)'
          PROVE  InQueue(q, p)
      <3>1. CASE q # queueRef
        BY <2>7, <2>9, <3>1 DEF InQueue
      <3>2. CASE q = queueRef
        <4>1. Has(u, p)
          BY <2>7, <2>9, <3>2 DEF InQueue, Has
        <4>2. Has(s, p)
          BY <2>8, <4>1, ThreadsAssumption
        <4>. QED  BY <2>5, <3>2, <4>2 DEF InQueue, Has
      <3>. QED  BY <3>1, <3>2
    <2>10. \A p \in Probes : Queued(p)' => Queued(p)
      BY <2>9 DEF Queued
    <2>. QED  BY <2>1, <2>4, <2>10, SameFades, HeldFrame
  <1>12. CASE ProcessEnd
    <2>1. UNCHANGED rows /\ \A x \in Threads : arg'[x] = None
      BY <1>12 DEF ProcessEnd, storeVars
    <2>2. \A q \in QueueIds : queues'[q] = <<>>
      BY <1>12 DEF ProcessEnd
    <2>3. \A p : ~ Queued(p)'
      BY <2>2, SMT, SMTT(60) DEF Queued, InQueue
    <2>. QED  BY <2>1, <2>3 DEF HeldRows
  <1>13. CASE UNCHANGED vars
    <2>1. UNCHANGED <<rows, queues, pc, arg>>
      BY <1>13 DEF vars, storeVars, sharedVars, localVars
    <2>2. \A x \in Threads : Keeps(x)
      BY <2>1 DEF Keeps
    <2>3. \A p \in Probes : Queued(p)' => Queued(p)
      BY <2>1 DEF Queued, InQueue
    <2>. QED  BY <2>1, <2>2, <2>3, SameFades, HeldFrame
  <1>14. ASSUME NEW c \in Clients, Prepare(c) \/ Create(c) \/ Put(c) PROVE HeldRows'
    BY <1>14, PrepareHeld, CreateHeld, PutHeld
  <1>15. ASSUME NEW w \in Workers, Get(w) \/ Mark(w) PROVE HeldRows'
    BY <1>15, GetHeld, MarkHeld
  <1>. QED
    BY <1>1, <1>2, <1>3, <1>4, <1>5, <1>6, <1>7, <1>8, <1>9, <1>10, <1>11, <1>12, <1>13, <1>14, <1>15,
       FinishHeld DEF Next, StarterStep, ProbeStep, RequestStep, WorkerStep

\* What the refinement rests on holds in every reachable state.
RefInv == IndInv /\ ArgInv /\ Calm /\ Served /\ HeldRows

LEMMA AlwaysRefInv == Spec => []RefInv
  <1>1. Init => Served /\ HeldRows
    BY SMT, SMTT(60) DEF Init, Served, HeldRows, Threads, Queued, InQueue
  <1>2. RefInv /\ [Next]_vars => (Served /\ HeldRows)'
    BY NextServed, NextHeldRows DEF RefInv, IndInv
  <1>. QED  BY <1>1, <1>2, AlwaysCalm, PTL DEF Spec, RefInv

-----------------------------------------------------------------------------
(* The steps of RunLifecycle in terms of RunStatus, Serving and faults.     *)

Lost(p) == RunStatus(p) = "new" /\ RunStatus(p)' = "gone"

\* The run p gets status x, and nothing else changes for a client.
Gets(p, x) ==
    /\ RunStatus(p)' = x /\ \A q \in Probes : q # p => RunStatus(q)' = RunStatus(q)
    /\ Serving' = Serving /\ faults' = faults

LEMMA MoveStep ==
    ASSUME NEW r \in Probes, NEW from, NEW to, NEW s \in to, RunStatus(r) \in from, Gets(r, s)
    PROVE  Lifecycle!Move(r, from, to)
  <1> DEFINE St == [p \in Probes |-> RunStatus(p)]
  <1>1. /\ RunStatus(r)' = s /\ \A q \in Probes : q # r => RunStatus(q)' = RunStatus(q)
        /\ Serving' = Serving /\ faults' = faults
    BY DEF Gets
  <1>2. St' = [p \in Probes |-> RunStatus(p)']
    OBVIOUS
  <1>3. St' = [St EXCEPT ![r] = s]
    BY <1>1, <1>2
  <1>4. St[r] \in from
    OBVIOUS
  <1>. QED  BY <1>1, <1>3, <1>4 DEF Lifecycle!Move

LEMMA AcceptStep ==
    ASSUME NEW r \in Probes, NEW s \in {"queued", "running"}, RunStatus(r) = "new", Gets(r, s), Serving
    PROVE  Lifecycle!Next
  <1>1. Lifecycle!Move(r, {"new"}, {"queued", "running"})
    BY MoveStep
  <1>2. Lifecycle!Accept(r)
    BY <1>1 DEF Lifecycle!Accept, Lifecycle!Unfinished
  <1>. QED  BY <1>2 DEF Lifecycle!Next

LEMMA BeginStep ==
    ASSUME NEW r \in Probes, RunStatus(r) = "queued", Gets(r, "running")
    PROVE  Lifecycle!Next
  <1>1. Lifecycle!Move(r, {"queued"}, {"running"})
    BY MoveStep
  <1>. QED  BY <1>1 DEF Lifecycle!Begin, Lifecycle!Next

LEMMA CompleteStep ==
    ASSUME NEW r \in Probes, NEW s \in Terminal, RunStatus(r) = "running", Gets(r, s)
    PROVE  Lifecycle!Next
  <1>1. Lifecycle!Finished = Terminal
    BY DEF Lifecycle!Finished, Terminal
  <1>2. Lifecycle!Move(r, {"running"}, Lifecycle!Finished)
    BY <1>1, MoveStep
  <1>. QED  BY <1>2 DEF Lifecycle!Complete, Lifecycle!Next

LEMMA OverwriteStep ==
    ASSUME NEW r \in Probes, NEW s \in {"running"} \cup Terminal, RunStatus(r) = "failed", faults # 0, Gets(r, s)
    PROVE  Lifecycle!Next
  <1>1. Lifecycle!Finished = Terminal
    BY DEF Lifecycle!Finished, Terminal
  <1>2. Lifecycle!Move(r, {"failed"}, {"running"} \cup Lifecycle!Finished)
    BY <1>1, MoveStep
  <1>3. Lifecycle!Overwrite(r)
    BY <1>2 DEF Lifecycle!Overwrite
  <1>. QED  BY <1>3 DEF Lifecycle!Next

LEMMA LoseStep ==
    ASSUME \A p \in Probes : RunStatus(p)' = RunStatus(p) \/ Lost(p)
    PROVE  Lifecycle!LoseNew
  <1> DEFINE St == [p \in Probes |-> RunStatus(p)]
  <1> DEFINE S == {p \in Probes : Lost(p)}
  <1>1. S \in SUBSET {p \in Probes : St[p] = "new"}
    BY DEF Lost
  <1>2. St' = [p \in Probes |-> RunStatus(p)']
    OBVIOUS
  <1>3. \A p \in Probes : RunStatus(p)' = IF p \in S THEN "gone" ELSE St[p]
    BY DEF Lost
  <1>4. St' = [p \in Probes |-> IF p \in S THEN "gone" ELSE St[p]]
    BY <1>2, <1>3
  <1>. QED  BY <1>1, <1>4 DEF Lifecycle!LoseNew

LEMMA ForgetStep ==
    ASSUME NEW S \in SUBSET Probes, \A p \in S : RunStatus(p)' = "gone",
           \A p \in Probes \ S : RunStatus(p)' = RunStatus(p),
           Serving' = Serving, faults' = faults
    PROVE  Lifecycle!ForgetAll(S)
  <1> DEFINE St == [p \in Probes |-> RunStatus(p)]
  <1>2. St' = [p \in Probes |-> RunStatus(p)']
    OBVIOUS
  <1>3. \A p \in Probes : RunStatus(p)' = IF p \in S THEN "gone" ELSE St[p]
    OBVIOUS
  <1>4. St' = [p \in Probes |-> IF p \in S THEN "gone" ELSE St[p]]
    BY <1>2, <1>3
  <1>. QED  BY <1>4 DEF Lifecycle!ForgetAll

LEMMA FailStep ==
    ASSUME ~ Serving \/ faults # 0,
           \A p \in Probes : RunStatus(p)' = IF RunStatus(p) \in {"queued", "running"} THEN "failed" ELSE RunStatus(p),
           Serving' = Serving, faults' = faults
    PROVE  Lifecycle!FailUnfinished
  <1> DEFINE St == [p \in Probes |-> RunStatus(p)]
  <1>2. St' = [p \in Probes |-> RunStatus(p)']
    OBVIOUS
  <1>3. \A p \in Probes : RunStatus(p)' = IF St[p] \in {"queued", "running"} THEN "failed" ELSE St[p]
    OBVIOUS
  <1>4. St' = [p \in Probes |-> IF St[p] \in {"queued", "running"} THEN "failed" ELSE St[p]]
    BY <1>2, <1>3
  <1>. QED  BY <1>4 DEF Lifecycle!FailUnfinished, Lifecycle!Unfinished

\* A request is at its create only if it was, with the same id.
NoNewRequest == \A c \in Clients : pc'[c] = "create" => pc[c] = "create" /\ arg'[c] = arg[c]

\* A step that leaves the table alone and begins no create.
LEMMA FadeStatus ==
    ASSUME UNCHANGED <<rows, stamp>>, NoNewRequest
    PROVE  \A p \in Probes : RunStatus(p)' = RunStatus(p) \/ Lost(p)
  <1> SUFFICES ASSUME NEW p \in Probes PROVE RunStatus(p)' = RunStatus(p) \/ Lost(p)
    OBVIOUS
  <1>1. Present(p)' <=> Present(p)
    BY DEF Present
  <1>2. CASE Present(p)
    BY <1>1, <1>2 DEF RunStatus
  <1>3. CASE ~ Present(p)
    <2>1. (\E c \in Clients : pc'[c] = "create" /\ arg'[c] = p) => \E c \in Clients : pc[c] = "create" /\ arg[c] = p
      BY DEF NoNewRequest
    <2>. QED  BY <1>1, <1>3, <2>1 DEF RunStatus, Lost
  <1>. QED  BY <1>2, <1>3

LEMMA LoseSwitch ==
    ASSUME \A p \in Probes : RunStatus(p)' = RunStatus(p) \/ Lost(p), faults' = faults \/ faults' = 0
    PROVE  Lifecycle!Next
  <1>1. Lifecycle!LoseNew
    BY LoseStep
  <1>2. Serving' \in BOOLEAN
    BY DEF Serving
  <1>3. (faults # 0)' \in {faults # 0, FALSE}
    OBVIOUS
  <1>4. Lifecycle!Switch
    BY <1>1, <1>2, <1>3 DEF Lifecycle!Switch
  <1>. QED  BY <1>4 DEF Lifecycle!Next

LEMMA SwitchStep ==
    ASSUME UNCHANGED <<rows, stamp>>, NoNewRequest, faults' = faults \/ faults' = 0
    PROVE  Lifecycle!Next
  BY FadeStatus, LoseSwitch

LEMMA DegradeStep ==
    ASSUME UNCHANGED <<rows, stamp>>, NoNewRequest, faults' # 0, Serving' = Serving
    PROVE  Lifecycle!Next
  <1>1. Lifecycle!LoseNew
    BY FadeStatus, LoseStep
  <1>2. Lifecycle!Degrade
    BY <1>1 DEF Lifecycle!Degrade
  <1>. QED  BY <1>2 DEF Lifecycle!Next

-----------------------------------------------------------------------------
(* The steps of TraceManager.                                               *)

\* A thread moves and the table stays as it is.
LEMMA PlainMove ==
    ASSUME TypeOK, NEW t \in Threads, NEW l, Goto(t, l), l # "create", UNCHANGED <<rows, stamp, faults>>,
           \A x \in Threads : x # t => arg'[x] = arg[x]
    PROVE  Lifecycle!Next
  <1>1. pc'[t] = l /\ \A x \in Threads : x # t => pc'[x] = pc[x]
    BY GotoFacts DEF TypeOK
  <1>2. NoNewRequest
    BY <1>1 DEF NoNewRequest, Threads
  <1>. QED  BY <1>2, SwitchStep

\* A store call fails.
LEMMA FaultMove ==
    ASSUME TypeOK, NEW t \in Threads, StoreFault(t), UNCHANGED <<rows, stamp>>, t = Main => ~ Serving,
           \A x \in Threads : x # t => arg'[x] = arg[x]
    PROVE  Lifecycle!Next
  <1>1. pc'[t] = Raise(t) /\ \A x \in Threads : x # t => pc'[x] = pc[x]
    BY GotoFacts DEF TypeOK, StoreFault
  <1>2. Raise(t) # "create" /\ Raise(t) # "serving"
    BY DEF Raise
  <1>3. NoNewRequest
    BY <1>1, <1>2 DEF NoNewRequest, Threads
  <1>4. faults' # 0
    BY SMT, SMTT(60) DEF TypeOK, HistoryOK, StoreFault
  <1>5. Serving' = Serving
    BY <1>1, <1>2 DEF Serving, Threads
  <1>. QED  BY <1>3, <1>4, <1>5, DegradeStep

\* Thread t writes row r for probe p, and nobody begins or gives up a create
\* but, if at all, for this probe.
Writes(t, p, r, l) ==
    /\ rows' = [rows EXCEPT ![p] = r] /\ r # NoRow
    /\ Goto(t, l) /\ l # "create" /\ t # Main
    /\ pc[t] = "create" => arg[t] = p
    /\ \A x \in Threads : x # t => arg'[x] = arg[x]
    /\ UNCHANGED <<stamp, faults>>

LEMMA WriteStatus ==
    ASSUME TypeOK, NEW t \in Threads, NEW p \in Probes, NEW r, NEW l, Writes(t, p, r, l)
    PROVE  Gets(p, r.status)
  <1>0. /\ rows' = [rows EXCEPT ![p] = r] /\ r # NoRow /\ Goto(t, l) /\ l # "create" /\ t # Main
        /\ pc[t] = "create" => arg[t] = p
        /\ \A x \in Threads : x # t => arg'[x] = arg[x]
        /\ UNCHANGED <<stamp, faults>>
    BY DEF Writes
  <1>1. pc'[t] = l /\ \A x \in Threads : x # t => pc'[x] = pc[x]
    BY <1>0, GotoFacts DEF TypeOK
  <1>2. rows'[p] = r /\ \A q \in Probes : q # p => rows'[q] = rows[q]
    BY <1>0 DEF TypeOK, StoreOK
  <1>3. RunStatus(p)' = r.status
    BY <1>0, <1>2 DEF RunStatus, Present
  <1>4. ASSUME NEW q \in Probes, q # p
        PROVE  RunStatus(q)' = RunStatus(q)
    <2>1. rows'[q] = rows[q]
      BY <1>2, <1>4
    <2>2. ASSUME NEW c \in Clients
          PROVE  pc'[c] = "create" /\ arg'[c] = q <=> pc[c] = "create" /\ arg[c] = q
      BY <1>0, <1>1, <1>4 DEF Threads
    <2>3. (\E c \in Clients : pc'[c] = "create" /\ arg'[c] = q) <=> \E c \in Clients : pc[c] = "create" /\ arg[c] = q
      BY <2>2
    <2>4. Present(q)' <=> Present(q)
      BY <2>1 DEF Present
    <2>. QED  BY <1>0, <2>1, <2>3, <2>4, SMT, SMTT(60) DEF RunStatus
  <1>5. Serving' = Serving
    BY <1>0, <1>1 DEF Serving, Threads
  <1>. QED  BY <1>0, <1>3, <1>4, <1>5 DEF Gets

\* The status of a row, as a client sees it.
LEMMA SeenStatus ==
    ASSUME TypeOK, NEW p \in Probes
    PROVE  /\ rows[p].status # "absent" <=> Present(p)
           /\ Present(p) => rows[p] \in Row /\ RunStatus(p) = rows[p].status
           /\ ~ Present(p) => RunStatus(p) \in {"new", "gone"}
  <1>1. rows[p] \in Row \cup {NoRow}
    BY DEF TypeOK, StoreOK
  <1>2. NoRow.status = "absent"
    BY DEF NoRow
  <1>3. rows[p] \in Row => rows[p].status # "absent"
    BY DEF Row, Active, Terminal
  <1>4. Present(p) => rows[p] \in Row
    BY <1>1 DEF Present
  <1>. QED  BY <1>2, <1>3, <1>4 DEF Present, RunStatus

LEMMA PrepareStep ==
    ASSUME RefInv, NEW c \in Clients, Prepare(c)
    PROVE  Lifecycle!Next
  <1>0. TypeOK /\ c \in Threads /\ pc[c] = "prepare" /\ UNCHANGED <<rows, faults>>
    BY DEF RefInv, IndInv, Prepare, Threads
  <1>1. CASE Goto(c, "idle") /\ UNCHANGED <<stamp, arg>>
    BY <1>0, <1>1, PlainMove
  <1>2. CASE \E p \in Probes, tick \in {clock, clock + 1} :
              stamp[p] = 0 /\ stamp' = [stamp EXCEPT ![p] = tick] /\ arg' = [arg EXCEPT ![c] = p] /\ Goto(c, "create")
    <2>1. PICK p \in Probes, tick \in {clock, clock + 1} :
              stamp[p] = 0 /\ stamp' = [stamp EXCEPT ![p] = tick] /\ arg' = [arg EXCEPT ![c] = p] /\ Goto(c, "create")
      BY <1>2
    <2>2. pc'[c] = "create" /\ \A x \in Threads : x # c => pc'[x] = pc[x]
      BY <1>0, <2>1, GotoFacts DEF TypeOK
    <2>3. /\ arg'[c] = p /\ \A x \in Threads : x # c => arg'[x] = arg[x]
          /\ \A q \in Probes : q # p => stamp'[q] = stamp[q]
      BY <1>0, <2>1 DEF TypeOK, LocalOK, StoreOK
    <2>4. rows[p] = NoRow
      BY <2>1 DEF RefInv, IndInv, Ownership, FreshInv
    <2>5. RunStatus(p) = "new" /\ RunStatus(p)' = "new"
      BY <1>0, <2>1, <2>2, <2>3, <2>4 DEF RunStatus, Present
    <2>6. ASSUME NEW q \in Probes, q # p
          PROVE  RunStatus(q)' = RunStatus(q)
      <3>1. ASSUME NEW x \in Clients
            PROVE  pc'[x] = "create" /\ arg'[x] = q <=> pc[x] = "create" /\ arg[x] = q
        BY <1>0, <2>2, <2>3, <2>6 DEF Threads
      <3>2. (\E x \in Clients : pc'[x] = "create" /\ arg'[x] = q) <=> \E x \in Clients : pc[x] = "create" /\ arg[x] = q
        BY <3>1
      <3>3. (Present(q)' <=> Present(q)) /\ stamp'[q] = stamp[q] /\ rows'[q] = rows[q]
        BY <1>0, <2>3, <2>6 DEF Present
      <3>. QED  BY <3>2, <3>3 DEF RunStatus
    <2>. QED  BY <1>0, <2>5, <2>6, LoseSwitch
  <1>. QED  BY <1>1, <1>2 DEF Prepare

LEMMA CreateStep ==
    ASSUME RefInv, NEW c \in Clients, Create(c)
    PROVE  Lifecycle!Next
  <1>0. TypeOK /\ c \in Threads /\ c # Main /\ pc[c] = "create" /\ UNCHANGED stamp
    BY DEF RefInv, IndInv, Create, Threads
  <1>1. PICK p \in Probes : p = arg[c] /\ p # None
    <2>1. arg[c] # None
      BY <1>0 DEF RefInv, IndInv, LocalsSet
    <2>. QED  BY <1>0, <2>1 DEF TypeOK, LocalOK
  <1>2. CASE StoreFault(c) /\ arg' = [arg EXCEPT ![c] = None] /\ UNCHANGED rows
    <2>1. \A x \in Threads : x # c => arg'[x] = arg[x]
      BY <1>0, <1>2 DEF TypeOK, LocalOK
    <2>. QED  BY <1>0, <1>2, <2>1, FaultMove
  <1>3. CASE UNCHANGED <<arg, faults>> /\ \E b \in {"queued", "running"} :
            /\ rows' = [rows EXCEPT ![arg[c]] = NewRow(b)] /\ Goto(c, IF b = "queued" THEN "prune" ELSE "probe")
    <2>1. PICK b \in {"queued", "running"} :
            /\ rows' = [rows EXCEPT ![p] = NewRow(b)] /\ Goto(c, IF b = "queued" THEN "prune" ELSE "probe")
      BY <1>1, <1>3
    <2>2. PICK r : r = NewRow(b)
      OBVIOUS
    <2>3. r.status = b /\ r # NoRow
      BY <2>2 DEF NewRow, NoRow
    <2>4. PICK l : Goto(c, l) /\ l # "create"
      <3>1. (IF b = "queued" THEN "prune" ELSE "probe") # "create"
        OBVIOUS
      <3>. QED  BY <2>1, <3>1
    <2>5. Gets(p, b)
      <3>1. Writes(c, p, r, l)
        BY <1>0, <1>1, <1>3, <2>1, <2>2, <2>3, <2>4 DEF Writes
      <3>. QED  BY <1>0, <2>3, <3>1, WriteStatus
    <2>6. RunStatus(p) = "new"
      <3>1. rows[p].status \in Allowed("create")
        BY <1>0, <1>1 DEF RefInv, HeldRows
      <3>2. rows[p].status = "absent"
        BY <3>1 DEF Allowed
      <3>3. ~ Present(p)
        BY <1>0, <3>2, SeenStatus
      <3>. QED  BY <1>0, <1>1, <3>3 DEF RunStatus
    <2>7. Serving
      BY <1>0 DEF RefInv, Served
    <2>. QED  BY <2>5, <2>6, <2>7, AcceptStep
  <1>. QED
    <2>1. kind[c] = "submit" => kind[c] # "sync"
      OBVIOUS
    <2>. QED  BY <1>2, <1>3, <2>1 DEF Create

\* A thread writes the row of the probe that it has.
LEMMA JobStatus ==
    ASSUME RefInv, NEW t \in Clients \cup Workers, pc[t] \in {"finish", "mark"}, Present(arg[t])
    PROVE  /\ t \in Threads /\ t # Main /\ TypeOK /\ arg[t] \in Probes
           /\ RunStatus(arg[t]) \in {Expected(pc[t]), "failed"}
           /\ faults = 0 => RunStatus(arg[t]) = Expected(pc[t])
  <1>1. t \in Threads /\ t # Main /\ TypeOK
    BY DEF RefInv, IndInv, Threads
  <1>2. PICK p \in Probes : p = arg[t] /\ p # None
    <2>1. arg[t] # None
      BY <1>1 DEF RefInv, IndInv, LocalsSet
    <2>. QED  BY <1>1, <2>1 DEF TypeOK, LocalOK
  <1>3. RunStatus(p) = rows[p].status /\ rows[p].status # "absent"
    BY <1>1, <1>2, SeenStatus
  <1>4. rows[p].status \in Allowed(pc[t])
    BY <1>1, <1>2 DEF RefInv, HeldRows
  <1>5. rows[p].status \in {Expected(pc[t]), "failed"}
    BY <1>3, <1>4 DEF Allowed
  <1>6. faults = 0 => rows[p].status = Expected(pc[t])
    BY <1>1, <1>2 DEF RefInv, Calm, Orderly, RowInv
  <1>. QED  BY <1>1, <1>2, <1>3, <1>5, <1>6

LEMMA FinishStep ==
    ASSUME RefInv, NEW t \in Clients \cup Workers, Finish(t)
    PROVE  Lifecycle!Next
  <1>0. /\ TypeOK /\ LocalsSet /\ t \in Threads /\ t # Main /\ pc[t] = "finish" /\ UNCHANGED stamp
        /\ arg' = [arg EXCEPT ![t] = None]
    BY DEF RefInv, IndInv, Finish, Threads
  <1>1. \A x \in Threads : x # t => arg'[x] = arg[x]
    BY <1>0 DEF TypeOK, LocalOK
  <1>2. CASE StoreFault(t) /\ UNCHANGED rows
    BY <1>0, <1>1, <1>2, FaultMove
  <1>3. CASE Goto(t, Raise(t)) /\ UNCHANGED <<rows, faults>>
    <2>1. Raise(t) # "create"
      BY DEF Raise
    <2>. QED  BY <1>0, <1>1, <1>3, <2>1, PlainMove
  <1>4. CASE /\ Present(arg[t]) /\ rows' = [rows EXCEPT ![arg[t]] = Completed(rec[t], out[t])]
             /\ Goto(t, "prune") /\ UNCHANGED faults
    <2>1. PICK p \in Probes : p = arg[t] /\ RunStatus(p) \in {"running", "failed"} /\ (faults = 0 => RunStatus(p) = "running")
      <3>1. Expected("finish") = "running"
        BY DEF Expected
      <3>. QED  BY <1>0, <1>4, <3>1, JobStatus
    <2>2. PICK r : r = Completed(rec[t], out[t])
      OBVIOUS
    <2>3. out[t] \in Results \cup {"exception"} /\ rec[t] \in Row \cup {NoRow}
      BY <1>0 DEF LocalsSet, TypeOK, LocalOK
    <2>4. r.status \in Terminal
      BY <2>2, <2>3 DEF Completed, Terminal, Row, NoRow
    <2>5. r # NoRow
      <3>1. NoRow.status \notin Terminal
        BY DEF NoRow, Terminal
      <3>. QED  BY <2>4, <3>1
    <2>6. Writes(t, p, r, "prune")
      BY <1>0, <1>1, <1>4, <2>1, <2>2, <2>5 DEF Writes
    <2>7. Gets(p, r.status)
      BY <1>0, <2>6, WriteStatus
    <2>8. CASE RunStatus(p) = "running"
      BY <2>4, <2>7, <2>8, CompleteStep
    <2>9. CASE RunStatus(p) # "running"
      <3>1. RunStatus(p) = "failed" /\ faults # 0
        BY <2>1, <2>9
      <3>. QED  BY <2>4, <2>7, <3>1, OverwriteStep
    <2>. QED  BY <2>8, <2>9
  <1>. QED  BY <1>2, <1>3, <1>4 DEF Finish

LEMMA MarkStep ==
    ASSUME RefInv, NEW w \in Workers, Mark(w)
    PROVE  Lifecycle!Next
  <1>0. TypeOK /\ w \in Threads /\ w # Main /\ pc[w] = "mark" /\ UNCHANGED stamp
    BY DEF RefInv, IndInv, Mark, Threads
  <1>1. ASSUME arg' = [arg EXCEPT ![w] = None]
        PROVE  \A x \in Threads : x # w => arg'[x] = arg[x]
    BY <1>0, <1>1 DEF TypeOK, LocalOK
  <1>2. CASE StoreFault(w) /\ UNCHANGED rows /\ arg' = [arg EXCEPT ![w] = None]
    BY <1>0, <1>1, <1>2, FaultMove
  <1>3. CASE Goto(w, Raise(w)) /\ UNCHANGED <<rows, faults>> /\ arg' = [arg EXCEPT ![w] = None]
    <2>1. Raise(w) # "create"
      BY DEF Raise
    <2>. QED  BY <1>0, <1>1, <1>3, <2>1, PlainMove
  <1>4. CASE /\ Present(arg[w]) /\ rows' = [rows EXCEPT ![arg[w]] = [rec[w] EXCEPT !.status = "running"]]
             /\ Goto(w, "probe") /\ UNCHANGED <<arg, faults>>
    <2>1. PICK p \in Probes : p = arg[w] /\ RunStatus(p) \in {"queued", "failed"} /\ (faults = 0 => RunStatus(p) = "queued")
      <3>1. Expected("mark") = "queued"
        BY DEF Expected
      <3>. QED  BY <1>0, <1>4, <3>1, JobStatus
    <2>2. PICK r : r = [rec[w] EXCEPT !.status = "running"]
      OBVIOUS
    <2>3. rec[w] \in Row \cup {NoRow}
      BY <1>0 DEF TypeOK, LocalOK
    <2>4. r.status = "running" /\ r # NoRow
      BY <2>2, <2>3 DEF Row, NoRow
    <2>5. Gets(p, "running")
      <3>1. Writes(w, p, r, "probe")
        BY <1>0, <1>4, <2>1, <2>2, <2>4 DEF Writes
      <3>. QED  BY <1>0, <2>4, <3>1, WriteStatus
    <2>6. CASE RunStatus(p) = "queued"
      BY <2>5, <2>6, BeginStep
    <2>7. CASE RunStatus(p) # "queued"
      <3>1. RunStatus(p) = "failed" /\ faults # 0
        BY <2>1, <2>7
      <3>. QED  BY <2>5, <3>1, OverwriteStep
    <2>. QED  BY <2>6, <2>7
  <1>. QED  BY <1>2, <1>3, <1>4 DEF Mark

LEMMA RecoverStep ==
    ASSUME RefInv, NEW t \in Clients \cup {Main}, Recover(t)
    PROVE  Lifecycle!Next
  <1>0. TypeOK /\ t \in Threads /\ pc[t] = "recover" /\ UNCHANGED <<stamp, arg>>
    BY DEF RefInv, IndInv, Recover, Threads, localVars
  <1>1. t = Main => ~ Serving
    BY <1>0 DEF Serving
  <1>2. CASE StoreFault(t) /\ UNCHANGED rows
    BY <1>0, <1>1, <1>2, FaultMove
  <1>3. CASE rows' = [p \in Probes |-> FailStale(p)] /\ Goto(t, "swap") /\ UNCHANGED faults
    <2>1. pc'[t] = "swap" /\ \A x \in Threads : x # t => pc'[x] = pc[x]
      BY <1>0, <1>3, GotoFacts DEF TypeOK
    <2>2. Serving' = Serving
      BY <1>1, <2>1 DEF Serving, Threads
    <2>3. ~ Serving \/ faults # 0
      <3>1. CASE t = Main
        BY <1>1, <3>1
      <3>2. CASE t # Main
        <4>1. faults # 0
          BY <1>0, <3>2 DEF RefInv, Calm, Orderly, WorkerInv
        <4>. QED  BY <4>1
      <3>. QED  BY <3>1, <3>2
    <2>4. ASSUME NEW p \in Probes
          PROVE  RunStatus(p)' = IF RunStatus(p) \in {"queued", "running"} THEN "failed" ELSE RunStatus(p)
      <3>1. rows'[p] = FailStale(p)
        BY <1>3
      <3>2. CASE IsActive(p)
        <4>1. rows[p].status \in {"queued", "running"}
          BY <3>2 DEF IsActive, Active
        <4>2. Present(p) /\ rows[p] \in Row /\ RunStatus(p) \in {"queued", "running"}
          BY <1>0, <4>1, SeenStatus
        <4>3. rows'[p].status = "failed"
          BY <3>1, <3>2, <4>2 DEF FailStale, Row
        <4>4. Present(p)'
          BY <4>3, SMT, SMTT(60) DEF Present, NoRow
        <4>. QED  BY <4>2, <4>3, <4>4 DEF RunStatus
      <3>3. CASE ~ IsActive(p)
        <4>1. rows'[p] = rows[p] /\ stamp'[p] = stamp[p]
          BY <1>0, <3>1, <3>3 DEF FailStale
        <4>2. ASSUME NEW c \in Clients
              PROVE  pc'[c] = "create" /\ arg'[c] = p <=> pc[c] = "create" /\ arg[c] = p
          BY <1>0, <2>1 DEF Threads
        <4>3. (\E c \in Clients : pc'[c] = "create" /\ arg'[c] = p) <=> \E c \in Clients : pc[c] = "create" /\ arg[c] = p
          BY <4>2
        <4>4. Present(p)' <=> Present(p)
          BY <4>1 DEF Present
        <4>5. RunStatus(p)' = RunStatus(p)
          BY <4>1, <4>3, <4>4 DEF RunStatus
        <4>6. RunStatus(p) \notin {"queued", "running"}
          <5>1. CASE Present(p)
            BY <1>0, <3>3, <5>1, SeenStatus DEF IsActive, Active
          <5>2. CASE ~ Present(p)
            BY <1>0, <5>2, SeenStatus
          <5>. QED  BY <5>1, <5>2
        <4>. QED  BY <4>5, <4>6
      <3>. QED  BY <3>2, <3>3
    <2>5. Lifecycle!FailUnfinished
      BY <1>3, <2>2, <2>3, <2>4, FailStep
    <2>. QED  BY <2>5 DEF Lifecycle!Next
  <1>. QED  BY <1>2, <1>3 DEF Recover

LEMMA PruneDeleteStep ==
    ASSUME RefInv, NEW t \in Clients \cup Workers, PruneDelete(t)
    PROVE  Lifecycle!Next
  <1>0. TypeOK /\ t \in Threads /\ t # Main /\ pc[t] = "delete" /\ UNCHANGED stamp
    BY DEF RefInv, IndInv, PruneDelete, Threads
  <1>1. CASE StoreFault(t) /\ UNCHANGED rows /\ arg' = [arg EXCEPT ![t] = None]
    <2>1. \A x \in Threads : x # t => arg'[x] = arg[x]
      BY <1>0, <1>1 DEF TypeOK, LocalOK
    <2>. QED  BY <1>0, <1>1, <2>1, FaultMove
  <1>2. CASE /\ rows' = [p \in Probes |-> IF p \in removable[t] THEN NoRow ELSE rows[p]]
             /\ Goto(t, AfterPrune(t)) /\ UNCHANGED <<arg, faults>>
    <2> DEFINE S == {p \in Probes : p \in removable[t] /\ Present(p)}
    <2>1. pc'[t] = AfterPrune(t) /\ \A x \in Threads : x # t => pc'[x] = pc[x]
      BY <1>0, <1>2, GotoFacts DEF TypeOK
    <2>2. AfterPrune(t) # "create"
      BY DEF AfterPrune
    <2>3. ASSUME NEW c \in Clients
          PROVE  pc'[c] = "create" <=> pc[c] = "create"
      BY <1>0, <2>1, <2>2 DEF Threads
    <2>4. Serving' = Serving
      BY <1>0, <2>1 DEF Serving, Threads
    <2>5. ASSUME NEW p \in S
          PROVE  RunStatus(p)' = "gone" /\ RunStatus(p) \in Active \cup Terminal
      <3>1. rows'[p] = NoRow /\ Present(p) /\ p \in Probes
        BY <1>2, <2>5
      <3>2. rows[p] # NoRow /\ stamp[p] # 0
        BY <3>1 DEF Present, RefInv, IndInv, Ownership, FreshInv
      <3>3. RunStatus(p) = rows[p].status /\ rows[p] \in Row /\ rows[p].status # "absent"
        BY <1>0, <3>1, SeenStatus
      <3>4. RunStatus(p) \in Active \cup Terminal
        BY <3>3 DEF Row
      <3>5. ASSUME NEW c \in Clients, pc[c] = "create", arg[c] = p
            PROVE  FALSE
        <4>1. arg[c] # None /\ c \in Threads
          BY <3>1, <3>5, ThreadsAssumption DEF Threads
        <4>2. rows[p].status \in Allowed("create")
          BY <3>5, <4>1 DEF RefInv, HeldRows
        <4>. QED  BY <3>3, <4>2 DEF Allowed
      <3>6. ~ \E c \in Clients : pc'[c] = "create" /\ arg'[c] = p
        BY <1>2, <2>3, <3>5
      <3>7. RunStatus(p)' = "gone"
        BY <1>0, <3>1, <3>2, <3>6 DEF RunStatus, Present
      <3>. QED  BY <3>4, <3>7
    <2>6. ASSUME NEW p \in Probes \ S
          PROVE  RunStatus(p)' = RunStatus(p)
      <3>1. rows'[p] = rows[p] /\ stamp'[p] = stamp[p]
        BY <1>0, <1>2, <2>6 DEF Present
      <3>2. (\E c \in Clients : pc'[c] = "create" /\ arg'[c] = p) <=> \E c \in Clients : pc[c] = "create" /\ arg[c] = p
        BY <1>2, <2>3
      <3>3. Present(p)' <=> Present(p)
        BY <3>1 DEF Present
      <3>. QED  BY <3>1, <3>2, <3>3 DEF RunStatus
    <2>7. S \in SUBSET Probes
      OBVIOUS
    <2> HIDE DEF S
    <2>8. Lifecycle!ForgetAll(S)
      BY <1>2, <2>4, <2>5, <2>6, <2>7, ForgetStep
    <2> DEFINE St == [p \in Probes |-> RunStatus(p)]
    <2>9. CASE faults # 0
      <3>1. S \in SUBSET {p \in Probes : St[p] \in Lifecycle!Unfinished \cup Lifecycle!Finished}
        BY <2>5, <2>7 DEF Lifecycle!Unfinished, Lifecycle!Finished, Active, Terminal
      <3>2. Lifecycle!ForgetActive
        BY <2>8, <2>9, <3>1 DEF Lifecycle!ForgetActive
      <3>. QED  BY <3>2 DEF Lifecycle!Next
    <2>10. CASE faults = 0
      <3>1. ASSUME NEW p \in S
            PROVE  RunStatus(p) \in Terminal
        <4>1. p \in Probes /\ p \in removable[t] /\ Present(p)
          BY DEF S
        <4>2. rows[p].status \notin Active
          BY <1>0, <2>10, <4>1 DEF RefInv, Calm, Orderly, RowInv
        <4>3. RunStatus(p) = rows[p].status
          BY <1>0, <4>1, SeenStatus
        <4>. QED  BY <2>5, <4>2, <4>3
      <3>2. S \in SUBSET {p \in Probes : St[p] \in Lifecycle!Finished}
        BY <2>7, <3>1 DEF Lifecycle!Finished, Terminal
      <3>3. Lifecycle!Forget
        BY <2>8, <3>2 DEF Lifecycle!Forget
      <3>. QED  BY <3>3 DEF Lifecycle!Next
    <2>. QED  BY <2>9, <2>10
  <1>. QED  BY <1>1, <1>2 DEF PruneDelete

LEMMA PruneSelectStep ==
    ASSUME RefInv, NEW t \in Clients \cup Workers, PruneSelect(t)
    PROVE  Lifecycle!Next
  <1>0. TypeOK /\ t \in Threads /\ t # Main /\ UNCHANGED <<rows, stamp>>
    BY DEF RefInv, IndInv, PruneSelect, Threads, storeVars
  <1>1. CASE StoreFault(t) /\ arg' = [arg EXCEPT ![t] = None]
    <2>1. \A x \in Threads : x # t => arg'[x] = arg[x]
      BY <1>0, <1>1 DEF TypeOK, LocalOK
    <2>. QED  BY <1>0, <1>1, <2>1, FaultMove
  <1>2. CASE UNCHANGED <<arg, faults>> /\ \E l \in {"delete", AfterPrune(t)} : Goto(t, l)
    <2>1. PICK l : Goto(t, l) /\ l # "create"
      BY <1>2 DEF AfterPrune
    <2>. QED  BY <1>0, <1>2, <2>1, PlainMove
  <1>. QED  BY <1>1, <1>2 DEF PruneSelect

LEMMA LoadStep ==
    ASSUME RefInv, NEW w \in Workers, Load(w)
    PROVE  Lifecycle!Next
  <1>0. TypeOK /\ w \in Threads /\ w # Main /\ UNCHANGED <<rows, stamp>>
    BY DEF RefInv, IndInv, Load, Threads, storeVars
  <1>1. arg' = arg \/ arg' = [arg EXCEPT ![w] = None]
    BY DEF Load
  <1>2. \A x \in Threads : x # w => arg'[x] = arg[x]
    BY <1>0, <1>1 DEF TypeOK, LocalOK
  <1>3. CASE StoreFault(w)
    BY <1>0, <1>2, <1>3, FaultMove
  <1>4. CASE UNCHANGED faults /\ \E l \in {"mark", "finish", "done"} : Goto(w, l)
    <2>1. PICK l : Goto(w, l) /\ l # "create"
      BY <1>4
    <2>. QED  BY <1>0, <1>2, <1>4, <2>1, PlainMove
  <1>. QED  BY <1>3, <1>4 DEF Load

LEMMA StarterStarts ==
    ASSUME RefInv, NEW t \in Clients \cup {Main}, Swap(t) \/ Launch(t)
    PROVE  Lifecycle!Next
  <1>0. TypeOK /\ t \in Threads /\ UNCHANGED <<rows, stamp, arg, faults>>
    BY DEF RefInv, IndInv, Swap, Launch, Threads, storeVars
  <1>1. ASSUME NEW c \in Clients, pc'[c] = "create"
        PROVE  pc[c] = "create"
    <2>1. CASE Swap(t)
      <3>1. PICK w \in Workers : pc' = [pc EXCEPT ![t] = "launch", ![w] = "created"]
        BY <2>1 DEF Swap
      <3>2. pc'[c] = IF c = t THEN "launch" ELSE pc[c]
        BY <1>0, <3>1 DEF TypeOK, PcOK, Threads
      <3>. QED  BY <1>1, <3>2
    <2>2. CASE Launch(t)
      <3>1. pc[t] = "launch" /\ pc' = [pc EXCEPT ![t] = AfterStart(t), ![ref[t]] = "loop"]
        BY <2>2 DEF Launch
      <3>2. ref[t] \in Workers
        BY <1>0, <3>1 DEF RefInv, IndInv, LaunchInv
      <3>3. PICK w \in Workers : pc' = [pc EXCEPT ![t] = AfterStart(t), ![w] = "loop"]
        BY <3>1, <3>2
      <3>4. pc'[c] = IF c = t THEN AfterStart(t) ELSE pc[c]
        BY <1>0, <3>3 DEF TypeOK, PcOK, Threads
      <3>. QED  BY <1>1, <3>4 DEF AfterStart
    <2>. QED  BY <2>1, <2>2
  <1>2. NoNewRequest
    BY <1>0, <1>1 DEF NoNewRequest
  <1>. QED  BY <1>0, <1>2, SwitchStep

\* Steps of one thread that neither touch the table nor call it.
LEMMA OtherStep ==
    ASSUME RefInv,
           \/ \E c \in Clients : Begin(c) \/ Enqueue(c) \/ Put(c)
           \/ \E t \in Clients \cup {Main} : StartCheck(t)
           \/ \E t \in Clients \cup Workers : RunProbe(t)
           \/ \E w \in Workers : Loop(w) \/ Get(w) \/ GetTimeout(w) \/ TaskDone(w)
           \/ Boot \/ Stop
    PROVE  Lifecycle!Next
  <1>0. TypeOK
    BY DEF RefInv, IndInv
  <1>1. ASSUME NEW c \in Clients, Begin(c) \/ Enqueue(c) \/ Put(c)
        PROVE  Lifecycle!Next
    <2>1. /\ c \in Threads /\ UNCHANGED <<rows, stamp, faults>>
          /\ arg' = arg \/ arg' = [arg EXCEPT ![c] = None]
      BY <1>1 DEF Begin, Enqueue, Put, storeVars, Threads
    <2>2. \E l \in {"start", "prepare", "put", "idle"} : Goto(c, l)
      BY <1>1 DEF Begin, Enqueue, Put
    <2>3. PICK l : Goto(c, l) /\ l # "create"
      BY <2>2
    <2>4. \A x \in Threads : x # c => arg'[x] = arg[x]
      BY <1>0, <2>1 DEF TypeOK, LocalOK
    <2>. QED  BY <1>0, <2>1, <2>3, <2>4, PlainMove
  <1>2. ASSUME NEW t \in Clients \cup {Main}, StartCheck(t)
        PROVE  Lifecycle!Next
    <2>1. t \in Threads /\ UNCHANGED <<rows, stamp, arg, faults>>
      BY <1>2 DEF StartCheck, storeVars, localVars, Threads
    <2>2. \E l \in {"serving", "prepare", "recover"} : Goto(t, l)
      BY <1>2 DEF StartCheck, AfterStart
    <2>3. PICK l : Goto(t, l) /\ l # "create"
      BY <2>2
    <2>. QED  BY <1>0, <2>1, <2>3, PlainMove
  <1>3. ASSUME NEW t \in Clients \cup Workers, RunProbe(t)
        PROVE  Lifecycle!Next
    <2>1. t \in Threads /\ UNCHANGED <<rows, stamp, arg, faults>>
      BY <1>3 DEF RunProbe, storeVars, Threads
    <2>2. \E l \in {"reload", "finish"} : Goto(t, l)
      BY <1>3 DEF RunProbe
    <2>3. PICK l : Goto(t, l) /\ l # "create"
      BY <2>2
    <2>. QED  BY <1>0, <2>1, <2>3, PlainMove
  <1>4. ASSUME NEW w \in Workers, Loop(w) \/ Get(w) \/ GetTimeout(w) \/ TaskDone(w)
        PROVE  Lifecycle!Next
    <2>1. /\ w \in Threads /\ UNCHANGED <<rows, stamp, faults>>
          /\ arg' = arg \/ arg' = [arg EXCEPT ![w] = Head(queues[ref[w]])]
      BY <1>4 DEF Loop, Get, GetTimeout, TaskDone, storeVars, localVars, Threads
    <2>2. \E l \in {"get", "ending", "load", "dead", "loop"} : Goto(w, l)
      <3>1. CASE Loop(w)
        BY <3>1 DEF Loop
      <3>2. CASE Get(w)
        BY <3>2 DEF Get
      <3>3. CASE GetTimeout(w)
        BY <3>3 DEF GetTimeout
      <3>4. CASE TaskDone(w)
        BY <3>4 DEF TaskDone
      <3>. QED  BY <1>4, <3>1, <3>2, <3>3, <3>4
    <2>3. PICK l : Goto(w, l) /\ l # "create"
      BY <2>2
    <2>4. \A x \in Threads : x # w => arg'[x] = arg[x]
      BY <1>0, <2>1 DEF TypeOK, LocalOK
    <2>. QED  BY <1>0, <2>1, <2>3, <2>4, PlainMove
  <1>5. CASE Boot \/ Stop
    <2>1. Main \in Threads /\ UNCHANGED <<rows, stamp, arg, faults>>
      BY <1>5 DEF Boot, Stop, storeVars, localVars, Threads
    <2>2. \E l \in {"start", "join"} : Goto(Main, l)
      BY <1>5 DEF Boot, Stop
    <2>3. PICK l : Goto(Main, l) /\ l # "create"
      BY <2>2
    <2>. QED  BY <1>0, <2>1, <2>3, PlainMove
  <1>. QED  BY <1>1, <1>2, <1>3, <1>4, <1>5

LEMMA EndStep ==
    ASSUME ProcessEnd
    PROVE  Lifecycle!Next
  <1>1. UNCHANGED <<rows, stamp>> /\ faults' = 0
    BY DEF ProcessEnd, storeVars
  <1>2. \A c \in Clients : pc'[c] = "idle"
    BY DEF ProcessEnd, Threads
  <1>3. NoNewRequest
    BY <1>2 DEF NoNewRequest
  <1>. QED  BY <1>1, <1>3, SwitchStep

LEMMA StepRefines == RefInv /\ [Next]_vars => [Lifecycle!Next]_(Lifecycle!vars)
  <1> SUFFICES ASSUME RefInv, [Next]_vars PROVE [Lifecycle!Next]_(Lifecycle!vars)
    OBVIOUS
  <1>1. CASE Next
    <2>1. ASSUME NEW c \in Clients, RequestStep(c) PROVE Lifecycle!Next
      BY <2>1, PrepareStep, CreateStep, OtherStep DEF RequestStep
    <2>2. ASSUME NEW t \in Clients \cup {Main}, StarterStep(t) PROVE Lifecycle!Next
      BY <2>2, RecoverStep, StarterStarts, OtherStep DEF StarterStep
    <2>3. ASSUME NEW t \in Clients \cup Workers, ProbeStep(t) PROVE Lifecycle!Next
      BY <2>3, FinishStep, PruneSelectStep, PruneDeleteStep, OtherStep DEF ProbeStep
    <2>4. ASSUME NEW w \in Workers, WorkerStep(w) PROVE Lifecycle!Next
      BY <2>4, LoadStep, MarkStep, OtherStep DEF WorkerStep
    <2>. QED  BY <1>1, <2>1, <2>2, <2>3, <2>4, OtherStep, EndStep DEF Next
  <1>2. CASE UNCHANGED vars
    <2>1. UNCHANGED <<rows, stamp, pc, arg, faults>>
      BY <1>2 DEF vars, storeVars, localVars
    <2>2. NoNewRequest
      BY <2>1 DEF NoNewRequest
    <2>. QED  BY <2>1, <2>2, SwitchStep
  <1>. QED  BY <1>1, <1>2

LEMMA InitRefines == Init => Lifecycle!Init
  <1> SUFFICES ASSUME Init PROVE Lifecycle!Init
    OBVIOUS
  <1>1. \A p \in Probes : RunStatus(p) = "new"
    BY DEF Init, RunStatus, Present
  <1>2. [p \in Probes |-> RunStatus(p)] = [p \in Probes |-> "new"]
    BY <1>1
  <1>3. Serving = FALSE
    BY DEF Init, Serving, Threads
  <1>4. (faults # 0) = FALSE
    BY DEF Init
  <1>. QED  BY <1>2, <1>3, <1>4 DEF Lifecycle!Init

\* submit, run_sync, _run, start and stop together implement the life of a run
\* as RunLifecycle states it: whatever store calls fail and whenever the process
\* ends, a client that polls a run sees it move queued, running, finished, gone,
\* and sees a run failed, resumed or dropped otherwise only where that
\* specification allows it.
THEOREM LifecycleImplemented == Spec => ImplementsLifecycle
  BY AlwaysRefInv, StepRefines, InitRefines, PTL DEF Spec, ImplementsLifecycle, Lifecycle!Spec

-----------------------------------------------------------------------------
(* The length of the history.                                               *)

INSTANCE FiniteSetTheorems

Finished == {p \in Probes : IsFinished(p)}

\* The threads that have yet to prune after they finished a row.
Pruner(t) == pc[t] \in {"prune", "delete"} /\ (t \in Clients => kind[t] = "sync")
Pruners == {t \in Clients \cup Workers : Pruner(t)}

\* N[t] are the threads that have finished a row since t selected what it will
\* delete, and have yet to prune: but for their rows, t leaves MaxRuns of them.
\* Those that have selected in turn did so later than t.
Since(N) ==
    \A t \in Threads : pc[t] = "delete" =>
        /\ t \notin N[t]
        /\ Cardinality(Finished \ removable[t]) <= MaxRuns + Cardinality(N[t])
        /\ \A u \in N[t] : pc[u] = "delete" => N[u] \subseteq N[t]

Bounded ==
    /\ IsFiniteSet(Finished) /\ IsFiniteSet(Pruners)
    /\ Cardinality(Finished) <= MaxRuns + Cardinality(Pruners)
    /\ \E N \in [Threads -> SUBSET Pruners] : Since(N)

\* The first process finds no row.
NoneYet == Starting => \A p \in Probes : rows[p] = NoRow

History == faults = 0 /\ crashes = 0 => Bounded /\ NoneYet

\* Fewer elements, and a larger bound.
LEMMA FewerRows ==
    ASSUME NEW A, NEW B, IsFiniteSet(A), B \subseteq A, NEW K, NEW L, IsFiniteSet(L), K \subseteq L,
           Cardinality(A) <= MaxRuns + Cardinality(K)
    PROVE  Cardinality(B) <= MaxRuns + Cardinality(L)
  <1>1. IsFiniteSet(B) /\ Cardinality(B) <= Cardinality(A)
    BY FS_Subset
  <1>2. IsFiniteSet(K) /\ Cardinality(K) <= Cardinality(L)
    BY FS_Subset
  <1>3. Cardinality(A) \in Nat /\ Cardinality(B) \in Nat /\ Cardinality(K) \in Nat /\ Cardinality(L) \in Nat
    BY <1>1, <1>2, FS_CardinalityType
  <1>. QED  BY <1>1, <1>2, <1>3, BoundsAssumption, SMT, SMTT(60)

\* One element more on both sides.
LEMMA OneMoreRow ==
    ASSUME NEW A, NEW B, NEW p, IsFiniteSet(A), B \subseteq A \cup {p}, NEW K, NEW u, IsFiniteSet(K), u \notin K,
           Cardinality(A) <= MaxRuns + Cardinality(K)
    PROVE  Cardinality(B) <= MaxRuns + Cardinality(K \cup {u})
  <1>1. IsFiniteSet(A \cup {p}) /\ Cardinality(A \cup {p}) <= Cardinality(A) + 1
    <2>1. IsFiniteSet(A \cup {p}) /\ (Cardinality(A \cup {p}) = Cardinality(A) \/ Cardinality(A \cup {p}) = Cardinality(A) + 1)
      BY FS_AddElement
    <2>2. Cardinality(A) \in Nat
      BY FS_CardinalityType
    <2>. QED  BY <2>1, <2>2, SMT, SMTT(60)
  <1>2. IsFiniteSet(B) /\ Cardinality(B) <= Cardinality(A \cup {p})
    BY <1>1, FS_Subset
  <1>3. Cardinality(K \cup {u}) = Cardinality(K) + 1
    BY FS_AddElement
  <1>4. /\ Cardinality(A) \in Nat /\ Cardinality(B) \in Nat /\ Cardinality(K) \in Nat
        /\ Cardinality(A \cup {p}) \in Nat
    BY <1>1, <1>2, FS_CardinalityType
  <1>. QED  BY <1>1, <1>2, <1>3, <1>4, BoundsAssumption, SMT, SMTT(60)

\* A step that finishes no row and neither begins nor ends a prune.
LEMMA BoundedFrame ==
    ASSUME Bounded, Finished' \subseteq Finished, Pruners' = Pruners,
           \A x \in Threads : pc'[x] = "delete" => pc[x] = "delete" /\ removable'[x] = removable[x]
    PROVE  Bounded'
  <1>1. IsFiniteSet(Finished') /\ IsFiniteSet(Pruners')
    BY FS_Subset DEF Bounded
  <1>2. Cardinality(Finished') <= MaxRuns + Cardinality(Pruners')
    BY FewerRows DEF Bounded
  <1>3. PICK N \in [Threads -> SUBSET Pruners] : Since(N)
    BY DEF Bounded
  <1>4. ASSUME NEW t \in Threads, pc'[t] = "delete"
        PROVE  /\ t \notin N[t]
               /\ Cardinality(Finished' \ removable'[t]) <= MaxRuns + Cardinality(N[t])
               /\ \A u \in N[t] : pc'[u] = "delete" => N[u] \subseteq N[t]
    <2>1. pc[t] = "delete" /\ removable'[t] = removable[t]
      BY <1>4
    <2>2. /\ t \notin N[t] /\ Cardinality(Finished \ removable[t]) <= MaxRuns + Cardinality(N[t])
          /\ \A u \in N[t] : pc[u] = "delete" => N[u] \subseteq N[t]
      BY <1>3, <2>1 DEF Since
    <2>3. N[t] \subseteq Pruners /\ IsFiniteSet(N[t])
      BY <1>3, FS_Subset DEF Bounded
    <2>4. IsFiniteSet(Finished \ removable[t])
      BY FS_Difference DEF Bounded
    <2>5. Finished' \ removable'[t] \subseteq Finished \ removable[t]
      BY <2>1
    <2>6. Cardinality(Finished' \ removable'[t]) <= MaxRuns + Cardinality(N[t])
      BY <2>2, <2>3, <2>4, <2>5, FewerRows
    <2>7. \A u \in Pruners : u \in Threads
      BY DEF Pruners, Threads
    <2>. QED  BY <2>2, <2>3, <2>6, <2>7
  <1>5. Since(N)'
    BY <1>4 DEF Since
  <1>. QED  BY <1>1, <1>2, <1>3, <1>5 DEF Bounded

\* A thread finishes a row, and has yet to prune.
LEMMA BoundedFinish ==
    ASSUME Bounded, NEW t \in Clients \cup Workers, t \notin Pruners, pc'[t] # "delete",
           NEW p, Finished' \subseteq Finished \cup {p}, Pruners' = Pruners \cup {t},
           \A x \in Threads : x # t => pc'[x] = pc[x], UNCHANGED removable
    PROVE  Bounded'
  <1>0. IsFiniteSet(Finished) /\ IsFiniteSet(Pruners) /\ Cardinality(Finished) <= MaxRuns + Cardinality(Pruners)
    BY DEF Bounded
  <1>1. IsFiniteSet(Finished') /\ IsFiniteSet(Pruners')
    <2>1. IsFiniteSet(Finished \cup {p}) /\ IsFiniteSet(Pruners \cup {t})
      BY <1>0, FS_AddElement
    <2>. QED  BY <2>1, FS_Subset
  <1>2. Cardinality(Finished') <= MaxRuns + Cardinality(Pruners')
    BY <1>0, OneMoreRow
  <1>3. PICK N \in [Threads -> SUBSET Pruners] : Since(N)
    BY DEF Bounded
  <1>. DEFINE M == [x \in Threads |-> N[x] \cup {t}]
  <1>4. M \in [Threads -> SUBSET (Pruners \cup {t})]
    BY <1>3
  <1>5. ASSUME NEW x \in Threads, pc'[x] = "delete"
        PROVE  /\ x \notin M[x]
               /\ Cardinality(Finished' \ removable'[x]) <= MaxRuns + Cardinality(M[x])
               /\ \A u \in M[x] : pc'[u] = "delete" => M[u] \subseteq M[x]
    <2>1. x # t /\ pc[x] = "delete" /\ removable'[x] = removable[x] /\ M[x] = N[x] \cup {t}
      BY <1>5
    <2>2. /\ x \notin N[x] /\ Cardinality(Finished \ removable[x]) <= MaxRuns + Cardinality(N[x])
          /\ \A u \in N[x] : pc[u] = "delete" => N[u] \subseteq N[x]
      BY <1>3, <2>1 DEF Since
    <2>3. N[x] \subseteq Pruners /\ IsFiniteSet(N[x]) /\ t \notin N[x]
      BY <1>0, <1>3, FS_Subset
    <2>4. IsFiniteSet(Finished \ removable[x])
      BY <1>0, FS_Difference
    <2>5. Finished' \ removable'[x] \subseteq (Finished \ removable[x]) \cup {p}
      BY <2>1
    <2>6. Cardinality(Finished' \ removable'[x]) <= MaxRuns + Cardinality(M[x])
      BY <2>1, <2>2, <2>3, <2>4, <2>5, OneMoreRow
    <2>7. ASSUME NEW u \in M[x], pc'[u] = "delete" PROVE M[u] \subseteq M[x]
      <3>1. u # t /\ u \in N[x]
        BY <2>1, <2>7
      <3>2. u \in Threads
        BY <2>3, <3>1 DEF Pruners, Threads
      <3>3. N[u] \subseteq N[x]
        BY <2>2, <2>7, <3>1, <3>2
      <3>4. M[u] = N[u] \cup {t}
        BY <3>2
      <3>. QED  BY <2>1, <3>3, <3>4
    <2>8. x \notin M[x]
      BY <2>1, <2>2
    <2>. QED  BY <2>6, <2>7, <2>8
  <1>. HIDE DEF M
  <1>6. Since(M)'
    BY <1>5 DEF Since
  <1>. QED  BY <1>1, <1>2, <1>4, <1>6 DEF Bounded

\* A thread is done with its prune, and leaves MaxRuns finished rows but for
\* those of the threads of K.
LEMMA BoundedPruned ==
    ASSUME Bounded, NEW t \in Clients \cup Workers, pc'[t] # "delete", Finished' \subseteq Finished,
           Pruners' = Pruners \ {t}, NEW N \in [Threads -> SUBSET Pruners], Since(N),
           NEW K, K \subseteq Pruners \ {t}, Cardinality(Finished') <= MaxRuns + Cardinality(K),
           \A x \in Threads : pc[x] = "delete" /\ t \in N[x] => K \subseteq N[x],
           \A x \in Threads : x # t => pc'[x] = pc[x] /\ removable'[x] = removable[x]
    PROVE  Bounded'
  <1>0. IsFiniteSet(Finished) /\ IsFiniteSet(Pruners)
    BY DEF Bounded
  <1>1. IsFiniteSet(Finished') /\ IsFiniteSet(Pruners')
    BY <1>0, FS_Subset
  <1>2. Cardinality(Finished') <= MaxRuns + Cardinality(Pruners')
    BY <1>1, FewerRows
  <1>. DEFINE M == [x \in Threads |-> N[x] \ {t}]
  <1>4. M \in [Threads -> SUBSET (Pruners \ {t})]
    OBVIOUS
  <1>5. ASSUME NEW x \in Threads, pc'[x] = "delete"
        PROVE  /\ x \notin M[x]
               /\ Cardinality(Finished' \ removable'[x]) <= MaxRuns + Cardinality(M[x])
               /\ \A u \in M[x] : pc'[u] = "delete" => M[u] \subseteq M[x]
    <2>1. x # t /\ pc[x] = "delete" /\ removable'[x] = removable[x] /\ M[x] = N[x] \ {t}
      BY <1>5
    <2>2. /\ x \notin N[x] /\ Cardinality(Finished \ removable[x]) <= MaxRuns + Cardinality(N[x])
          /\ \A u \in N[x] : pc[u] = "delete" => N[u] \subseteq N[x]
      BY <2>1 DEF Since
    <2>3. N[x] \subseteq Pruners /\ M[x] \subseteq Pruners
      BY <2>1
    <2>4. IsFiniteSet(M[x]) /\ IsFiniteSet(N[x])
      BY <1>0, <2>3, FS_Subset
    <2>5. Cardinality(Finished' \ removable'[x]) <= MaxRuns + Cardinality(M[x])
      <3>1. CASE t \in N[x]
        <4>1. K \subseteq M[x]
          BY <2>1, <3>1
        <4>2. Finished' \ removable'[x] \subseteq Finished'
          OBVIOUS
        <4>. QED  BY <1>1, <2>4, <4>1, <4>2, FewerRows
      <3>2. CASE t \notin N[x]
        <4>0. N[x] \ {t} = N[x]
          BY <3>2
        <4>1. M[x] = N[x]
          BY <2>1, <4>0
        <4>2. IsFiniteSet(Finished \ removable[x])
          BY <1>0, FS_Difference
        <4>3. Finished' \ removable'[x] \subseteq Finished \ removable[x]
          BY <2>1
        <4>. QED  BY <2>2, <2>4, <4>1, <4>2, <4>3, FewerRows
      <3>. QED  BY <3>1, <3>2
    <2>6. ASSUME NEW u \in M[x], pc'[u] = "delete" PROVE M[u] \subseteq M[x]
      <3>1. u # t /\ u \in N[x]
        BY <2>1, <2>6
      <3>2. u \in Threads
        BY <2>3, <3>1 DEF Pruners, Threads
      <3>3. N[u] \subseteq N[x]
        BY <2>2, <2>6, <3>1, <3>2
      <3>4. M[u] = N[u] \ {t}
        BY <3>2
      <3>. QED  BY <2>1, <3>3, <3>4
    <2>7. x \notin M[x]
      BY <2>1, <2>2
    <2>. QED  BY <2>5, <2>6, <2>7
  <1>. HIDE DEF M
  <1>6. Since(M)'
    BY <1>5 DEF Since
  <1>. QED  BY <1>1, <1>2, <1>4, <1>6 DEF Bounded

\* A thread selects what it will delete.
LEMMA BoundedSelect ==
    ASSUME Bounded, NEW t \in Threads, UNCHANGED rows, Pruners' = Pruners,
           \A x \in Threads : x # t => pc'[x] = pc[x] /\ removable'[x] = removable[x],
           Cardinality(Finished \ removable'[t]) <= MaxRuns
    PROVE  Bounded'
  <1>0. Finished' = Finished
    BY DEF Finished, IsFinished
  <1>3. PICK N \in [Threads -> SUBSET Pruners] : Since(N)
    BY DEF Bounded
  <1>. DEFINE M == [x \in Threads |-> IF x = t THEN {} ELSE N[x]]
  <1>4. M \in [Threads -> SUBSET Pruners]
    BY <1>3
  <1>5. ASSUME NEW x \in Threads, pc'[x] = "delete"
        PROVE  /\ x \notin M[x]
               /\ Cardinality(Finished \ removable'[x]) <= MaxRuns + Cardinality(M[x])
               /\ \A u \in M[x] : pc'[u] = "delete" => M[u] \subseteq M[x]
    <2>1. CASE x = t
      <3>1. M[x] = {} /\ Cardinality({}) = 0
        BY <2>1, FS_EmptySet
      <3>2. IsFiniteSet(Finished \ removable'[t])
        BY FS_Difference DEF Bounded
      <3>3. Cardinality(Finished \ removable'[t]) \in Nat
        BY <3>2, FS_CardinalityType
      <3>4. MaxRuns + 0 = MaxRuns
        BY BoundsAssumption, SMT, SMTT(60)
      <3>. QED  BY <2>1, <3>1, <3>4
    <2>2. CASE x # t
      <3>1. pc[x] = "delete" /\ removable'[x] = removable[x] /\ M[x] = N[x]
        BY <1>5, <2>2
      <3>2. /\ x \notin N[x] /\ Cardinality(Finished \ removable[x]) <= MaxRuns + Cardinality(N[x])
            /\ \A u \in N[x] : pc[u] = "delete" => N[u] \subseteq N[x]
        BY <1>3, <3>1 DEF Since
      <3>3. ASSUME NEW u \in M[x], pc'[u] = "delete" PROVE M[u] \subseteq M[x]
        <4>1. u \in Threads
          BY <1>3, <3>1, <3>3 DEF Pruners, Threads
        <4>2. CASE u = t
          BY <4>1, <4>2
        <4>3. CASE u # t
          BY <3>1, <3>2, <3>3, <4>1, <4>3
        <4>. QED  BY <4>2, <4>3
      <3>. QED  BY <3>1, <3>2, <3>3
    <2>. QED  BY <2>1, <2>2
  <1>. HIDE DEF M
  <1>6. Since(M)'
    BY <1>0, <1>5 DEF Since
  <1>7. /\ IsFiniteSet(Finished') /\ IsFiniteSet(Pruners')
        /\ Cardinality(Finished') <= MaxRuns + Cardinality(Pruners')
    BY <1>0 DEF Bounded
  <1>. QED  BY <1>4, <1>6, <1>7 DEF Bounded

-----------------------------------------------------------------------------
(* The steps.                                                               *)

Pruning == {"prune", "delete"}

\* Every thread stays where it is, or is not at a prune before or after the step.
Apart(x) ==
    \/ pc'[x] = pc[x] /\ (x \in Clients => kind'[x] = kind[x])
    \/ pc[x] \notin Pruning /\ pc'[x] \notin Pruning

LEMMA ApartBounded ==
    ASSUME Bounded, \A x \in Threads : Apart(x), UNCHANGED removable, Finished' \subseteq Finished
    PROVE  Bounded'
  <1>1. ASSUME NEW x \in Clients \cup Workers PROVE Pruner(x)' <=> Pruner(x)
    BY DEF Apart, Pruner, Pruning, Threads
  <1>2. Pruners' = Pruners
    BY <1>1 DEF Pruners
  <1>3. ASSUME NEW x \in Threads, pc'[x] = "delete" PROVE pc[x] = "delete" /\ removable'[x] = removable[x]
    BY <1>3 DEF Apart, Pruning
  <1>. QED  BY <1>2, <1>3, BoundedFrame

LEMMA FinishBounded ==
    ASSUME Quiet, Bounded, NEW t \in Clients \cup Workers, Finish(t)
    PROVE  Bounded'
  <1>1. pc[t] = "finish" /\ UNCHANGED <<removable, kind>>
    BY DEF Finish
  <1>2. t \in Threads /\ t # Main /\ PcOK /\ rows \in [Probes -> Row \cup {NoRow}]
    <2>1. t \in Threads /\ t # Main /\ PcOK
      BY <1>1, PlaceFacts
    <2>. QED  BY <2>1 DEF Quiet, IndInv, TypeOK, StoreOK
  <1>3. arg[t] \in Probes /\ Present(arg[t])
    BY <1>1, JobFacts
  <1>4. ~ StoreFault(t)
    BY <1>2, NoFault
  <1>5. rows' = [rows EXCEPT ![arg[t]] = Completed(rec[t], out[t])] /\ Goto(t, "prune")
    BY <1>3, <1>4 DEF Finish
  <1>6. pc'[t] = "prune" /\ \A x \in Threads : x # t => pc'[x] = pc[x]
    BY <1>2, <1>5, GotoFacts
  <1>7. \A q \in Probes : q # arg[t] => rows'[q] = rows[q]
    BY <1>2, <1>5
  <1>8. Finished' \subseteq Finished \cup {arg[t]}
    BY <1>7 DEF Finished, IsFinished
  <1>9. t \in Clients => kind[t] = "sync"
    BY <1>1, <1>2 DEF Quiet, IndInv, LocalsSet
  <1>10. Pruner(t)' /\ ~ Pruner(t)
    BY <1>1, <1>6, <1>9 DEF Pruner
  <1>11. ASSUME NEW x \in Clients \cup Workers, x # t PROVE Pruner(x)' <=> Pruner(x)
    BY <1>1, <1>6, <1>11 DEF Pruner, Threads
  <1>12. Pruners' = Pruners \cup {t} /\ t \notin Pruners
    BY <1>10, <1>11 DEF Pruners
  <1>. QED  BY <1>1, <1>6, <1>8, <1>12, BoundedFinish

LEMMA PruneSelectBounded ==
    ASSUME Quiet, Bounded, NEW t \in Clients \cup Workers, PruneSelect(t)
    PROVE  Bounded'
  <1>1. pc[t] = "prune" /\ UNCHANGED <<rows, kind>>
    BY DEF PruneSelect, storeVars
  <1>2. t \in Threads /\ t # Main /\ PcOK /\ removable \in [Threads -> SUBSET Probes]
    <2>1. t \in Threads /\ t # Main /\ PcOK
      BY <1>1, PlaceFacts
    <2>. QED  BY <2>1 DEF Quiet, IndInv, TypeOK, LocalOK
  <1>3. ~ StoreFault(t)
    BY <1>2, NoFault
  <1>4. PICK S \in RemovableSets : /\ removable' = [removable EXCEPT ![t] = S]
                                   /\ Goto(t, IF S = {} THEN AfterPrune(t) ELSE "delete")
    BY <1>3 DEF PruneSelect
  <1>5. Cardinality(Finished \ S) <= MaxRuns
    BY DEF RemovableSets, Finished
  <1>6. /\ pc'[t] = IF S = {} THEN AfterPrune(t) ELSE "delete"
        /\ \A x \in Threads : x # t => pc'[x] = pc[x]
    BY <1>2, <1>4, GotoFacts
  <1>7. removable'[t] = S /\ \A x \in Threads : x # t => removable'[x] = removable[x]
    BY <1>2, <1>4
  <1>8. ASSUME NEW x \in Clients \cup Workers, x # t PROVE Pruner(x)' <=> Pruner(x)
    BY <1>1, <1>6, <1>8 DEF Pruner, Threads
  <1>9. CASE S = {}
    <2>1. pc'[t] \notin Pruning
      BY <1>6, <1>9 DEF AfterPrune, Pruning
    <2>2. Pruners' = Pruners \ {t}
      BY <1>8, <2>1 DEF Pruners, Pruner, Pruning
    <2>3. Finished' = Finished /\ Finished \ S = Finished
      BY <1>1, <1>9 DEF Finished, IsFinished
    <2>4. Cardinality(Finished') <= MaxRuns + Cardinality({})
      <3>1. Cardinality({}) = 0
        BY FS_EmptySet
      <3>2. MaxRuns + 0 = MaxRuns
        BY BoundsAssumption, SMT, SMTT(60)
      <3>. QED  BY <1>5, <2>3, <3>1, <3>2
    <2>5. PICK N \in [Threads -> SUBSET Pruners] : Since(N)
      BY DEF Bounded
    <2>6. pc'[t] # "delete"
      BY <2>1 DEF Pruning
    <2>. QED  BY <1>6, <1>7, <2>2, <2>3, <2>4, <2>5, <2>6, BoundedPruned
  <1>10. CASE S # {}
    <2>1. Pruner(t)' <=> Pruner(t)
      BY <1>1, <1>6, <1>10 DEF Pruner
    <2>2. Pruners' = Pruners
      BY <1>8, <2>1 DEF Pruners
    <2>. QED  BY <1>1, <1>2, <1>5, <1>6, <1>7, <2>2, BoundedSelect
  <1>. QED  BY <1>9, <1>10

LEMMA PruneDeleteBounded ==
    ASSUME Quiet, Bounded, NEW t \in Clients \cup Workers, PruneDelete(t)
    PROVE  Bounded'
  <1>1. pc[t] = "delete" /\ UNCHANGED kind /\ removable' = [removable EXCEPT ![t] = {}]
    BY DEF PruneDelete
  <1>2. t \in Threads /\ t # Main /\ PcOK /\ removable \in [Threads -> SUBSET Probes]
    <2>1. t \in Threads /\ t # Main /\ PcOK
      BY <1>1, PlaceFacts
    <2>. QED  BY <2>1 DEF Quiet, IndInv, TypeOK, LocalOK
  <1>3. ~ StoreFault(t)
    BY <1>2, NoFault
  <1>4. rows' = [p \in Probes |-> IF p \in removable[t] THEN NoRow ELSE rows[p]] /\ Goto(t, AfterPrune(t))
    BY <1>3 DEF PruneDelete
  <1>5. pc'[t] = AfterPrune(t) /\ \A x \in Threads : x # t => pc'[x] = pc[x]
    BY <1>2, <1>4, GotoFacts
  <1>6. pc'[t] \notin Pruning /\ pc'[t] # "delete"
    BY <1>5 DEF AfterPrune, Pruning
  <1>7. \A x \in Threads : x # t => removable'[x] = removable[x]
    BY <1>1, <1>2
  <1>8. ASSUME NEW x \in Clients \cup Workers, x # t PROVE Pruner(x)' <=> Pruner(x)
    BY <1>1, <1>5, <1>8 DEF Pruner, Threads
  <1>9. Pruners' = Pruners \ {t}
    BY <1>6, <1>8 DEF Pruners, Pruner, Pruning
  <1>10. Finished' = Finished \ removable[t]
    <2>1. NoRow.status \notin Terminal
      BY DEF NoRow, Terminal
    <2>2. ASSUME NEW p \in Probes PROVE IsFinished(p)' <=> IsFinished(p) /\ p \notin removable[t]
      <3>1. rows'[p] = IF p \in removable[t] THEN NoRow ELSE rows[p]
        BY <1>4
      <3>. QED  BY <2>1, <3>1 DEF IsFinished
    <2>. QED  BY <2>2 DEF Finished
  <1>11. PICK N \in [Threads -> SUBSET Pruners] : Since(N)
    BY DEF Bounded
  <1>12. PICK K : K = N[t]
    OBVIOUS
  <1>13. t \notin K /\ Cardinality(Finished') <= MaxRuns + Cardinality(K)
    BY <1>1, <1>2, <1>10, <1>11, <1>12 DEF Since
  <1>14. K \subseteq Pruners \ {t}
    BY <1>2, <1>11, <1>12, <1>13
  <1>15. \A x \in Threads : pc[x] = "delete" /\ t \in N[x] => K \subseteq N[x]
    BY <1>1, <1>11, <1>12 DEF Since
  <1>16. Finished' \subseteq Finished
    BY <1>10
  <1>17. \A x \in Threads : x # t => pc'[x] = pc[x] /\ removable'[x] = removable[x]
    BY <1>5, <1>7
  <1>. QED  BY <1>6, <1>9, <1>11, <1>13, <1>14, <1>15, <1>16, <1>17, BoundedPruned, SMT, SMTT(60)

\* create_run writes an active row; a submit() that prunes has finished none.
LEMMA CreateBounded ==
    ASSUME Quiet, Bounded, NEW c \in Clients, Create(c)
    PROVE  Bounded'
  <1>1. pc[c] = "create" /\ UNCHANGED <<removable, kind>>
    BY DEF Create
  <1>2. c \in Threads /\ PcOK /\ rows \in [Probes -> Row \cup {NoRow}]
    BY DEF Quiet, IndInv, TypeOK, StoreOK, Threads
  <1>3. ~ StoreFault(c)
    BY <1>2, NoFault
  <1>4. PICK r : /\ r = NewRow(IF kind[c] = "submit" THEN "queued" ELSE "running")
                 /\ rows' = [rows EXCEPT ![arg[c]] = r]
                 /\ Goto(c, IF kind[c] = "submit" THEN "prune" ELSE "probe")
    BY <1>3 DEF Create
  <1>5. r.status \notin Terminal
    BY <1>4 DEF NewRow, NoRow, Terminal
  <1>6. Finished' \subseteq Finished
    <2>1. ASSUME NEW p \in Probes, IsFinished(p)' PROVE IsFinished(p)
      BY <1>2, <1>4, <1>5, <2>1 DEF IsFinished
    <2>. QED  BY <2>1 DEF Finished
  <1>7. /\ pc'[c] = IF kind[c] = "submit" THEN "prune" ELSE "probe"
        /\ \A x \in Threads : x # c => pc'[x] = pc[x]
    BY <1>2, <1>4, GotoFacts
  <1>8. ~ Pruner(c) /\ ~ Pruner(c)'
    BY <1>1, <1>7 DEF Pruner
  <1>9. ASSUME NEW x \in Clients \cup Workers, x # c PROVE Pruner(x)' <=> Pruner(x)
    BY <1>1, <1>7, <1>9 DEF Pruner, Threads
  <1>10. Pruners' = Pruners
    BY <1>8, <1>9 DEF Pruners
  <1>11. pc'[c] # "delete"
    BY <1>7
  <1>12. \A x \in Threads : pc'[x] = "delete" => pc[x] = "delete" /\ removable'[x] = removable[x]
    BY <1>1, <1>7, <1>11
  <1>. QED  BY <1>6, <1>10, <1>12, BoundedFrame

\* One thread goes on, away from prune.
LEMMA AwayApart ==
    ASSUME PcOK, NEW t \in Threads, NEW l, Goto(t, l), l \notin Pruning, pc[t] \notin Pruning,
           \A x \in Clients : x # t => kind'[x] = kind[x]
    PROVE  \A x \in Threads : Apart(x)
  <1>1. pc'[t] = l /\ \A x \in Threads : x # t => pc'[x] = pc[x]
    BY GotoFacts
  <1>. QED  BY <1>1 DEF Apart

\* update_run with status running writes an active row.
LEMMA MarkBounded ==
    ASSUME Quiet, Bounded, NEW w \in Workers, Mark(w)
    PROVE  Bounded'
  <1>1. pc[w] = "mark" /\ UNCHANGED <<removable, kind>>
    BY DEF Mark
  <1>2. w \in Threads /\ PcOK /\ rows \in [Probes -> Row \cup {NoRow}] /\ rec[w] \in Row \cup {NoRow}
    BY DEF Quiet, IndInv, TypeOK, StoreOK, LocalOK, Threads
  <1>3. ~ StoreFault(w) /\ Present(arg[w])
    BY <1>1, <1>2, NoFault, JobFacts
  <1>4. PICK r : /\ r = [rec[w] EXCEPT !.status = "running"]
                 /\ rows' = [rows EXCEPT ![arg[w]] = r] /\ Goto(w, "probe")
    BY <1>3 DEF Mark
  <1>5. r.status \notin Terminal
    BY <1>2, <1>4 DEF Row, NoRow, Terminal
  <1>6. Finished' \subseteq Finished
    <2>1. ASSUME NEW p \in Probes, IsFinished(p)' PROVE IsFinished(p)
      BY <1>2, <1>4, <1>5, <2>1 DEF IsFinished
    <2>. QED  BY <2>1 DEF Finished
  <1>7. pc[w] \notin Pruning /\ "probe" \notin Pruning
    BY <1>1 DEF Pruning
  <1>8. \A x \in Threads : Apart(x)
    BY <1>1, <1>2, <1>4, <1>7, AwayApart
  <1>. QED  BY <1>1, <1>6, <1>8, ApartBounded

\* The first fail_stale_runs() finds nothing to fail.
LEMMA RecoverNone ==
    ASSUME Quiet, NoneYet, Recover(Main)
    PROVE  UNCHANGED rows /\ Goto(Main, "swap") /\ UNCHANGED <<removable, kind>>
  <1>1. pc[Main] = "recover" /\ UNCHANGED <<removable, kind>>
    BY DEF Recover, localVars
  <1>2. ~ StoreFault(Main)
    BY NoFault DEF Threads
  <1>3. rows' = [p \in Probes |-> FailStale(p)] /\ Goto(Main, "swap")
    BY <1>2 DEF Recover
  <1>4. \A p \in Probes : rows[p] = NoRow
    BY <1>1 DEF NoneYet, Starting
  <1>5. NoRow.status \notin Active
    BY DEF NoRow, Active
  <1>6. \A p \in Probes : FailStale(p) = rows[p]
    BY <1>4, <1>5 DEF FailStale, IsActive
  <1>7. rows = [p \in Probes |-> rows[p]]
    BY DEF Quiet, IndInv, TypeOK, StoreOK
  <1>8. rows' = rows
    BY <1>3, <1>6, <1>7
  <1>. QED  BY <1>1, <1>3, <1>8

\* Every other step leaves the rows alone, and prune too.
Passes == UNCHANGED <<rows, removable>> /\ \A x \in Threads : Apart(x)

LEMMA RequestPasses ==
    ASSUME Quiet, NEW c \in Clients, Begin(c) \/ Prepare(c) \/ Enqueue(c) \/ Put(c) \/ StartCheck(c)
    PROVE  Passes
  <1>1. c \in Threads /\ c # Main /\ PcOK /\ c \notin Workers
    BY ThreadsAssumption DEF Threads, Quiet, IndInv, TypeOK
  <1>2. /\ UNCHANGED <<rows, removable>>
        /\ pc[c] \in {"idle", "prepare", "enqueue", "put", "start"}
    BY DEF Begin, Prepare, Enqueue, Put, StartCheck, storeVars, localVars
  <1>3. PICK l \in {"start", "prepare", "create", "idle", "put", "recover"} : Goto(c, l)
    BY <1>1 DEF Begin, Prepare, Enqueue, Put, StartCheck, AfterStart
  <1>4. \A x \in Clients : x # c => kind'[x] = kind[x]
    <2>1. kind \in [Clients -> {"submit", "sync"}]
      BY DEF Quiet, IndInv, TypeOK, LocalOK
    <2>2. CASE Begin(c)
      BY <2>1, <2>2 DEF Begin
    <2>3. CASE Prepare(c) \/ Enqueue(c) \/ Put(c) \/ StartCheck(c)
      BY <2>3 DEF Prepare, Enqueue, Put, StartCheck, localVars
    <2>. QED  BY <2>2, <2>3
  <1>5. pc[c] \notin Pruning /\ l \notin Pruning
    BY <1>2, <1>3 DEF Pruning
  <1>6. \A x \in Threads : Apart(x)
    BY <1>1, <1>3, <1>4, <1>5, AwayApart
  <1>. QED  BY <1>2, <1>6 DEF Passes

LEMMA WorkerPasses ==
    ASSUME Quiet, NEW t \in Clients \cup Workers,
           \/ RunProbe(t)
           \/ t \in Workers /\ (Loop(t) \/ Get(t) \/ GetTimeout(t) \/ Load(t) \/ TaskDone(t))
    PROVE  Passes
  <1>1. t \in Threads /\ PcOK
    BY DEF Threads, Quiet, IndInv, TypeOK
  <1>2. ~ StoreFault(t)
    BY <1>1, NoFault
  <1>3. /\ UNCHANGED <<rows, removable, kind>>
        /\ pc[t] \in {"probe", "loop", "get", "load", "reload", "done", "ending"}
    BY DEF RunProbe, Loop, Get, GetTimeout, Load, TaskDone, storeVars, localVars
  <1>4. PICK l \in {"reload", "finish", "get", "ending", "load", "dead", "loop", "mark", "done"} : Goto(t, l)
    <2>1. CASE RunProbe(t)
      BY <2>1 DEF RunProbe
    <2>2. CASE Loop(t) \/ Get(t) \/ GetTimeout(t)
      BY <2>2 DEF Loop, Get, GetTimeout
    <2>3. CASE Load(t) \/ TaskDone(t)
      BY <1>2, <2>3 DEF Load, TaskDone
    <2>. QED  BY <2>1, <2>2, <2>3
  <1>5. pc[t] \notin Pruning /\ l \notin Pruning
    BY <1>3, <1>4 DEF Pruning
  <1>6. \A x \in Threads : Apart(x)
    BY <1>1, <1>3, <1>4, <1>5, AwayApart
  <1>. QED  BY <1>3, <1>6 DEF Passes

LEMMA MainPasses ==
    ASSUME Quiet, NoneYet, Boot \/ Stop \/ StarterStep(Main)
    PROVE  Passes
  <1>1. Main \in Threads /\ PcOK /\ Main \notin Workers
    BY ThreadsAssumption DEF Threads, Quiet, IndInv, TypeOK
  <1>2. CASE Boot \/ Stop \/ StartCheck(Main) \/ Recover(Main)
    <2>1. /\ UNCHANGED <<rows, removable, kind>>
          /\ pc[Main] \in {"down", "serving", "start", "recover"}
      BY <1>2, RecoverNone DEF Boot, Stop, StartCheck, Recover, Serving, storeVars, localVars
    <2>2. PICK l \in {"start", "join", "serving", "recover", "swap"} : Goto(Main, l)
      BY <1>2, RecoverNone DEF Boot, Stop, StartCheck, AfterStart
    <2>3. pc[Main] \notin Pruning /\ l \notin Pruning
      BY <2>1, <2>2 DEF Pruning
    <2>4. \A x \in Threads : Apart(x)
      BY <1>1, <2>1, <2>2, <2>3, AwayApart
    <2>. QED  BY <2>1, <2>4 DEF Passes
  <1>3. CASE Swap(Main)
    <2>1. pc[Main] = "swap" /\ UNCHANGED <<rows, removable, kind>>
      BY <1>3 DEF Swap, storeVars
    <2>2. PICK w \in Workers : pc[w] = "unborn" /\ pc' = [pc EXCEPT ![Main] = "launch", ![w] = "created"]
      BY <1>3 DEF Swap
    <2>3. w \in Threads /\ w # Main
      BY <1>1 DEF Threads
    <2>4. /\ pc'[Main] = "launch" /\ pc'[w] = "created"
          /\ \A x \in Threads : x # Main /\ x # w => pc'[x] = pc[x]
      BY <1>1, <2>2, <2>3 DEF PcOK
    <2>5. \A x \in Threads : Apart(x)
      BY <2>1, <2>2, <2>4 DEF Apart, Pruning
    <2>. QED  BY <2>1, <2>5 DEF Passes
  <1>4. CASE Launch(Main)
    <2>1. /\ pc[Main] = "launch" /\ UNCHANGED <<rows, removable, kind>>
          /\ pc' = [pc EXCEPT ![Main] = "serving", ![ref[Main]] = "loop"]
      BY <1>4 DEF Launch, AfterStart, storeVars
    <2>2. PICK w : w = ref[Main]
      OBVIOUS
    <2>3. w \in Workers /\ pc[w] = "created"
      BY <1>1, <2>1, <2>2 DEF Quiet, IndInv, LaunchInv
    <2>4. w \in Threads /\ w # Main
      BY <1>1, <2>3 DEF Threads
    <2>5. /\ pc'[Main] = "serving" /\ pc'[w] = "loop"
          /\ \A x \in Threads : x # Main /\ x # w => pc'[x] = pc[x]
      BY <1>1, <2>1, <2>2, <2>4 DEF PcOK
    <2>6. \A x \in Threads : Apart(x)
      BY <2>1, <2>3, <2>5 DEF Apart, Pruning
    <2>. QED  BY <2>1, <2>6 DEF Passes
  <1>. QED  BY <1>2, <1>3, <1>4 DEF StarterStep

LEMMA NextBounded ==
    ASSUME Quiet, Bounded, NoneYet, Next, ~ ProcessEnd
    PROVE  Bounded'
  <1>1. CASE Passes
    <2>1. Finished' = Finished
      BY <1>1 DEF Passes, Finished, IsFinished
    <2>. QED  BY <1>1, <2>1, ApartBounded DEF Passes
  <1>2. ASSUME NEW c \in Clients, Begin(c) \/ RequestStep(c) \/ StarterStep(c) PROVE Bounded'
    BY <1>1, <1>2, RequestPasses, CreateBounded, ClientsFindWorker DEF RequestStep, StarterStep
  <1>3. CASE Boot \/ Stop \/ StarterStep(Main)
    BY <1>1, <1>3, MainPasses
  <1>4. ASSUME NEW t \in Clients \cup Workers, ProbeStep(t) PROVE Bounded'
    BY <1>1, <1>4, WorkerPasses, FinishBounded, PruneSelectBounded, PruneDeleteBounded DEF ProbeStep
  <1>5. ASSUME NEW w \in Workers, WorkerStep(w) PROVE Bounded'
    BY <1>1, <1>5, WorkerPasses, MarkBounded DEF WorkerStep
  <1>. QED  BY <1>2, <1>3, <1>4, <1>5 DEF Next

\* Until Main has started the first worker nothing writes a row, and Main does
\* not start over in the same process.
LEMMA NextNoneYet ==
    ASSUME Quiet, NoneYet, Next, ~ ProcessEnd
    PROVE  NoneYet'
  <1>. SUFFICES ASSUME Starting' PROVE \A p \in Probes : rows'[p] = NoRow
    BY DEF NoneYet
  <1>1. PcOK /\ Main \in Threads /\ Main \notin Clients \cup Workers
    BY ThreadsAssumption DEF Threads, Quiet, IndInv, TypeOK
  <1>2. ASSUME NEW t \in Clients \cup Workers, NEW l, Goto(t, l) PROVE Starting
    <2>1. t \in Threads /\ t # Main
      BY <1>1 DEF Threads
    <2>2. pc'[Main] = pc[Main]
      BY <1>1, <1>2, <2>1, GotoFacts
    <2>. QED  BY <2>2 DEF Starting
  <1>3. Starting
    <2>1. ASSUME NEW c \in Clients, Begin(c) \/ RequestStep(c) \/ StarterStep(c) PROVE Starting
      <3>1. StartCheck(c) \/ Begin(c) \/ RequestStep(c)
        BY <2>1, ClientsFindWorker DEF StarterStep
      <3>2. \E l : Goto(c, l)
        BY <3>1 DEF Begin, RequestStep, StartCheck, Prepare, Create, Enqueue, Put, StoreFault
      <3>. QED  BY <1>2, <3>2
    <2>2. CASE Boot \/ StarterStep(Main)
      BY <2>2 DEF Boot, StarterStep, StartCheck, Recover, Swap, Launch, Starting
    <2>3. ~ Stop
      <3>1. Stop => pc'[Main] = "join"
        BY <1>1, GotoFacts DEF Stop
      <3>. QED  BY <3>1 DEF Starting
    <2>4. ASSUME NEW t \in Clients \cup Workers, ProbeStep(t) PROVE Starting
      <3>1. \E l : Goto(t, l)
        BY <2>4 DEF ProbeStep, RunProbe, Finish, PruneSelect, PruneDelete, StoreFault
      <3>. QED  BY <1>2, <3>1
    <2>5. ASSUME NEW w \in Workers, WorkerStep(w) PROVE Starting
      <3>1. \E l : Goto(w, l)
        BY <2>5 DEF WorkerStep, Loop, Get, GetTimeout, Load, Mark, TaskDone, StoreFault
      <3>. QED  BY <1>2, <3>1
    <2>. QED  BY <2>1, <2>2, <2>3, <2>4, <2>5 DEF Next
  <1>4. /\ \A p \in Probes : rows[p] = NoRow
        /\ \A c \in Clients : pc[c] = "idle"
        /\ \A w \in Workers : pc[w] \in {"unborn", "created", "loop"}
    BY <1>3, StartingBlank DEF NoneYet, Blank
  <1>5. ASSUME NEW c \in Clients, Begin(c) \/ RequestStep(c) \/ StarterStep(c) PROVE Passes
    <2>1. ~ Create(c)
      BY <1>4 DEF Create
    <2>. QED  BY <1>5, <2>1, RequestPasses, ClientsFindWorker DEF RequestStep, StarterStep
  <1>6. ASSUME Boot \/ Stop \/ StarterStep(Main) PROVE Passes
    BY <1>6, MainPasses
  <1>7. ASSUME NEW t \in Clients \cup Workers PROVE ~ ProbeStep(t)
    BY <1>4 DEF ProbeStep, RunProbe, Finish, PruneSelect, PruneDelete
  <1>8. ASSUME NEW w \in Workers, WorkerStep(w) PROVE Passes
    <2>1. ~ Mark(w)
      BY <1>4 DEF Mark
    <2>. QED  BY <1>8, <2>1, WorkerPasses DEF WorkerStep
  <1>9. Passes
    BY <1>5, <1>6, <1>7, <1>8 DEF Next
  <1>. QED  BY <1>4, <1>9 DEF Passes

\* History is inductive in a process whose store has not failed.
LEMMA NextHistory == IndInv /\ ArgInv /\ Calm /\ History /\ [Next]_vars => History'
  <1> SUFFICES ASSUME IndInv, ArgInv, Calm, History, [Next]_vars, faults' = 0, crashes' = 0
               PROVE  Bounded' /\ NoneYet'
    BY DEF History
  <1>1. ~ ProcessEnd
    BY SMT, SMTT(60) DEF ProcessEnd, IndInv, TypeOK, HistoryOK
  <1>2. CASE Next
    <2>1. faults = 0
      BY <1>1, <1>2, FaultsKept DEF IndInv
    <2>2. crashes = 0
      BY <1>1, <1>2
         DEF Next, StarterStep, ProbeStep, RequestStep, WorkerStep, Begin, Prepare, Create, Enqueue, Put,
             StartCheck, Recover, Swap, Launch, RunProbe, Finish, PruneSelect, PruneDelete,
             Loop, Get, GetTimeout, Load, Mark, TaskDone, Boot, Stop
    <2>3. Quiet /\ Bounded /\ NoneYet
      BY <2>1, <2>2 DEF Quiet, Calm, Orderly, History
    <2>. QED  BY <1>1, <1>2, <2>3, NextBounded, NextNoneYet
  <1>3. CASE UNCHANGED vars
    <2>1. UNCHANGED <<rows, pc, kind, removable, faults, crashes>>
      BY <1>3 DEF vars, storeVars, sharedVars, localVars
    <2>2. Bounded /\ NoneYet
      BY <2>1 DEF History
    <2>3. \A x \in Threads : Apart(x)
      BY <2>1 DEF Apart
    <2>4. Finished' \subseteq Finished
      BY <2>1 DEF Finished, IsFinished
    <2>5. NoneYet'
      BY <2>1, <2>2 DEF NoneYet, Starting
    <2>. QED  BY <2>1, <2>2, <2>3, <2>4, <2>5, ApartBounded
  <1>. QED  BY <1>2, <1>3

LEMMA InitHistory == Init => History
  <1> SUFFICES ASSUME Init PROVE Bounded /\ NoneYet
    BY DEF History
  <1>1. \A p \in Probes : rows[p] = NoRow
    BY DEF Init
  <1>2. Finished = {}
    <2>1. NoRow.status \notin Terminal
      BY DEF NoRow, Terminal
    <2>. QED  BY <1>1, <2>1 DEF Finished, IsFinished
  <1>3. \A t \in Threads : pc[t] \notin {"prune", "delete"}
    BY DEF Init
  <1>4. Pruners = {}
    BY <1>3 DEF Pruners, Pruner, Threads
  <1>5. IsFiniteSet({}) /\ Cardinality({}) = 0
    BY FS_EmptySet
  <1>6. 0 <= MaxRuns + 0
    BY BoundsAssumption, SMT, SMTT(60)
  <1>7. \E N \in [Threads -> SUBSET Pruners] : Since(N)
    <2>1. [t \in Threads |-> {}] \in [Threads -> SUBSET Pruners]
      OBVIOUS
    <2>2. Since([t \in Threads |-> {}])
      BY <1>3 DEF Since
    <2>. QED  BY <2>1, <2>2
  <1>. QED  BY <1>1, <1>2, <1>4, <1>5, <1>6, <1>7 DEF Bounded, NoneYet

\* As long as no store call has failed and the process is the first one, there are
\* never more finished rows than max_runs and one for each thread between its
\* update_run and the end of its prune_finished_runs, however the selects and the
\* deletes of request threads and the worker overlap.
THEOREM HistoryIsBounded == Spec => []HistoryBounded
  <1>1. History => HistoryBounded
    BY DEF History, Bounded, HistoryBounded, Finished, Pruners, Pruner
  <1>. QED  BY <1>1, InitHistory, NextHistory, AlwaysCalm, PTL DEF Spec
====
