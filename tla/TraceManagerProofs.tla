-------------------------- MODULE TraceManagerProofs --------------------------
(***************************************************************************)
(* The theorems about TraceManager, for any number of request threads,     *)
(* workers and probes and for any bound on failures and crashes.  The      *)
(* inductive invariant comes first: the types, what a thread has in hand   *)
(* at its place of the code, who has a new Thread object, and who has the  *)
(* id of a probe.  Then come the theorems about a process whose store has  *)
(* not failed, and last what the rows say whether it has or not.           *)
(***************************************************************************)
EXTENDS TraceManager, TLAPS

USE ThreadsAssumption, ResultsAssumption, BoundsAssumption

\* The provers, in the order in which they try a leaf that names none.
USE Zenon, SMT, ZenonT(60), SMTT(60)

-----------------------------------------------------------------------------
(* Types.  What a thread has in hand depends on where it is.                *)

LocalsSet ==
    \A t \in Threads :
        /\ pc[t] \in {"reload", "finish"} => out[t] # None
        /\ pc[t] \in {"create", "enqueue", "put", "probe", "finish", "load", "mark", "reload"} => arg[t] # None
        /\ t \in Clients /\ pc[t] \in {"prune", "delete"} /\ kind[t] = "submit" => arg[t] # None
        /\ t \in Clients /\ pc[t] \in {"probe", "finish"} => kind[t] = "sync"

\* __init__ leaves a state of the right types in which no thread has begun.
LEMMA InitTypeOK == Init => TypeOK /\ LocalsSet
  <1> SUFFICES ASSUME Init PROVE TypeOK /\ LocalsSet
    OBVIOUS
  <1> USE DEF Init
  <1>1. StoreOK /\ HistoryOK
    BY SMT, SMTT(60) DEF StoreOK, HistoryOK
  <1>2. SharedOK
    <2>1. << >> \in Seq(Probes \cup {None})
      BY SMT, SMTT(60)
    <2> QED BY <2>1 DEF SharedOK, QueueIds
  <1>3. PcOK
    BY DEF PcOK, Threads, LabelsOf, MainLabels, ClientLabels, WorkerLabels
  <1>4. LocalOK
    BY DEF LocalOK, Threads, QueueIds
  <1>5. LocalsSet
    BY DEF LocalsSet, Threads
  <1> QED BY <1>1, <1>2, <1>3, <1>4, <1>5 DEF TypeOK

\* A jump to a label that thread t may have keeps every thread at its labels.
LEMMA GotoOK ==
    ASSUME PcOK, NEW t \in Threads, NEW l \in LabelsOf(t), Goto(t, l)
    PROVE  PcOK'
  BY DEF PcOK, Goto, LabelsOf

\* The rows that the operators of the table build are rows.
LEMMA RowTypes ==
    ASSUME StoreOK
    PROVE  /\ \A s \in Active : NewRow(s) \in Row
           /\ \A r \in Row \cup {NoRow}, o \in Results \cup {"exception"} : Completed(r, o) \in Row
           /\ \A p \in Probes : FailStale(p) \in Row \cup {NoRow}
           /\ \A r \in Row \cup {NoRow} : [r EXCEPT !.status = "running"] \in Row
  <1>1. \A s \in Active : NewRow(s) \in Row
    BY DEF NewRow, NoRow, Row, Active, Terminal, Errors
  <1>2. \A r \in Row, o \in Results \cup {"exception"} : Completed(r, o) \in Row
    BY DEF Completed, Row, Active, Terminal, Errors
  <1>3. \A o \in Results \cup {"exception"} : Completed(NoRow, o) \in Row
    BY DEF Completed, NoRow, Row, Active, Terminal, Errors
  <1>4. \A p \in Probes : FailStale(p) \in Row \cup {NoRow}
    <2> TAKE p \in Probes
    <2>1. rows[p] \in Row \cup {NoRow}
      BY DEF StoreOK
    <2>2. CASE rows[p] = NoRow
      BY <2>2, SMT, SMTT(60) DEF FailStale, IsActive, NoRow, Active
    <2>3. CASE rows[p] \in Row
      BY <2>3 DEF FailStale, IsActive, Row, Active, Terminal, Errors
    <2> QED BY <2>1, <2>2, <2>3
  <1>5. \A r \in Row : [r EXCEPT !.status = "running"] \in Row
    BY DEF Row, Active, Terminal, Errors
  <1>6. [NoRow EXCEPT !.status = "running"] \in Row
    BY DEF NoRow, Row, Active, Terminal, Errors
  <1> QED BY <1>1, <1>2, <1>3, <1>4, <1>5, <1>6

\* Every step of a request, of a worker and of the lifespan keeps the types.
LEMMA NextTypeOK == TypeOK /\ LocalsSet /\ [Next]_vars => TypeOK'
  <1> SUFFICES ASSUME TypeOK, LocalsSet, [Next]_vars PROVE TypeOK'
    OBVIOUS
  <1> USE DEF TypeOK, storeVars, sharedVars, localVars
  <1>1. ASSUME NEW c \in Clients, Begin(c) PROVE TypeOK'
    <2>1. PcOK'
      BY <1>1, GotoOK DEF Begin, PcOK, Goto, Threads, LabelsOf, MainLabels, ClientLabels, WorkerLabels, StarterLabels, JobLabels
    <2>2. StoreOK' /\ HistoryOK'
      BY <1>1 DEF Begin, StoreOK, HistoryOK, LocalOK, Threads
    <2>3. SharedOK' /\ LocalOK'
      BY <1>1, SMT, SMTT(60) DEF Begin, SharedOK, LocalOK, Threads, QueueIds
    <2> QED BY <2>1, <2>2, <2>3
  <1>2. ASSUME NEW c \in Clients, Prepare(c) PROVE TypeOK'
    <2>1. PcOK'
      BY <1>2, GotoOK DEF Prepare, PcOK, Goto, Threads, LabelsOf, MainLabels, ClientLabels, WorkerLabels, StarterLabels, JobLabels
    <2>2. StoreOK' /\ HistoryOK'
      BY <1>2, SMT, SMTT(60) DEF Prepare, StoreOK, HistoryOK, LocalOK, Threads
    <2>3. SharedOK' /\ LocalOK'
      <3>1. arg' \in [Threads -> Probes \cup {None}]
        BY <1>2 DEF Prepare, LocalOK, Threads
      <3> QED BY <1>2, <3>1 DEF Prepare, SharedOK, LocalOK
    <2> QED BY <2>1, <2>2, <2>3
  <1>3. ASSUME NEW c \in Clients, Create(c) PROVE TypeOK'
    <2>1. PcOK'
      BY <1>3, GotoOK DEF Create, StoreFault, Raise, Active, PcOK, Goto, Threads, LabelsOf, MainLabels, ClientLabels, WorkerLabels, StarterLabels, JobLabels
    <2>2. StoreOK' /\ HistoryOK'
      BY <1>3, RowTypes, SMT, SMTT(60) DEF Create, StoreFault, Raise, Active, StoreOK, HistoryOK, LocalOK, Threads
    <2>3. SharedOK' /\ LocalOK'
      <3>1. NewRow("queued") \in Row /\ NewRow("running") \in Row
        BY RowTypes DEF Active
      <3>2. SharedOK' /\ kind' = kind /\ out' = out /\ removable' = removable /\ ref' = ref
        BY <1>3 DEF Create, SharedOK
      <3>3. arg' \in [Threads -> Probes \cup {None}] /\ rec' \in [Threads -> Row \cup {NoRow}]
        BY <1>3, <3>1, SMT, SMTT(60) DEF Create, LocalOK, Threads
      <3> QED BY <3>2, <3>3 DEF LocalOK
    <2> QED BY <2>1, <2>2, <2>3
  <1>4. ASSUME NEW c \in Clients, Enqueue(c) PROVE TypeOK'
    <2>1. PcOK'
      BY <1>4, GotoOK DEF Enqueue, PcOK, Goto, Threads, LabelsOf, MainLabels, ClientLabels, WorkerLabels, StarterLabels, JobLabels
    <2>2. StoreOK' /\ HistoryOK'
      BY <1>4 DEF Enqueue, StoreOK, HistoryOK, LocalOK, Threads
    <2>3. SharedOK' /\ LocalOK'
      BY <1>4 DEF Enqueue, SharedOK, LocalOK, Threads, QueueIds
    <2> QED BY <2>1, <2>2, <2>3
  <1>5. ASSUME NEW c \in Clients, Put(c) PROVE TypeOK'
    <2>1. PcOK'
      BY <1>5, GotoOK DEF Put, PcOK, Goto, Threads, LabelsOf, MainLabels, ClientLabels, WorkerLabels, StarterLabels, JobLabels
    <2>2. StoreOK' /\ HistoryOK'
      BY <1>5 DEF Put, StoreOK, HistoryOK, LocalOK, Threads
    <2>3. SharedOK' /\ LocalOK'
      <3>1. LocalOK'
        BY <1>5 DEF Put, LocalOK, Threads, QueueIds
      <3>2. arg[c] \in Probes \cup {None} /\ ref[c] \in QueueIds
        BY DEF LocalOK, Threads
      <3>3. queues' \in [QueueIds -> Seq(Probes \cup {None})]
        BY <1>5, <3>2, SMT, SMTT(60) DEF Put, SharedOK
      <3>4. unfinished' \in [QueueIds -> Nat]
        BY <1>5, <3>2, SMT, SMTT(60) DEF Put, SharedOK
      <3> QED BY <1>5, <3>1, <3>3, <3>4 DEF Put, SharedOK
    <2> QED BY <2>1, <2>2, <2>3
  <1>6. ASSUME NEW t \in Clients \cup {Main}, StartCheck(t) PROVE TypeOK'
    <2>1. PcOK'
      BY <1>6, GotoOK DEF StartCheck, AfterStart, PcOK, Goto, Threads, LabelsOf, MainLabels, ClientLabels, WorkerLabels, StarterLabels, JobLabels
    <2>2. StoreOK' /\ HistoryOK'
      BY <1>6 DEF StartCheck, AfterStart, StoreOK, HistoryOK, LocalOK, Threads
    <2>3. SharedOK' /\ LocalOK'
      BY <1>6 DEF StartCheck, AfterStart, SharedOK, LocalOK, Threads, QueueIds
    <2> QED BY <2>1, <2>2, <2>3
  <1>7. ASSUME NEW t \in Clients \cup {Main}, Recover(t) PROVE TypeOK'
    <2>1. PcOK'
      BY <1>7, GotoOK DEF Recover, StoreFault, Raise, PcOK, Goto, Threads, LabelsOf, MainLabels, ClientLabels, WorkerLabels, StarterLabels, JobLabels
    <2>2. StoreOK' /\ HistoryOK'
      BY <1>7, RowTypes, SMT, SMTT(60) DEF Recover, StoreFault, Raise, StoreOK, HistoryOK, LocalOK, Threads
    <2>3. SharedOK' /\ LocalOK'
      BY <1>7, RowTypes DEF Recover, StoreFault, Raise, SharedOK, LocalOK, Threads, QueueIds
    <2> QED BY <2>1, <2>2, <2>3
  <1>8. ASSUME NEW t \in Clients \cup {Main}, Swap(t) PROVE TypeOK'
    <2>1. PcOK'
      BY <1>8, GotoOK, SMT, SMTT(60) DEF Swap, PcOK, Goto, Threads, LabelsOf, MainLabels, ClientLabels, WorkerLabels, StarterLabels, JobLabels
    <2>2. StoreOK' /\ HistoryOK'
      BY <1>8 DEF Swap, StoreOK, HistoryOK, LocalOK, Threads
    <2>3. SharedOK' /\ LocalOK'
      <3>1. PICK w \in Workers : thread' = w /\ queueRef' = w /\ ref' = [ref EXCEPT ![t] = w]
        BY <1>8 DEF Swap
      <3> QED BY <1>8, <3>1 DEF Swap, SharedOK, LocalOK, Threads, QueueIds
    <2> QED BY <2>1, <2>2, <2>3
  <1>9. ASSUME NEW t \in Clients \cup {Main}, Launch(t) PROVE TypeOK'
    <2>1. PcOK'
      <3>1. pc' = [pc EXCEPT ![t] = AfterStart(t), ![ref[t]] = "loop"] /\ ref[t] \in Workers \cup {None}
        BY <1>9 DEF Launch, LocalOK, Threads, QueueIds
      <3>2. AfterStart(t) \in LabelsOf(t)
        BY DEF AfterStart, LabelsOf, MainLabels, ClientLabels
      <3>3. \A w \in Workers : "loop" \in LabelsOf(w)
        BY DEF LabelsOf, WorkerLabels
      <3> QED BY <3>1, <3>2, <3>3 DEF PcOK, Threads, LabelsOf
    <2>2. StoreOK' /\ HistoryOK'
      BY <1>9 DEF Launch, AfterStart, StoreOK, HistoryOK, LocalOK, Threads
    <2>3. SharedOK' /\ LocalOK'
      BY <1>9 DEF Launch, AfterStart, SharedOK, LocalOK, Threads, QueueIds
    <2> QED BY <2>1, <2>2, <2>3
  <1>10. ASSUME NEW t \in Clients \cup Workers, RunProbe(t) PROVE TypeOK'
    <2>1. PcOK'
      BY <1>10, GotoOK DEF RunProbe, PcOK, Goto, Threads, LabelsOf, MainLabels, ClientLabels, WorkerLabels, StarterLabels, JobLabels
    <2>2. StoreOK' /\ HistoryOK'
      <3>1. arg[t] \in Probes
        BY <1>10 DEF RunProbe, LocalsSet, LocalOK, Threads
      <3> QED BY <1>10, <3>1, SMT, SMTT(60) DEF RunProbe, StoreOK, HistoryOK
    <2>3. SharedOK' /\ LocalOK'
      BY <1>10, SMT, SMTT(60) DEF RunProbe, SharedOK, LocalOK, Threads, QueueIds
    <2> QED BY <2>1, <2>2, <2>3
  <1>11. ASSUME NEW t \in Clients \cup Workers, Finish(t) PROVE TypeOK'
    <2>1. PcOK'
      BY <1>11, GotoOK DEF Finish, StoreFault, Raise, PcOK, Goto, Threads, LabelsOf, MainLabels, ClientLabels, WorkerLabels, StarterLabels, JobLabels
    <2>2. StoreOK' /\ HistoryOK'
      <3>1. out[t] \in Results \cup {"exception"} /\ rec[t] \in Row \cup {NoRow}
        BY <1>11 DEF Finish, LocalOK, Threads, LocalsSet
      <3>2. Completed(rec[t], out[t]) \in Row
        BY <3>1, RowTypes
      <3> QED BY <1>11, <3>2, SMT, SMTT(60) DEF Finish, StoreFault, StoreOK, HistoryOK
    <2>3. SharedOK' /\ LocalOK'
      BY <1>11, RowTypes DEF Finish, StoreFault, Raise, SharedOK, LocalOK, Threads, QueueIds
    <2> QED BY <2>1, <2>2, <2>3
  <1>12. ASSUME NEW t \in Clients \cup Workers, PruneSelect(t) PROVE TypeOK'
    <2>1. PcOK'
      BY <1>12, GotoOK DEF PruneSelect, StoreFault, Raise, AfterPrune, RemovableSets, PcOK, Goto, Threads, LabelsOf, MainLabels, ClientLabels, WorkerLabels, StarterLabels, JobLabels
    <2>2. StoreOK' /\ HistoryOK'
      BY <1>12, SMT, SMTT(60) DEF PruneSelect, StoreFault, Raise, AfterPrune, RemovableSets, StoreOK, HistoryOK, LocalOK, Threads
    <2>3. SharedOK' /\ LocalOK'
      <3>1. \A T \in RemovableSets : T \in SUBSET Probes
        BY DEF RemovableSets
      <3>2. removable' \in [Threads -> SUBSET Probes]
        BY <1>12, <3>1, SMT, SMTT(60) DEF PruneSelect, LocalOK, Threads
      <3>3. arg' \in [Threads -> Probes \cup {None}]
        BY <1>12 DEF PruneSelect, LocalOK, Threads
      <3> QED BY <1>12, <3>2, <3>3 DEF PruneSelect, SharedOK, LocalOK
    <2> QED BY <2>1, <2>2, <2>3
  <1>13. ASSUME NEW t \in Clients \cup Workers, PruneDelete(t) PROVE TypeOK'
    <2>1. PcOK'
      BY <1>13, GotoOK, SMT, SMTT(60) DEF PruneDelete, StoreFault, Raise, AfterPrune, PcOK, Goto, Threads, LabelsOf, MainLabels, ClientLabels, WorkerLabels, StarterLabels, JobLabels
    <2>2. StoreOK' /\ HistoryOK'
      BY <1>13, SMT, SMTT(60) DEF PruneDelete, StoreFault, Raise, AfterPrune, StoreOK, HistoryOK, LocalOK, Threads
    <2>3. SharedOK' /\ LocalOK'
      BY <1>13 DEF PruneDelete, StoreFault, Raise, AfterPrune, SharedOK, LocalOK, Threads, QueueIds
    <2> QED BY <2>1, <2>2, <2>3
  <1>14. ASSUME NEW w \in Workers, Loop(w) PROVE TypeOK'
    <2>1. PcOK'
      BY <1>14, GotoOK DEF Loop, PcOK, Goto, Threads, LabelsOf, MainLabels, ClientLabels, WorkerLabels, StarterLabels, JobLabels
    <2>2. StoreOK' /\ HistoryOK'
      BY <1>14 DEF Loop, StoreOK, HistoryOK, LocalOK, Threads
    <2>3. SharedOK' /\ LocalOK'
      BY <1>14 DEF Loop, SharedOK, LocalOK, Threads, QueueIds
    <2> QED BY <2>1, <2>2, <2>3
  <1>15. ASSUME NEW w \in Workers, Get(w) PROVE TypeOK'
    <2>1. PcOK'
      BY <1>15, GotoOK DEF Get, PcOK, Goto, Threads, LabelsOf, MainLabels, ClientLabels, WorkerLabels, StarterLabels, JobLabels
    <2>2. StoreOK' /\ HistoryOK'
      BY <1>15 DEF Get, StoreOK, HistoryOK, LocalOK, Threads
    <2>3. SharedOK' /\ LocalOK'
      <3>1. w \in Threads /\ ref[w] \in QueueIds /\ None \in QueueIds
        BY DEF LocalOK, Threads, QueueIds
      <3>2. queues[ref[w]] \in Seq(Probes \cup {None}) /\ queues[ref[w]] # << >>
        BY <1>15, <3>1 DEF Get, SharedOK
      <3>3. \A s \in Seq(Probes \cup {None}) : s # << >> => Head(s) \in Probes \cup {None} /\ Tail(s) \in Seq(Probes \cup {None})
        BY SMT, SMTT(60)
      <3>4. Head(queues[ref[w]]) \in Probes \cup {None} /\ Tail(queues[ref[w]]) \in Seq(Probes \cup {None})
        BY <3>2, <3>3
      <3>5. SharedOK'
        BY <1>15, <3>4 DEF Get, SharedOK
      <3>6. LocalOK'
        BY <1>15, <3>1, <3>4 DEF Get, LocalOK
      <3> QED BY <3>5, <3>6
    <2> QED BY <2>1, <2>2, <2>3
  <1>16. ASSUME NEW w \in Workers, GetTimeout(w) PROVE TypeOK'
    <2>1. PcOK'
      BY <1>16, GotoOK DEF GetTimeout, PcOK, Goto, Threads, LabelsOf, MainLabels, ClientLabels, WorkerLabels, StarterLabels, JobLabels
    <2>2. StoreOK' /\ HistoryOK'
      BY <1>16 DEF GetTimeout, StoreOK, HistoryOK, LocalOK, Threads
    <2>3. SharedOK' /\ LocalOK'
      BY <1>16 DEF GetTimeout, SharedOK, LocalOK, Threads, QueueIds
    <2> QED BY <2>1, <2>2, <2>3
  <1>17. ASSUME NEW w \in Workers, Load(w) PROVE TypeOK'
    <2>1. PcOK'
      <3>1. \E l \in {"mark", "finish", "done", "dead", "ending"} : Goto(w, l)
        BY <1>17 DEF Load, StoreFault, Raise
      <3>2. {"mark", "finish", "done", "dead", "ending"} \subseteq LabelsOf(w)
        BY DEF LabelsOf, WorkerLabels, JobLabels
      <3> QED BY <3>1, <3>2, GotoOK DEF Threads
    <2>2. StoreOK' /\ HistoryOK'
      <3>1. faults' \in {faults, faults + 1} /\ UNCHANGED <<storeVars, crashes, runs>>
        BY <1>17 DEF Load, StoreFault
      <3> QED BY <3>1, <1>17, SMT, SMTT(60) DEF Load, StoreFault, StoreOK, HistoryOK
    <2>3. SharedOK' /\ LocalOK'
      <3>1. Present(arg[w]) /\ arg[w] # None => rows[arg[w]] \in Row \cup {NoRow}
        BY DEF StoreOK, LocalOK, Threads
      <3>2. arg[w] # None
        BY <1>17 DEF Load, LocalsSet, Threads
      <3> QED BY <1>17, <3>1, <3>2 DEF Load, StoreFault, SharedOK, LocalOK, Threads
    <2> QED BY <2>1, <2>2, <2>3
  <1>18. ASSUME NEW w \in Workers, Mark(w) PROVE TypeOK'
    <2>1. PcOK'
      BY <1>18, GotoOK DEF Mark, StoreFault, Raise, PcOK, Goto, Threads, LabelsOf, MainLabels, ClientLabels, WorkerLabels, StarterLabels, JobLabels
    <2>2. StoreOK' /\ HistoryOK'
      BY <1>18, RowTypes, SMT, SMTT(60) DEF Mark, StoreFault, Raise, StoreOK, HistoryOK, LocalOK, Threads
    <2>3. SharedOK' /\ LocalOK'
      BY <1>18, RowTypes DEF Mark, StoreFault, Raise, SharedOK, LocalOK, Threads, QueueIds
    <2> QED BY <2>1, <2>2, <2>3
  <1>19. ASSUME NEW w \in Workers, TaskDone(w) PROVE TypeOK'
    <2>1. PcOK'
      BY <1>19, GotoOK DEF TaskDone, PcOK, Goto, Threads, LabelsOf, MainLabels, ClientLabels, WorkerLabels, StarterLabels, JobLabels
    <2>2. StoreOK' /\ HistoryOK'
      BY <1>19 DEF TaskDone, StoreOK, HistoryOK, LocalOK, Threads
    <2>3. SharedOK' /\ LocalOK'
      BY <1>19, SMT, SMTT(60) DEF TaskDone, SharedOK, LocalOK, Threads, QueueIds
    <2> QED BY <2>1, <2>2, <2>3
  <1>20. CASE Boot
    <2>1. PcOK'
      BY <1>20, GotoOK DEF Boot, PcOK, Goto, Threads, LabelsOf, MainLabels, ClientLabels, WorkerLabels, StarterLabels, JobLabels
    <2>2. StoreOK' /\ HistoryOK'
      BY <1>20 DEF Boot, StoreOK, HistoryOK, LocalOK, Threads
    <2>3. SharedOK' /\ LocalOK'
      BY <1>20 DEF Boot, SharedOK, LocalOK, Threads, QueueIds
    <2> QED BY <2>1, <2>2, <2>3
  <1>21. CASE Stop
    <2>1. PcOK'
      BY <1>21, GotoOK DEF Stop, PcOK, Goto, Threads, LabelsOf, MainLabels, ClientLabels, WorkerLabels, StarterLabels, JobLabels
    <2>2. StoreOK' /\ HistoryOK'
      BY <1>21 DEF Stop, StoreOK, HistoryOK, LocalOK, Threads
    <2>3. SharedOK' /\ LocalOK'
      BY <1>21, SMT, SMTT(60) DEF Stop, SharedOK, LocalOK, Threads, QueueIds
    <2> QED BY <2>1, <2>2, <2>3
  <1>22. CASE ProcessEnd
    <2>1. PcOK'
      BY <1>22, GotoOK DEF ProcessEnd, PcOK, Goto, Threads, LabelsOf, MainLabels, ClientLabels, WorkerLabels, StarterLabels, JobLabels
    <2>2. StoreOK' /\ HistoryOK'
      BY <1>22, SMT, SMTT(60) DEF ProcessEnd, StoreOK, HistoryOK, LocalOK, Threads
    <2>3. SharedOK' /\ LocalOK'
      <3>1. << >> \in Seq(Probes \cup {None})
        BY SMT, SMTT(60)
      <3>2. SharedOK'
        BY <1>22, <3>1 DEF ProcessEnd, SharedOK, QueueIds
      <3>3. LocalOK'
        BY <1>22 DEF ProcessEnd, LocalOK, QueueIds
      <3> QED BY <3>2, <3>3
    <2> QED BY <2>1, <2>2, <2>3
  <1>23. CASE UNCHANGED vars
    <2>1. PcOK'
      BY <1>23, GotoOK DEF vars, PcOK, Goto, Threads, LabelsOf, MainLabels, ClientLabels, WorkerLabels, StarterLabels, JobLabels
    <2>2. StoreOK' /\ HistoryOK'
      BY <1>23 DEF vars, StoreOK, HistoryOK, LocalOK, Threads
    <2>3. SharedOK' /\ LocalOK'
      BY <1>23 DEF vars, SharedOK, LocalOK, Threads, QueueIds
    <2> QED BY <2>1, <2>2, <2>3
  <1> QED
    BY <1>1, <1>2, <1>3, <1>4, <1>5, <1>6, <1>7, <1>8, <1>9, <1>10, <1>11, <1>12,
       <1>13, <1>14, <1>15, <1>16, <1>17, <1>18, <1>19, <1>20, <1>21, <1>22, <1>23
       DEF Next, StarterStep, ProbeStep, RequestStep, WorkerStep

\* A thread has set the locals that the code at its place reads.
LEMMA NextLocalsSet == TypeOK /\ LocalsSet /\ [Next]_vars => LocalsSet'
  <1> SUFFICES ASSUME TypeOK, LocalsSet, [Next]_vars PROVE LocalsSet'
    OBVIOUS
  <1> USE DEF TypeOK, PcOK, LocalOK, LocalsSet, Threads, storeVars, sharedVars, localVars, Goto
  <1>1. ASSUME NEW c \in Clients, Begin(c) PROVE LocalsSet'
    BY <1>1, SMT, SMTT(60) DEF Begin
  <1>2. ASSUME NEW c \in Clients, Prepare(c) PROVE LocalsSet'
    BY <1>2, SMT, SMTT(60) DEF Prepare
  <1>3. ASSUME NEW c \in Clients, Create(c) PROVE LocalsSet'
    BY <1>3, SMT, SMTT(60) DEF Create, StoreFault, Raise
  <1>4. ASSUME NEW c \in Clients, Enqueue(c) PROVE LocalsSet'
    BY <1>4 DEF Enqueue
  <1>5. ASSUME NEW c \in Clients, Put(c) PROVE LocalsSet'
    BY <1>5 DEF Put
  <1>6. ASSUME NEW t \in Clients \cup {Main}, StartCheck(t) PROVE LocalsSet'
    <2>1. UNCHANGED <<kind, arg, out>> /\ \A x \in Threads : pc'[x] = pc[x] \/ pc'[x] \in {"serving", "prepare", "recover"}
      BY <1>6 DEF StartCheck, AfterStart
    <2> QED BY <2>1
  <1>7. ASSUME NEW t \in Clients \cup {Main}, Recover(t) PROVE LocalsSet'
    BY <1>7, SMT, SMTT(60) DEF Recover, StoreFault, Raise
  <1>8. ASSUME NEW t \in Clients \cup {Main}, Swap(t) PROVE LocalsSet'
    BY <1>8, SMT, SMTT(60) DEF Swap
  <1>9. ASSUME NEW t \in Clients \cup {Main}, Launch(t) PROVE LocalsSet'
    BY <1>9 DEF Launch, AfterStart
  <1>10. ASSUME NEW t \in Clients \cup Workers, RunProbe(t) PROVE LocalsSet'
    BY <1>10, SMT, SMTT(60) DEF RunProbe
  <1>11. ASSUME NEW t \in Clients \cup Workers, Finish(t) PROVE LocalsSet'
    BY <1>11, SMT, SMTT(60) DEF Finish, StoreFault, Raise
  <1>12. ASSUME NEW t \in Clients \cup Workers, PruneSelect(t) PROVE LocalsSet'
    BY <1>12, SMT, SMTT(60) DEF PruneSelect, StoreFault, Raise, AfterPrune
  <1>13. ASSUME NEW t \in Clients \cup Workers, PruneDelete(t) PROVE LocalsSet'
    BY <1>13, SMT, SMTT(60) DEF PruneDelete, StoreFault, Raise, AfterPrune
  <1>14. ASSUME NEW w \in Workers, Loop(w) PROVE LocalsSet'
    BY <1>14 DEF Loop
  <1>15. ASSUME NEW w \in Workers, Get(w) PROVE LocalsSet'
    BY <1>15 DEF Get
  <1>16. ASSUME NEW w \in Workers, GetTimeout(w) PROVE LocalsSet'
    BY <1>16 DEF GetTimeout
  <1>17. ASSUME NEW w \in Workers, Load(w) PROVE LocalsSet'
    <2>1. kind' = kind /\ \A x \in Threads \ {w} : pc'[x] = pc[x] /\ arg'[x] = arg[x] /\ out'[x] = out[x]
      BY <1>17 DEF Load, StoreFault
    <2>2. \/ pc[w] = "load" /\ pc'[w] = "mark" /\ arg'[w] = arg[w]
          \/ pc[w] = "reload" /\ pc'[w] = "finish" /\ arg'[w] = arg[w] /\ out'[w] = out[w]
          \/ pc'[w] \in {"done", "dead", "ending"}
      BY <1>17 DEF Load, StoreFault, Raise
    <2> QED BY <2>1, <2>2, SMT, SMTT(60)
  <1>18. ASSUME NEW w \in Workers, Mark(w) PROVE LocalsSet'
    BY <1>18, SMT, SMTT(60) DEF Mark, StoreFault, Raise
  <1>19. ASSUME NEW w \in Workers, TaskDone(w) PROVE LocalsSet'
    BY <1>19 DEF TaskDone
  <1>20. CASE Boot
    BY <1>20 DEF Boot
  <1>21. CASE Stop
    BY <1>21 DEF Stop
  <1>22. CASE ProcessEnd
    BY <1>22 DEF ProcessEnd
  <1>23. CASE UNCHANGED vars
    BY <1>23 DEF vars
  <1> QED
    BY <1>1, <1>2, <1>3, <1>4, <1>5, <1>6, <1>7, <1>8, <1>9, <1>10, <1>11, <1>12,
       <1>13, <1>14, <1>15, <1>16, <1>17, <1>18, <1>19, <1>20, <1>21, <1>22, <1>23
       DEF Next, StarterStep, ProbeStep, RequestStep, WorkerStep

-----------------------------------------------------------------------------
(* Thread objects.                                                          *)

\* A Thread object that start() has created is started once, by the thread that
\* created it, and is not running before.
LaunchInv ==
    \A t \in Threads : pc[t] = "launch" =>
        /\ ref[t] \in Workers /\ pc[ref[t]] = "created"
        /\ \A s \in Threads : pc[s] = "launch" /\ ref[s] = ref[t] => s = t

\* No step between the end of start()'s critical section and thread.start()
\* takes the new Thread away from its creator.
LEMMA NextLaunchInv == TypeOK /\ LaunchInv /\ [Next]_vars => LaunchInv'
  <1> SUFFICES ASSUME TypeOK, LaunchInv, [Next]_vars PROVE LaunchInv'
    OBVIOUS
  <1> USE DEF TypeOK, PcOK, LocalOK, LaunchInv, Threads, storeVars, sharedVars, localVars, Goto
  <1>1. ASSUME NEW c \in Clients, Begin(c) PROVE LaunchInv'
    BY <1>1, SMT, SMTT(60) DEF Begin
  <1>2. ASSUME NEW c \in Clients, Prepare(c) PROVE LaunchInv'
    BY <1>2, SMT, SMTT(60) DEF Prepare
  <1>3. ASSUME NEW c \in Clients, Create(c) PROVE LaunchInv'
    BY <1>3, SMT, SMTT(60) DEF Create, StoreFault, Raise
  <1>4. ASSUME NEW c \in Clients, Enqueue(c) PROVE LaunchInv'
    BY <1>4 DEF Enqueue
  <1>5. ASSUME NEW c \in Clients, Put(c) PROVE LaunchInv'
    BY <1>5 DEF Put
  <1>6. ASSUME NEW t \in Clients \cup {Main}, StartCheck(t) PROVE LaunchInv'
    BY <1>6, SMT, SMTT(60) DEF StartCheck, AfterStart
  <1>7. ASSUME NEW t \in Clients \cup {Main}, Recover(t) PROVE LaunchInv'
    BY <1>7, SMT, SMTT(60) DEF Recover, StoreFault, Raise
  <1>8. ASSUME NEW t \in Clients \cup {Main}, Swap(t) PROVE LaunchInv'
    BY <1>8, SMT, SMTT(60) DEF Swap
  <1>9. ASSUME NEW t \in Clients \cup {Main}, Launch(t) PROVE LaunchInv'
    BY <1>9 DEF Launch, AfterStart
  <1>10. ASSUME NEW t \in Clients \cup Workers, RunProbe(t) PROVE LaunchInv'
    BY <1>10 DEF RunProbe
  <1>11. ASSUME NEW t \in Clients \cup Workers, Finish(t) PROVE LaunchInv'
    BY <1>11, SMT, SMTT(60) DEF Finish, StoreFault, Raise
  <1>12. ASSUME NEW t \in Clients \cup Workers, PruneSelect(t) PROVE LaunchInv'
    BY <1>12, SMT, SMTT(60) DEF PruneSelect, StoreFault, Raise, AfterPrune
  <1>13. ASSUME NEW t \in Clients \cup Workers, PruneDelete(t) PROVE LaunchInv'
    BY <1>13, SMT, SMTT(60) DEF PruneDelete, StoreFault, Raise, AfterPrune
  <1>14. ASSUME NEW w \in Workers, Loop(w) PROVE LaunchInv'
    BY <1>14 DEF Loop
  <1>15. ASSUME NEW w \in Workers, Get(w) PROVE LaunchInv'
    BY <1>15 DEF Get
  <1>16. ASSUME NEW w \in Workers, GetTimeout(w) PROVE LaunchInv'
    BY <1>16 DEF GetTimeout
  <1>17. ASSUME NEW w \in Workers, Load(w) PROVE LaunchInv'
    BY <1>17, SMT, SMTT(60) DEF Load, StoreFault, Raise
  <1>18. ASSUME NEW w \in Workers, Mark(w) PROVE LaunchInv'
    BY <1>18, SMT, SMTT(60) DEF Mark, StoreFault, Raise
  <1>19. ASSUME NEW w \in Workers, TaskDone(w) PROVE LaunchInv'
    BY <1>19 DEF TaskDone
  <1>20. CASE Boot
    BY <1>20 DEF Boot
  <1>21. CASE Stop
    BY <1>21 DEF Stop
  <1>22. CASE ProcessEnd
    BY <1>22 DEF ProcessEnd
  <1>23. CASE UNCHANGED vars
    BY <1>23 DEF vars
  <1> QED
    BY <1>1, <1>2, <1>3, <1>4, <1>5, <1>6, <1>7, <1>8, <1>9, <1>10, <1>11, <1>12,
       <1>13, <1>14, <1>15, <1>16, <1>17, <1>18, <1>19, <1>20, <1>21, <1>22, <1>23
       DEF Next, StarterStep, ProbeStep, RequestStep, WorkerStep

-----------------------------------------------------------------------------
(* Ownership.  The id of a probe is a token: it is fresh, in the hands of   *)
(* one thread, at one place of one queue, or gone for good.                 *)

Queued(p) == \E q \in QueueIds : InQueue(q, p)
Held(p) == \E t \in Threads : arg[t] = p

\* An id that no request has been given has left no trace.
FreshInv ==
    \A p \in Probes : stamp[p] = 0 => runs[p] = 0 /\ rows[p] = NoRow /\ ~ Held(p) /\ ~ Queued(p)

\* No two threads hold the same id, and an id that is held is in no queue.
HolderInv ==
    /\ \A s, t \in Threads : arg[s] = arg[t] /\ arg[s] # None => s = t
    /\ \A t \in Threads : arg[t] # None => ~ Queued(arg[t])

\* An id is at one place of one queue at most.
QueueInv ==
    \A q, r \in QueueIds : \A i \in DOMAIN queues[q], j \in DOMAIN queues[r] :
        queues[q][i] = queues[r][j] /\ queues[q][i] # None => q = r /\ i = j

\* A probe that was executed is in no queue, and a thread that holds it is on
\* its way to record the outcome.
RunInv ==
    \A p \in Probes :
        /\ runs[p] <= 1
        /\ runs[p] # 0 => ~ Queued(p)
        /\ runs[p] # 0 => \A t \in Threads : arg[t] = p => pc[t] \in {"reload", "finish"}

\* A result is in a finished row, whose id nobody has any more.
ResultInv ==
    /\ \A p \in Probes : rows[p].result => IsFinished(p) /\ ~ Held(p) /\ ~ Queued(p)
    /\ \A t \in Threads : ~ rec[t].result

Ownership == FreshInv /\ HolderInv /\ QueueInv /\ RunInv /\ ResultInv

\* Steps that give no id to anyone and execute no probe.  They may drop an id,
\* and they may write a result if the id of the row is dropped as well.
Settle ==
    /\ UNCHANGED <<stamp, queues, runs>>
    /\ \A t \in Threads : arg'[t] \in {arg[t], None}
    /\ \A t \in Threads :
        pc[t] \in {"reload", "finish"} /\ arg'[t] # None => pc'[t] \in {"reload", "finish"}
    /\ \A t \in Threads : ~ rec'[t].result
    /\ \A p \in Probes : stamp[p] = 0 => rows'[p] = NoRow
    /\ \A p \in Probes : rows'[p].result =>
        /\ rows'[p].status \in Terminal
        /\ rows[p].result \/ (~ Queued(p) /\ \A t \in Threads : arg'[t] # p)

\* A step that only drops ids keeps the ownership of all others.
LEMMA SettleOwnership == TypeOK /\ Ownership /\ Settle => Ownership'
  <1> SUFFICES ASSUME TypeOK, Ownership, Settle PROVE Ownership'
    OBVIOUS
  <1>1. \A p \in Probes : (Queued(p)' <=> Queued(p)) /\ (Held(p)' => Held(p))
    BY DEF Settle, Queued, InQueue, Held
  <1>2. FreshInv'
    BY <1>1 DEF Settle, Ownership, FreshInv
  <1>3. HolderInv'
    BY <1>1, SMT, SMTT(60) DEF Settle, Ownership, HolderInv, TypeOK, LocalOK
  <1>4. QueueInv'
    BY SMT, SMTT(60) DEF Settle, Ownership, QueueInv
  <1>5. RunInv'
    BY <1>1 DEF Settle, Ownership, RunInv
  <1>6. ResultInv'
    BY <1>1 DEF Settle, Ownership, ResultInv, Held, IsFinished
  <1> QED BY <1>2, <1>3, <1>4, <1>5, <1>6 DEF Ownership

\* At first every id is fresh.
LEMMA InitOwnership == Init => Ownership
  BY SMT, SMTT(60) DEF Init, Ownership, FreshInv, HolderInv, QueueInv, RunInv, ResultInv,
         Queued, Held, InQueue, NoRow

\* What the changes of a queue do to the places of its ids.
LEMMA AppendPlaces ==
    ASSUME NEW S, NEW s \in Seq(S), NEW e \in S, NEW i \in DOMAIN Append(s, e)
    PROVE  \/ i \in DOMAIN s /\ Append(s, e)[i] = s[i]
           \/ i = Len(s) + 1 /\ Append(s, e)[i] = e
  BY SMT, SMTT(60)

\* Taking the head of a queue moves every other id one place forward.
LEMMA TailPlaces ==
    ASSUME NEW S, NEW s \in Seq(S), s # << >>
    PROVE  /\ Head(s) = s[1] /\ 1 \in DOMAIN s /\ Tail(s) \in Seq(S)
           /\ \A i \in DOMAIN Tail(s) : i + 1 \in DOMAIN s /\ i + 1 # 1 /\ Tail(s)[i] = s[i + 1]
  BY SMT, SMTT(60)

\* The id that Prepare hands out is fresh: no thread, queue or row knows it.
LEMMA PrepareOwnership ==
    ASSUME TypeOK, Ownership, LocalsSet, NEW c \in Clients, Prepare(c)
    PROVE  Ownership'
  <1>1. CASE arg' = arg /\ stamp' = stamp
    <2>1. Settle
      BY <1>1 DEF Settle, Prepare, Goto, sharedVars, Ownership, FreshInv, ResultInv, IsFinished, Held,
                  TypeOK, PcOK, LocalOK, Threads
    <2> QED BY <2>1, SettleOwnership
  <1>2. ASSUME NEW p \in Probes, NEW tick \in {clock, clock + 1}, stamp[p] = 0,
               stamp' = [stamp EXCEPT ![p] = tick], arg' = [arg EXCEPT ![c] = p],
               pc' = [pc EXCEPT ![c] = "create"]
        PROVE  Ownership'
    <2>1. UNCHANGED <<rows, queues, rec, runs>> /\ pc[c] = "prepare"
      BY DEF Prepare, sharedVars
    <2>2. \A x \in Probes : (Queued(x)' <=> Queued(x)) /\ (Held(x)' => Held(x) \/ x = p)
      BY <1>2, <2>1 DEF Queued, InQueue, Held, TypeOK, LocalOK, Threads
    <2>3. runs[p] = 0 /\ rows[p] = NoRow /\ ~ Held(p) /\ ~ Queued(p)
      BY <1>2 DEF Ownership, FreshInv
    <2>4. FreshInv'
      <3>1. clock \in Nat \ {0} /\ stamp'[p] = tick
        BY <1>2 DEF TypeOK, StoreOK
      <3>2. stamp'[p] # 0
        BY <1>2, <3>1, SMT, SMTT(60)
      <3> QED BY <1>2, <2>1, <2>2, <2>3, <3>2 DEF Ownership, FreshInv, TypeOK, StoreOK
    <2>5. HolderInv'
      BY <1>2, <2>1, <2>2, <2>3, SMT, SMTT(60) DEF Ownership, HolderInv, Held, TypeOK, LocalOK, Threads
    <2>6. QueueInv'
      BY <2>1, SMT, SMTT(60) DEF Ownership, QueueInv
    <2>7. RunInv'
      BY <1>2, <2>1, <2>2, <2>3 DEF Ownership, RunInv, TypeOK, PcOK, LocalOK, Threads
    <2>8. ResultInv'
      <3>1. ASSUME NEW x \in Probes, rows[x].result PROVE IsFinished(x)' /\ ~ Held(x)' /\ ~ Queued(x)'
        <4>0. ~ NoRow.result
          BY SMT, SMTT(60) DEF NoRow
        <4>1. x # p
          BY <2>3, <3>1, <4>0
        <4>2. IsFinished(x) /\ ~ Held(x) /\ ~ Queued(x)
          BY <3>1 DEF Ownership, ResultInv
        <4>3. IsFinished(x)'
          BY <2>1, <4>2 DEF IsFinished
        <4> QED BY <2>2, <4>1, <4>2, <4>3
      <3>2. \A t \in Threads : ~ rec'[t].result
        BY <2>1 DEF Ownership, ResultInv
      <3> QED BY <2>1, <3>1, <3>2 DEF ResultInv
    <2> QED BY <2>4, <2>5, <2>6, <2>7, <2>8 DEF Ownership
  <1> QED BY <1>1, <1>2 DEF Prepare, Goto

\* Put moves the id from the hands of the client to the end of a queue.
LEMMA PutOwnership ==
    ASSUME TypeOK, Ownership, LocalsSet, NEW c \in Clients, Put(c)
    PROVE  Ownership'
  <1> DEFINE p == arg[c]
             r == ref[c]
  <1>1. /\ p \in Probes /\ r \in QueueIds /\ pc[c] = "put"
        /\ UNCHANGED <<rows, stamp, rec, runs>>
        /\ arg' = [arg EXCEPT ![c] = None]
        /\ pc' = [pc EXCEPT ![c] = "idle"]
        /\ queues' = [queues EXCEPT ![r] = Append(@, p)]
    BY DEF Put, Goto, storeVars, LocalsSet, TypeOK, LocalOK, Threads
  <1> HIDE DEF p, r
  <1>2. ~ Queued(p) /\ runs[p] = 0 /\ ~ rows[p].result /\ stamp[p] # 0
    BY <1>1, SMT, SMTT(60) DEF p, Ownership, HolderInv, RunInv, ResultInv, FreshInv, Held, Threads, TypeOK, HistoryOK
  <1>3. \A t \in Threads : arg'[t] # p /\ (arg'[t] # None => arg'[t] = arg[t] /\ pc'[t] = pc[t])
    BY <1>1 DEF p, Ownership, HolderInv, Threads, TypeOK, LocalOK, PcOK
  <1>4. \A q \in QueueIds : \A i \in DOMAIN queues'[q] :
            \/ i \in DOMAIN queues[q] /\ queues'[q][i] = queues[q][i]
            \/ q = r /\ i = Len(queues[r]) + 1 /\ queues'[q][i] = p
    <2>1. p \in Probes \cup {None} /\ \A q \in QueueIds : queues[q] \in Seq(Probes \cup {None})
      BY <1>1 DEF TypeOK, SharedOK
    <2>2. \A q \in QueueIds : queues'[q] = IF q = r THEN Append(queues[r], p) ELSE queues[q]
      BY <1>1 DEF TypeOK, SharedOK
    <2> SUFFICES ASSUME NEW q \in QueueIds, NEW i \in DOMAIN queues'[q]
                 PROVE  \/ i \in DOMAIN queues[q] /\ queues'[q][i] = queues[q][i]
                        \/ q = r /\ i = Len(queues[r]) + 1 /\ queues'[q][i] = p
      OBVIOUS
    <2>3. CASE q # r
      BY <2>2, <2>3
    <2>4. CASE q = r
      <3>1. queues'[q] = Append(queues[r], p) /\ queues[r] \in Seq(Probes \cup {None})
        BY <1>1, <2>1, <2>2, <2>4
      <3> QED BY <2>1, <2>4, <3>1, AppendPlaces, SMT, SMTT(60)
    <2> QED BY <2>3, <2>4
  <1>5. \A x \in Probes : (Queued(x)' => Queued(x) \/ x = p) /\ (Held(x)' => Held(x) /\ x # p)
    BY <1>3, <1>4 DEF Queued, InQueue, Held, Threads
  <1>6. FreshInv'
    BY <1>1, <1>2, <1>5 DEF Ownership, FreshInv
  <1>7. HolderInv'
    BY <1>3, <1>5, SMT, SMTT(60) DEF Ownership, HolderInv, Threads, TypeOK, LocalOK
  <1>8. QueueInv'
    <2> SUFFICES ASSUME NEW q \in QueueIds, NEW s \in QueueIds,
                        NEW i \in DOMAIN queues'[q], NEW j \in DOMAIN queues'[s],
                        queues'[q][i] = queues'[s][j], queues'[q][i] # None
                 PROVE  q = s /\ i = j
      BY SMT, SMTT(60) DEF QueueInv
    <2>1. \A x \in QueueIds : \A k \in DOMAIN queues[x] : queues[x][k] # p
      BY <1>2 DEF Queued, InQueue
    <2>2. CASE queues'[q][i] = p
      <3>1. q = r /\ i = Len(queues[r]) + 1
        BY <1>4, <2>1, <2>2
      <3>2. s = r /\ j = Len(queues[r]) + 1
        BY <1>4, <2>1, <2>2
      <3> QED BY <3>1, <3>2
    <2>3. CASE queues'[q][i] # p
      <3>1. /\ i \in DOMAIN queues[q] /\ queues[q][i] = queues'[q][i]
            /\ j \in DOMAIN queues[s] /\ queues[s][j] = queues'[s][j]
        BY <1>4, <2>3
      <3> QED BY <3>1, SMT, SMTT(60) DEF Ownership, QueueInv
    <2> QED BY <2>2, <2>3
  <1>9. RunInv'
    BY <1>1, <1>2, <1>3, <1>5, SMT, SMTT(60) DEF Ownership, RunInv
  <1>10. ResultInv'
    BY <1>1, <1>2, <1>5 DEF Ownership, ResultInv, IsFinished
  <1> QED BY <1>6, <1>7, <1>8, <1>9, <1>10 DEF Ownership

\* Get moves the id from the head of a queue to the hands of the worker.
LEMMA GetOwnership ==
    ASSUME TypeOK, Ownership, NEW w \in Workers, Get(w)
    PROVE  Ownership'
  <1> DEFINE r == ref[w]
             p == Head(queues[r])
  <1>1. /\ r \in QueueIds /\ pc[w] = "get" /\ queues[r] # << >>
        /\ UNCHANGED <<rows, stamp, rec, runs>>
        /\ arg' = [arg EXCEPT ![w] = p]
        /\ pc' = [pc EXCEPT ![w] = IF p = None THEN "ending" ELSE "load"]
        /\ queues' = [queues EXCEPT ![r] = Tail(@)]
    BY DEF Get, Goto, storeVars, TypeOK, LocalOK, Threads
  <1>2. /\ p = queues[r][1] /\ 1 \in DOMAIN queues[r] /\ p \in Probes \cup {None}
        /\ \A i \in DOMAIN Tail(queues[r]) :
              i + 1 \in DOMAIN queues[r] /\ i + 1 # 1 /\ Tail(queues[r])[i] = queues[r][i + 1]
    BY <1>1, TailPlaces, SMT, SMTT(60) DEF TypeOK, SharedOK
  <1> HIDE DEF p, r
  <1>3. \A q \in QueueIds : \A i \in DOMAIN queues'[q] :
            \/ q # r /\ i \in DOMAIN queues[q] /\ queues'[q][i] = queues[q][i]
            \/ q = r /\ i \in Nat /\ i + 1 \in DOMAIN queues[q] /\ i + 1 # 1 /\ queues'[q][i] = queues[q][i + 1]
    BY <1>1, <1>2, SMT, SMTT(60) DEF TypeOK, SharedOK
  <1>4. p # None => Queued(p) /\ runs[p] = 0 /\ ~ rows[p].result /\ stamp[p] # 0 /\ ~ Held(p)
    <2> SUFFICES ASSUME p # None PROVE Queued(p) /\ runs[p] = 0 /\ ~ rows[p].result /\ stamp[p] # 0 /\ ~ Held(p)
      OBVIOUS
    <2>1. Queued(p) /\ p \in Probes
      BY <1>1, <1>2 DEF Queued, InQueue
    <2> QED BY <2>1, SMT, SMTT(60) DEF Ownership, HolderInv, RunInv, ResultInv, FreshInv, Held, TypeOK, HistoryOK
  <1>5. \A t \in Threads :
            \/ t = w /\ arg'[t] = p
            \/ t # w /\ arg'[t] = arg[t] /\ pc'[t] = pc[t]
    BY <1>1 DEF Threads, TypeOK, LocalOK, PcOK
  <1>6. \A x \in Probes : Queued(x)' => Queued(x) /\ x # p
    <2> SUFFICES ASSUME NEW x \in Probes, NEW q \in QueueIds, NEW i \in DOMAIN queues'[q], queues'[q][i] = x
                 PROVE  Queued(x) /\ x # p
      BY DEF Queued, InQueue
    <2>1. CASE q # r
      <3>1. i \in DOMAIN queues[q] /\ queues[q][i] = x
        BY <1>3, <2>1
      <3>2. Queued(x)
        BY <3>1 DEF Queued, InQueue
      <3>3. x # p
        <4>1. p = queues[r][1] /\ 1 \in DOMAIN queues[r] /\ r \in QueueIds /\ x # None
          BY <1>1, <1>2
        <4>2. QueueInv
          BY DEF Ownership
        <4> QED BY <2>1, <3>1, <4>1, <4>2 DEF QueueInv
      <3> QED BY <3>2, <3>3
    <2>2. CASE q = r
      <3>1. i + 1 \in DOMAIN queues[q] /\ queues[q][i + 1] = x /\ i + 1 # 1
        BY <1>3, <2>2
      <3>2. Queued(x)
        BY <3>1 DEF Queued, InQueue
      <3>3. x # p
        BY <1>1, <1>2, <2>2, <3>1, SMT, SMTT(60) DEF Ownership, QueueInv
      <3> QED BY <3>2, <3>3
    <2> QED BY <2>1, <2>2
  <1>7. \A x \in Probes : Held(x)' => Held(x) \/ x = p
    BY <1>5 DEF Held
  <1>8. FreshInv'
    BY <1>1, <1>4, <1>6, <1>7 DEF Ownership, FreshInv
  <1>9. HolderInv'
    <2>1. ASSUME NEW s \in Threads, NEW t \in Threads, arg'[s] = arg'[t], arg'[s] # None PROVE s = t
      BY <1>4, <1>5, <2>1 DEF Ownership, HolderInv, Held
    <2>2. ASSUME NEW t \in Threads, arg'[t] # None PROVE ~ Queued(arg[t])'
      <3>1. CASE t = w
        <4>1. arg'[t] = p /\ p \in Probes
          BY <1>2, <1>5, <2>2, <3>1
        <4> QED BY <1>6, <4>1 DEF Queued, InQueue
      <3>2. CASE t # w
        <4>1. arg'[t] = arg[t] /\ arg[t] \in Probes /\ ~ Queued(arg[t])
          BY <1>5, <2>2, <3>2 DEF Ownership, HolderInv, TypeOK, LocalOK
        <4> QED BY <1>6, <4>1 DEF Queued, InQueue
      <3> QED BY <3>1, <3>2
    <2> QED BY <2>1, <2>2 DEF HolderInv
  <1>10. QueueInv'
    <2> SUFFICES ASSUME NEW q \in QueueIds, NEW s \in QueueIds,
                        NEW i \in DOMAIN queues'[q], NEW j \in DOMAIN queues'[s],
                        queues'[q][i] = queues'[s][j], queues'[q][i] # None
                 PROVE  q = s /\ i = j
      BY DEF QueueInv
    <2> DEFINE a == IF q = r THEN i + 1 ELSE i
               b == IF s = r THEN j + 1 ELSE j
    <2>1. a \in DOMAIN queues[q] /\ queues'[q][i] = queues[q][a] /\ b \in DOMAIN queues[s] /\ queues'[s][j] = queues[s][b]
      BY <1>3
    <2>2. q = s /\ a = b
      <3>1. queues[q][a] = queues[s][b] /\ queues[q][a] # None
        BY <2>1
      <3> HIDE DEF a, b
      <3>2. QueueInv
        BY DEF Ownership
      <3>3. a \in DOMAIN queues[q] /\ b \in DOMAIN queues[s]
        BY <2>1
      <3> QED BY <3>1, <3>2, <3>3, SMT, SMTT(60) DEF QueueInv
    <2>3. CASE q = r
      <3>1. i \in Nat /\ j \in Nat /\ i + 1 = j + 1
        BY <1>3, <2>2, <2>3
      <3> QED BY <2>2, <3>1, SMT, SMTT(60)
    <2> QED BY <2>2, <2>3
  <1>11. RunInv'
    BY <1>1, <1>4, <1>5, <1>6, SMT, SMTT(60) DEF Ownership, RunInv
  <1>12. ResultInv'
    BY <1>1, <1>4, <1>6, <1>7 DEF Ownership, ResultInv, IsFinished
  <1> QED BY <1>8, <1>9, <1>10, <1>11, <1>12 DEF Ownership

\* RunProbe executes a probe that was never executed, and goes on to record it.
LEMMA RunProbeOwnership ==
    ASSUME TypeOK, Ownership, LocalsSet, NEW t \in Clients \cup Workers, RunProbe(t)
    PROVE  Ownership'
  <1>1. /\ pc[t] = "probe" /\ arg[t] \in Probes
        /\ UNCHANGED <<rows, stamp, queues, arg, rec>>
        /\ runs' = [runs EXCEPT ![arg[t]] = @ + 1]
        /\ pc' = [pc EXCEPT ![t] = IF t \in Workers THEN "reload" ELSE "finish"]
    BY DEF RunProbe, Goto, storeVars, sharedVars, LocalsSet, TypeOK, LocalOK, Threads
  <1>2. \A x \in Probes : (Queued(x)' <=> Queued(x)) /\ (Held(x)' <=> Held(x))
    BY <1>1 DEF Queued, InQueue, Held
  <1>3. runs[arg[t]] = 0 /\ ~ Queued(arg[t]) /\ stamp[arg[t]] # 0
    BY <1>1 DEF Ownership, HolderInv, RunInv, FreshInv, Held, Threads
  <1>4. \A x \in Probes : runs'[x] = IF x = arg[t] THEN 1 ELSE runs[x]
    BY <1>1, <1>3, SMT, SMTT(60) DEF TypeOK, HistoryOK
  <1>5. FreshInv'
    BY <1>1, <1>2, <1>3, <1>4 DEF Ownership, FreshInv
  <1>6. HolderInv'
    BY <1>1, <1>2 DEF Ownership, HolderInv, TypeOK, LocalOK
  <1>7. QueueInv'
    BY <1>1, SMT, SMTT(60) DEF Ownership, QueueInv
  <1>8. RunInv'
    <2> SUFFICES ASSUME NEW x \in Probes
                 PROVE  /\ runs'[x] <= 1 /\ (runs'[x] # 0 => ~ Queued(x)')
                        /\ runs'[x] # 0 => \A s \in Threads : arg'[s] = x => pc'[s] \in {"reload", "finish"}
      BY DEF RunInv
    <2>1. /\ runs[x] <= 1 /\ (runs[x] # 0 => ~ Queued(x))
          /\ runs[x] # 0 => \A s \in Threads : arg[s] = x => pc[s] \in {"reload", "finish"}
      BY DEF Ownership, RunInv
    <2>2. /\ t \in Threads /\ pc'[t] \in {"reload", "finish"}
          /\ \A s \in Threads : s # t => pc'[s] = pc[s]
      BY <1>1 DEF TypeOK, PcOK, Threads
    <2>3. 1 <= 1 /\ 1 # 0
      BY SMT, SMTT(60)
    <2>4. CASE x = arg[t]
      <3>1. \A s \in Threads : arg[s] = x => s = t
        BY <1>1, <2>2, <2>4 DEF Ownership, HolderInv
      <3> QED BY <1>1, <1>2, <1>3, <1>4, <2>2, <2>3, <2>4, <3>1
    <2>5. CASE x # arg[t]
      BY <1>1, <1>2, <1>4, <2>1, <2>2, <2>5
    <2> QED BY <2>4, <2>5
  <1>9. ResultInv'
    BY <1>1, <1>2 DEF Ownership, ResultInv, IsFinished
  <1> QED BY <1>5, <1>6, <1>7, <1>8, <1>9 DEF Ownership

\* The sentinel that Stop appends is no id.
LEMMA StopOwnership ==
    ASSUME TypeOK, Ownership, Stop
    PROVE  Ownership'
  <1>1. /\ UNCHANGED <<rows, stamp, arg, rec, runs>> /\ queueRef \in QueueIds
        /\ queues' = [queues EXCEPT ![queueRef] = Append(@, None)]
        /\ \A t \in Threads : pc[t] \in {"reload", "finish"} => pc'[t] = pc[t]
    BY DEF Stop, Goto, Serving, storeVars, localVars, TypeOK, SharedOK, PcOK, Threads
  <1>2. \A q \in QueueIds : \A i \in DOMAIN queues'[q] :
            \/ i \in DOMAIN queues[q] /\ queues'[q][i] = queues[q][i]
            \/ queues'[q][i] = None
    <2>1. \A q \in QueueIds : queues[q] \in Seq(Probes \cup {None})
      BY DEF TypeOK, SharedOK
    <2>2. \A q \in QueueIds : queues'[q] = IF q = queueRef THEN Append(queues[q], None) ELSE queues[q]
      BY <1>1 DEF TypeOK, SharedOK
    <2> SUFFICES ASSUME NEW q \in QueueIds, NEW i \in DOMAIN queues'[q]
                 PROVE  \/ i \in DOMAIN queues[q] /\ queues'[q][i] = queues[q][i]
                        \/ queues'[q][i] = None
      OBVIOUS
    <2>3. CASE q # queueRef
      BY <2>2, <2>3
    <2>4. CASE q = queueRef
      <3>1. queues'[q] = Append(queues[q], None) /\ queues[q] \in Seq(Probes \cup {None})
        BY <2>1, <2>2, <2>4
      <3>2. PICK s \in Seq(Probes \cup {None}) : s = queues[q]
        BY <3>1
      <3>3. PICK u : u = queues'[q] /\ u = Append(s, None)
        BY <3>1, <3>2
      <3>4. i \in DOMAIN u
        BY <3>3
      <3>5. (i \in DOMAIN s /\ u[i] = s[i]) \/ u[i] = None
        BY <3>2, <3>3, <3>4, AppendPlaces, SMT, SMTT(60)
      <3> QED BY <3>2, <3>3, <3>5
    <2> QED BY <2>3, <2>4
  <1>3. \A x \in Probes : (Queued(x)' => Queued(x)) /\ (Held(x)' <=> Held(x))
    BY <1>1, <1>2 DEF Queued, InQueue, Held
  <1>4. FreshInv' /\ ResultInv'
    BY <1>1, <1>3 DEF Ownership, FreshInv, ResultInv, IsFinished
  <1>5. HolderInv'
    BY <1>1, <1>3 DEF Ownership, HolderInv, TypeOK, LocalOK
  <1>6. QueueInv'
    BY <1>2, SMT, SMTT(60) DEF Ownership, QueueInv
  <1>7. RunInv'
    BY <1>1, <1>3 DEF Ownership, RunInv
  <1> QED BY <1>4, <1>5, <1>6, <1>7 DEF Ownership

\* The end of the process takes the ids from all hands and queues.
LEMMA ProcessEndOwnership ==
    ASSUME TypeOK, Ownership, ProcessEnd
    PROVE  Ownership'
  <1>1. /\ UNCHANGED <<rows, stamp, runs>>
        /\ \A t \in Threads : arg'[t] = None /\ rec'[t] = NoRow
        /\ \A q \in QueueIds : queues'[q] = << >>
    BY DEF ProcessEnd, storeVars
  <1>2. \A x \in Probes : ~ Queued(x)' /\ ~ Held(x)'
    BY <1>1, SMT, SMTT(60) DEF Queued, InQueue, Held
  <1>3. FreshInv' /\ RunInv'
    BY <1>1, <1>2 DEF Ownership, FreshInv, RunInv, Held
  <1>4. HolderInv' /\ QueueInv'
    BY <1>1, SMT, SMTT(60) DEF HolderInv, QueueInv
  <1>5. ResultInv'
    <2>1. \A x \in Probes : rows'[x].result => IsFinished(x)'
      BY <1>1 DEF Ownership, ResultInv, IsFinished
    <2>2. \A t \in Threads : ~ rec'[t].result
      BY <1>1, SMT, SMTT(60) DEF NoRow
    <2> QED BY <1>2, <2>1, <2>2 DEF ResultInv
  <1> QED BY <1>3, <1>4, <1>5 DEF Ownership

\* Every step keeps the ownership of ids: those that hand an id on have lemmas of
\* their own above, the others only drop one.
LEMMA NextOwnership == TypeOK /\ LocalsSet /\ LaunchInv /\ Ownership /\ [Next]_vars => Ownership'
  <1> SUFFICES ASSUME TypeOK, LocalsSet, LaunchInv, Ownership, [Next]_vars PROVE Ownership'
    OBVIOUS
  <1> USE DEF storeVars, sharedVars, localVars
  <1>0. /\ \A p \in Probes : rows[p].result => rows[p].status \in Terminal
        /\ \A t \in Threads : ~ rec[t].result
        /\ \A p \in Probes : stamp[p] = 0 => rows[p] = NoRow /\ \A t \in Threads : arg[t] # p
    BY DEF Ownership, ResultInv, FreshInv, IsFinished, Held
  <1>1. ASSUME NEW c \in Clients, Begin(c) PROVE Ownership'
    <2>1. Settle
      BY <1>0, <1>1 DEF Settle, Begin, Goto, TypeOK, PcOK, LocalOK, Threads
    <2> QED BY <2>1, SettleOwnership
  <1>2. ASSUME NEW c \in Clients, Enqueue(c) PROVE Ownership'
    <2>1. Settle
      BY <1>0, <1>2 DEF Settle, Enqueue, Goto, TypeOK, PcOK, LocalOK, Threads
    <2> QED BY <2>1, SettleOwnership
  <1>3. ASSUME NEW t \in Clients \cup {Main}, StartCheck(t) PROVE Ownership'
    <2>1. Settle
      BY <1>0, <1>3, SMT, SMTT(60) DEF Settle, StartCheck, AfterStart, Goto, TypeOK, PcOK, LocalOK, Threads
    <2> QED BY <2>1, SettleOwnership
  <1>4. ASSUME NEW t \in Clients \cup {Main}, Swap(t) PROVE Ownership'
    <2>1. Settle
      BY <1>0, <1>4 DEF Settle, Swap, Goto, TypeOK, PcOK, LocalOK, Threads
    <2> QED BY <2>1, SettleOwnership
  <1>5. ASSUME NEW t \in Clients \cup {Main}, Launch(t) PROVE Ownership'
    <2>1. Settle
      BY <1>0, <1>5 DEF Settle, Launch, AfterStart, LaunchInv, Goto, TypeOK, PcOK, LocalOK, Threads
    <2> QED BY <2>1, SettleOwnership
  <1>6. ASSUME NEW w \in Workers, Loop(w) PROVE Ownership'
    <2>1. Settle
      BY <1>0, <1>6 DEF Settle, Loop, Goto, TypeOK, PcOK, LocalOK, Threads
    <2> QED BY <2>1, SettleOwnership
  <1>7. ASSUME NEW w \in Workers, GetTimeout(w) PROVE Ownership'
    <2>1. Settle
      BY <1>0, <1>7 DEF Settle, GetTimeout, Goto, TypeOK, PcOK, LocalOK, Threads
    <2> QED BY <2>1, SettleOwnership
  <1>8. ASSUME NEW w \in Workers, TaskDone(w) PROVE Ownership'
    <2>1. Settle
      BY <1>0, <1>8 DEF Settle, TaskDone, Goto, TypeOK, PcOK, LocalOK, Threads
    <2> QED BY <2>1, SettleOwnership
  <1>9. ASSUME NEW c \in Clients, Prepare(c) PROVE Ownership'
    BY <1>9, PrepareOwnership
  <1>10. ASSUME NEW c \in Clients, Put(c) PROVE Ownership'
    BY <1>10, PutOwnership
  <1>11. ASSUME NEW w \in Workers, Get(w) PROVE Ownership'
    BY <1>11, GetOwnership
  <1>12. ASSUME NEW t \in Clients \cup Workers, RunProbe(t) PROVE Ownership'
    BY <1>12, RunProbeOwnership
  <1>13. CASE Stop
    BY <1>13, StopOwnership
  <1>14. CASE ProcessEnd
    BY <1>14, ProcessEndOwnership
  <1>15. CASE Boot
    <2>1. Settle
      BY <1>0, <1>15 DEF Settle, Boot, Goto, TypeOK, PcOK, LocalOK, Threads
    <2> QED BY <2>1, SettleOwnership
  <1>16. CASE UNCHANGED vars
    <2>1. Settle
      BY <1>0, <1>16 DEF Settle, vars, Goto, TypeOK, PcOK, LocalOK, Threads
    <2> QED BY <2>1, SettleOwnership
  <1>17. ASSUME NEW c \in Clients, Create(c) PROVE Ownership'
    <2>1. arg[c] \in Probes /\ pc[c] = "create" /\ UNCHANGED <<stamp, queues, runs>>
      BY <1>17 DEF Create, LocalsSet, TypeOK, LocalOK, Threads
    <2>2. \A p \in Probes : rows'[p] = rows[p] \/ (p = arg[c] /\ ~ rows'[p].result)
      BY <1>17, SMT, SMTT(60) DEF Create, NewRow, NoRow, TypeOK, StoreOK
    <2>3. \A x \in Threads : ~ rec'[x].result /\ arg'[x] \in {arg[x], None} /\ (x # c => pc'[x] = pc[x])
      BY <1>0, <1>17, SMT, SMTT(60) DEF Create, StoreFault, Goto, NewRow, NoRow, TypeOK, LocalOK, PcOK, Threads
    <2>4. Settle
      BY <1>0, <2>1, <2>2, <2>3 DEF Settle, Threads
    <2> QED BY <2>4, SettleOwnership
  <1>18. ASSUME NEW t \in Clients \cup {Main}, Recover(t) PROVE Ownership'
    <2>1. \A p \in Probes : rows'[p] = rows[p] \/ (rows[p] # NoRow /\ ~ rows[p].result /\ ~ rows'[p].result)
      <3>1. \A p \in Probes : rows[p] \in Row \cup {NoRow} /\ rows'[p] \in {rows[p], FailStale(p)}
        BY <1>18 DEF Recover, TypeOK, StoreOK
      <3>2. \A p \in Probes : IsActive(p) => rows[p] \in Row /\ rows[p] # NoRow /\ rows[p].result = FALSE
        BY <1>0, <3>1, SMT, SMTT(60) DEF IsActive, Active, Terminal, NoRow, Row
      <3>3. \A p \in Probes : IsActive(p) => FailStale(p).result = FALSE
        BY <3>2 DEF FailStale, Row
      <3> QED BY <3>1, <3>2, <3>3 DEF FailStale
    <2>4. Settle
      BY <1>0, <1>18, <2>1, SMT, SMTT(60) DEF Settle, Recover, StoreFault, Goto, TypeOK, PcOK, LocalOK, Threads
    <2> QED BY <2>4, SettleOwnership
  <1>19. ASSUME NEW t \in Clients \cup Workers, Finish(t) PROVE Ownership'
    <2>1. /\ arg[t] \in Probes /\ out[t] \in Results \cup {"exception"} /\ rec[t] \in Row \cup {NoRow}
          /\ UNCHANGED <<stamp, queues, runs>>
      BY <1>19 DEF Finish, LocalsSet, TypeOK, LocalOK, Threads
    <2>2. Completed(rec[t], out[t]).status \in Terminal
      BY <2>1 DEF Completed, Terminal, Row, NoRow
    <2>3. \A p \in Probes : rows'[p] = rows[p] \/ (p = arg[t] /\ rows'[p].status \in Terminal)
      BY <1>19, <2>2 DEF Finish, TypeOK, StoreOK
    <2>4. \A x \in Threads : arg'[x] # arg[t] /\ arg'[x] \in {arg[x], None} /\ (x # t => arg'[x] = arg[x] /\ pc'[x] = pc[x])
      BY <1>19, <2>1 DEF Finish, StoreFault, Goto, Ownership, HolderInv, TypeOK, LocalOK, PcOK, Threads
    <2>5. \A x \in Threads : ~ rec'[x].result
      BY <1>0, <1>19 DEF Finish, NoRow, TypeOK, LocalOK, Threads
    <2>6. ~ Queued(arg[t]) /\ stamp[arg[t]] # 0 /\ arg'[t] = None
      <3>1. HolderInv /\ t \in Threads /\ arg \in [Threads -> Probes \cup {None}]
        BY <1>0 DEF Ownership, TypeOK, LocalOK, Threads
      <3> QED BY <1>0, <1>19, <2>1, <3>1 DEF Finish, HolderInv
    <2>7. Settle
      BY <1>0, <2>1, <2>3, <2>4, <2>5, <2>6 DEF Settle
    <2> QED BY <2>7, SettleOwnership
  <1>20. ASSUME NEW t \in Clients \cup Workers, PruneSelect(t) PROVE Ownership'
    <2>4. Settle
      BY <1>0, <1>20 DEF Settle, PruneSelect, StoreFault, Goto, TypeOK, PcOK, LocalOK, Threads
    <2> QED BY <2>4, SettleOwnership
  <1>21. ASSUME NEW t \in Clients \cup Workers, PruneDelete(t) PROVE Ownership'
    <2>1. \A p \in Probes : rows'[p] = rows[p] \/ rows'[p] = NoRow
      BY <1>21 DEF PruneDelete, TypeOK, StoreOK
    <2>2. /\ UNCHANGED <<stamp, queues, runs, rec>> /\ pc[t] = "delete"
          /\ \A x \in Threads : arg'[x] \in {arg[x], None} /\ (x # t => pc'[x] = pc[x])
      BY <1>21 DEF PruneDelete, StoreFault, Goto, TypeOK, PcOK, LocalOK, Threads
    <2>3. NoRow.result = FALSE
      BY DEF NoRow
    <2>4. Settle
      BY <1>0, <2>1, <2>2, <2>3 DEF Settle
    <2> QED BY <2>4, SettleOwnership
  <1>22. ASSUME NEW w \in Workers, Load(w) PROVE Ownership'
    <2>1. arg[w] \in Probes /\ ~ rows[arg[w]].result /\ UNCHANGED <<rows, stamp, queues, runs>>
      BY <1>22 DEF Load, LocalsSet, Ownership, ResultInv, Held, TypeOK, LocalOK, Threads
    <2>2. \A x \in Threads : ~ rec'[x].result
      BY <1>0, <1>22, <2>1 DEF Load, TypeOK, LocalOK, Threads
    <2>3. \A x \in Threads : arg'[x] \in {arg[x], None} /\ (x # w => pc'[x] = pc[x])
      BY <1>22 DEF Load, StoreFault, Goto, TypeOK, PcOK, LocalOK, Threads
    <2>4. pc[w] \in {"reload", "finish"} /\ arg'[w] # None => pc'[w] = "finish"
      BY <1>22 DEF Load, StoreFault, Goto, TypeOK, PcOK, LocalOK, Threads
    <2>5. Settle
      BY <1>0, <2>1, <2>2, <2>3, <2>4 DEF Settle
    <2> QED BY <2>5, SettleOwnership
  <1>23. ASSUME NEW w \in Workers, Mark(w) PROVE Ownership'
    <2>1. arg[w] \in Probes /\ UNCHANGED <<stamp, queues, runs>>
      BY <1>23 DEF Mark, LocalsSet, TypeOK, LocalOK, Threads
    <2>2. \A p \in Probes : rows'[p] = rows[p] \/ (p = arg[w] /\ ~ rows'[p].result)
      BY <1>0, <1>23, SMT, SMTT(60) DEF Mark, Row, NoRow, TypeOK, StoreOK, LocalOK, Threads
    <2>3. \A x \in Threads : ~ rec'[x].result /\ arg'[x] \in {arg[x], None} /\ (x # w => pc'[x] = pc[x])
      BY <1>0, <1>23 DEF Mark, StoreFault, Goto, NoRow, TypeOK, LocalOK, PcOK, Threads
    <2>4. pc[w] = "mark"
      BY <1>23 DEF Mark
    <2>5. Settle
      BY <1>0, <2>1, <2>2, <2>3, <2>4 DEF Settle, Threads
    <2> QED BY <2>5, SettleOwnership
  <1> QED
    BY <1>1, <1>2, <1>3, <1>4, <1>5, <1>6, <1>7, <1>8, <1>9, <1>10, <1>11, <1>12,
       <1>13, <1>14, <1>15, <1>16, <1>17, <1>18, <1>19, <1>20, <1>21, <1>22, <1>23
       DEF Next, StarterStep, ProbeStep, RequestStep, WorkerStep

IndInv == TypeOK /\ LocalsSet /\ LaunchInv /\ Ownership

\* The inductive invariant holds in every reachable state.
LEMMA Inductive == Spec => []IndInv
  <1>1. Init => IndInv
    BY InitTypeOK, InitOwnership DEF IndInv, Init, LaunchInv, Threads
  <1>2. IndInv /\ [Next]_vars => IndInv'
    BY NextTypeOK, NextLocalsSet, NextLaunchInv, NextOwnership DEF IndInv
  <1> QED BY <1>1, <1>2, PTL DEF Spec

-----------------------------------------------------------------------------
(* The theorems.                                                            *)

\* In every reachable state of start, submit, run_sync, _run and stop the shared
\* attributes, the table and the locals of every thread have their types, and
\* every thread is at a place of the code that it runs.
THEOREM TypeCorrect == Spec => []TypeOK
  <1>1. IndInv => TypeOK
    BY DEF IndInv
  <1> QED BY <1>1, Inductive, PTL

\* _run and run_sync execute a probe at most once, however many workers start()
\* has created, whichever store calls fail, and across crashes and restarts.
THEOREM ExecutedAtMostOnce == Spec => []AtMostOnce
  <1>1. IndInv => AtMostOnce
    BY DEF IndInv, Ownership, RunInv, AtMostOnce
  <1> QED BY <1>1, Inductive, PTL

\* Once update_run has stored a result, no later update_run or fail_stale_runs
\* writes the row: it stays until prune_finished_runs deletes it.
THEOREM ResultsAreFinal == Spec => ResultIsFinal
  <1> DEFINE Keeps(p) == rows[p].result => rows'[p] \in {rows[p], NoRow}
  <1>1. ASSUME IndInv, [Next]_vars, NEW p \in Probes PROVE Keeps(p)
    <2> SUFFICES ASSUME rows[p].result PROVE rows'[p] \in {rows[p], NoRow}
      OBVIOUS
    <2>1. (\A t \in Threads : arg[t] # p) /\ rows[p].status \in Terminal
      BY <1>1 DEF IndInv, Ownership, ResultInv, Held, IsFinished
    <2>2. rows \in [Probes -> Row \cup {NoRow}]
      BY <1>1 DEF IndInv, TypeOK, StoreOK
    <2>3. ASSUME NEW c \in Clients, Create(c) PROVE rows'[p] = rows[p]
      BY <2>1, <2>2, <2>3 DEF Create, Threads
    <2>4. ASSUME NEW t \in Clients \cup {Main}, Recover(t) PROVE rows'[p] = rows[p]
      BY <2>1, <2>4 DEF Recover, FailStale, IsActive, Active, Terminal
    <2>5. ASSUME NEW t \in Clients \cup Workers, Finish(t) PROVE rows'[p] = rows[p]
      BY <2>1, <2>2, <2>5 DEF Finish, Threads
    <2>6. ASSUME NEW t \in Clients \cup Workers, PruneDelete(t) PROVE rows'[p] \in {rows[p], NoRow}
      BY <2>6 DEF PruneDelete
    <2>7. ASSUME NEW w \in Workers, Mark(w) PROVE rows'[p] = rows[p]
      BY <2>1, <2>2, <2>7 DEF Mark, Threads
    <2>8. CASE UNCHANGED rows
      BY <2>8
    <2> QED
      BY <1>1, <2>3, <2>4, <2>5, <2>6, <2>7, <2>8
         DEF Next, StarterStep, ProbeStep, RequestStep, WorkerStep, vars, storeVars,
             Begin, Prepare, Enqueue, Put, StartCheck, Swap, Launch, RunProbe, PruneSelect,
             Loop, Get, GetTimeout, Load, TaskDone, Boot, Stop, ProcessEnd
  <1>2. IndInv /\ [Next]_vars => [\A p \in Probes : Keeps(p)]_vars
    BY <1>1
  <1> QED BY <1>2, Inductive, PTL DEF Spec, ResultIsFinal

-----------------------------------------------------------------------------
(* Ids in hand.                                                             *)

\* Where a thread works for a probe.
AtWork(t) ==
    \/ pc[t] \in {"create", "enqueue", "put", "probe", "finish", "load", "mark", "reload"}
    \/ t \in Clients /\ pc[t] \in {"prune", "delete"} /\ kind[t] = "submit"

ArgInv == \A t \in Threads : arg[t] # None => AtWork(t)

\* A thread that leaves its work drops the id.
LEMMA NextArgInv == TypeOK /\ LocalsSet /\ LaunchInv /\ ArgInv /\ [Next]_vars => ArgInv'
  <1> SUFFICES ASSUME TypeOK, LocalsSet, LaunchInv, ArgInv, [Next]_vars PROVE ArgInv'
    OBVIOUS
  <1>0. /\ pc \in [Threads -> MainLabels \cup ClientLabels \cup WorkerLabels] /\ arg \in [Threads -> Probes \cup {None}]
        /\ kind \in [Clients -> {"submit", "sync"}]
    BY DEF TypeOK, PcOK, LocalOK
  <1> USE <1>0 DEF ArgInv, AtWork, Threads, sharedVars, localVars, Goto
  <1>1. ASSUME NEW c \in Clients, Begin(c) PROVE ArgInv'
    BY <1>1 DEF Begin
  <1>2. ASSUME NEW c \in Clients, Prepare(c) PROVE ArgInv'
    BY <1>2, SMT, SMTT(60) DEF Prepare
  <1>3. ASSUME NEW c \in Clients, Create(c) PROVE ArgInv'
    BY <1>3, SMT, SMTT(60) DEF Create, StoreFault, Raise
  <1>4. ASSUME NEW c \in Clients, Enqueue(c) PROVE ArgInv'
    BY <1>4 DEF Enqueue
  <1>5. ASSUME NEW c \in Clients, Put(c) PROVE ArgInv'
    BY <1>5 DEF Put
  <1>6. ASSUME NEW t \in Clients \cup {Main}, StartCheck(t) PROVE ArgInv'
    BY <1>6 DEF StartCheck, AfterStart
  <1>7. ASSUME NEW t \in Clients \cup {Main}, Recover(t) PROVE ArgInv'
    BY <1>7 DEF Recover, StoreFault, Raise
  <1>8. ASSUME NEW t \in Clients \cup {Main}, Swap(t) PROVE ArgInv'
    BY <1>8 DEF Swap
  <1>9. ASSUME NEW t \in Clients \cup {Main}, Launch(t) PROVE ArgInv'
    BY <1>9 DEF Launch, AfterStart, LaunchInv
  <1>10. ASSUME NEW t \in Clients \cup Workers, RunProbe(t) PROVE ArgInv'
    BY <1>10 DEF RunProbe
  <1>11. ASSUME NEW t \in Clients \cup Workers, Finish(t) PROVE ArgInv'
    <2>1. arg'[t] = None /\ kind' = kind /\ \A x \in Threads : x # t => arg'[x] = arg[x]
      BY <1>11 DEF Finish
    <2>2. \A x \in Threads : x # t => pc'[x] = pc[x]
      BY <1>11 DEF Finish, StoreFault
    <2> QED BY <2>1, <2>2
  <1>12. ASSUME NEW t \in Clients \cup Workers, PruneSelect(t) PROVE ArgInv'
    BY <1>12 DEF PruneSelect, StoreFault, AfterPrune
  <1>13. ASSUME NEW t \in Clients \cup Workers, PruneDelete(t) PROVE ArgInv'
    BY <1>13 DEF PruneDelete, StoreFault, AfterPrune
  <1>14. ASSUME NEW w \in Workers, Loop(w) PROVE ArgInv'
    BY <1>14 DEF Loop
  <1>15. ASSUME NEW w \in Workers, Get(w) PROVE ArgInv'
    BY <1>15 DEF Get
  <1>16. ASSUME NEW w \in Workers, GetTimeout(w) PROVE ArgInv'
    BY <1>16 DEF GetTimeout
  <1>17. ASSUME NEW w \in Workers, Load(w) PROVE ArgInv'
    BY <1>17, SMT, SMTT(60) DEF Load, StoreFault
  <1>18. ASSUME NEW w \in Workers, Mark(w) PROVE ArgInv'
    BY <1>18 DEF Mark, StoreFault
  <1>19. ASSUME NEW w \in Workers, TaskDone(w) PROVE ArgInv'
    BY <1>19 DEF TaskDone
  <1>20. CASE Boot
    BY <1>20 DEF Boot
  <1>21. CASE Stop
    <2>1. arg' = arg /\ kind' = kind /\ pc[Main] = "serving" /\ \A x \in Threads : x # Main => pc'[x] = pc[x]
      BY <1>21 DEF Stop, Serving
    <2>2. arg[Main] = None
      BY <2>1 DEF Threads
    <2> QED BY <2>1, <2>2
  <1>22. CASE ProcessEnd
    BY <1>22 DEF ProcessEnd
  <1>23. CASE UNCHANGED vars
    BY <1>23 DEF vars
  <1> QED
    BY <1>1, <1>2, <1>3, <1>4, <1>5, <1>6, <1>7, <1>8, <1>9, <1>10, <1>11, <1>12,
       <1>13, <1>14, <1>15, <1>16, <1>17, <1>18, <1>19, <1>20, <1>21, <1>22, <1>23
       DEF Next, StarterStep, ProbeStep, RequestStep, WorkerStep

-----------------------------------------------------------------------------
(* A process whose store has not failed.                                    *)

\* Main is on its way to the first worker.
Starting == pc[Main] \in {"down", "start", "recover", "swap", "launch"}

\* There is no worker but the one that Main creates, and it lives until stop().
WorkerInv ==
    /\ pc[Main] # "aborted"
    /\ \A w \in Workers : w # queueRef => pc[w] = "unborn"
    /\ ~ Serving => \A c \in Clients : pc[c] = "idle"
    /\ Starting => /\ \A t \in Threads : arg[t] = None /\ removable[t] = {}
                   /\ \A q \in QueueIds : queues[q] = <<>> /\ unfinished[q] = 0
    /\ pc[Main] \in {"down", "start", "recover", "swap"} => queueRef = None /\ thread = None
    /\ pc[Main] = "launch" => queueRef = ref[Main] /\ thread = queueRef /\ ~ stopped
    /\ Serving => /\ queueRef \in Workers /\ thread = queueRef /\ ~ stopped
                  /\ Alive(thread) /\ pc[thread] # "ending"
    /\ \A c \in Clients : pc[c] \notin {"recover", "swap", "launch"}

Busy(w) == pc[w] \in {"load", "mark", "probe", "reload", "finish", "prune", "delete", "done"}

\* The queue counts the jobs in it and the one that the worker is at.
TaskInv ==
    /\ \A c \in Clients : pc[c] = "put" => ref[c] = queueRef
    /\ \A w \in Workers : pc[w] = "get" => ref[w] = queueRef
    /\ Serving => /\ unfinished[queueRef] = Len(queues[queueRef]) + IF Busy(queueRef) THEN 1 ELSE 0
                  /\ ~ InQueue(queueRef, None)

\* What the row of a probe says while a thread has its id.
Expected(l) ==
    IF l = "create" THEN "absent" ELSE IF l \in {"probe", "reload", "finish"} THEN "running" ELSE "queued"

RowInv ==
    /\ \A t \in Threads : arg[t] # None => rows[arg[t]].status = Expected(pc[t])
    /\ \A p \in Probes : Queued(p) => rows[p].status = "queued"
    /\ \A t \in Threads : \A p \in removable[t] :
        rows[p].status \notin Active /\ stamp[p] # 0 /\ ~ Held(p) /\ ~ Queued(p)
    /\ pc[Main] \in {"swap", "launch", "serving"} =>
        \A p \in Probes : IsActive(p) => InQueue(queueRef, p) \/ Held(p)

Orderly == WorkerInv /\ TaskInv /\ RowInv

Calm == faults = 0 => Orderly

\* A step of a process whose store has not failed, and does not in this step.
Quiet == IndInv /\ ArgInv /\ WorkerInv /\ TaskInv /\ RowInv /\ faults = 0 /\ faults' = 0

LEMMA GotoFacts ==
    ASSUME PcOK, NEW t \in Threads, NEW l, Goto(t, l)
    PROVE  pc'[t] = l /\ \A x \in Threads : x # t => pc'[x] = pc[x]
  BY DEF PcOK, Goto

\* No store call fails in a quiet step.
LEMMA NoFault ==
    ASSUME Quiet, NEW t \in Threads
    PROVE  ~ StoreFault(t)
  BY SMT, SMTT(60) DEF Quiet, StoreFault

\* Requests are served, and jobs are done, only when the service is up.
LEMMA QuietFacts ==
    ASSUME Quiet
    PROVE  /\ \A c \in Clients : pc[c] # "idle" => Serving
           /\ \A w \in Workers : pc[w] \notin {"unborn", "created"} => w = queueRef /\ ~ Starting
  <1>1. \A c \in Clients : pc[c] # "idle" => Serving
    BY DEF Quiet, WorkerInv
  <1>2. ASSUME NEW w \in Workers, pc[w] \notin {"unborn", "created"}
        PROVE  w = queueRef /\ ~ Starting
    <2>1. w = queueRef
      BY <1>2 DEF Quiet, WorkerInv
    <2>2. pc[Main] \notin {"down", "start", "recover", "swap"}
      BY <2>1 DEF Quiet, WorkerInv
    <2>3. pc[Main] # "launch"
      <3>. SUFFICES ASSUME pc[Main] = "launch" PROVE FALSE
        OBVIOUS
      <3>1. queueRef = ref[Main] /\ pc[ref[Main]] = "created"
        BY DEF Quiet, WorkerInv, IndInv, LaunchInv, Threads
      <3>. QED  BY <1>2, <2>1, <3>1
    <2>. QED  BY <2>1, <2>2, <2>3 DEF Starting
  <1>. QED  BY <1>1, <1>2

\* A request or the worker goes on with its call.
Moves(t) ==
    /\ UNCHANGED <<thread, stopped, queueRef>>
    /\ \A x \in Threads : x # t => pc'[x] = pc[x]
    /\ t \in Clients => Serving /\ pc'[t] \notin {"recover", "swap", "launch"}
    /\ t \in Workers => /\ t = queueRef /\ ~ Starting
                        /\ Serving => pc'[t] \notin {"unborn", "created", "dead", "ending"}

LEMMA MovesWorker ==
    ASSUME Quiet, NEW t \in Clients \cup Workers, Moves(t)
    PROVE  WorkerInv'
  <1>1. pc'[Main] = pc[Main] /\ UNCHANGED <<thread, stopped, queueRef>>
    BY DEF Moves, Threads
  <1>2. Serving' = Serving /\ Starting' = Starting /\ ~ Starting
    <2>1. ~ Starting
      BY DEF Moves, Serving, Starting
    <2>. QED  BY <1>1, <2>1 DEF Serving, Starting
  <1>3. \A w \in Workers : w # queueRef => pc'[w] = "unborn"
    BY DEF Moves, Quiet, WorkerInv, Threads
  <1>4. ASSUME ~ Serving, NEW c \in Clients
        PROVE  pc'[c] = "idle"
    BY <1>4 DEF Moves, Quiet, WorkerInv, Threads
  <1>5. \A c \in Clients : pc'[c] \notin {"recover", "swap", "launch"}
    BY DEF Moves, Quiet, WorkerInv, Threads
  <1>6. pc[Main] # "aborted" /\ pc[Main] \notin {"down", "start", "recover", "swap", "launch"}
    BY <1>2 DEF Quiet, WorkerInv, Starting
  <1>7. ASSUME Serving
        PROVE  /\ queueRef \in Workers /\ thread = queueRef /\ ~ stopped
               /\ Alive(thread)' /\ pc'[thread] # "ending"
    <2>1. queueRef \in Workers /\ thread = queueRef /\ ~ stopped /\ Alive(thread) /\ pc[thread] # "ending"
      BY <1>7 DEF Quiet, WorkerInv
    <2>2. CASE t = thread
      BY <1>1, <1>7, <2>1, <2>2 DEF Moves, Alive
    <2>3. CASE t # thread
      <3>1. pc'[thread] = pc[thread]
        BY <2>1, <2>3 DEF Moves, Threads
      <3>. QED  BY <1>1, <2>1, <3>1 DEF Alive
    <2>. QED  BY <2>2, <2>3
  <1>. QED  BY <1>1, <1>2, <1>3, <1>4, <1>5, <1>6, <1>7 DEF WorkerInv

LEMMA MovesFrame ==
    ASSUME Quiet, NEW t \in Clients \cup Workers, Moves(t)
    PROVE  /\ UNCHANGED queueRef /\ pc'[Main] = pc[Main] /\ Serving' = Serving
           /\ pc[Main] \notin {"swap", "launch"}
  <1>1. UNCHANGED queueRef /\ pc'[Main] = pc[Main]
    BY DEF Moves, Threads
  <1>2. pc[Main] \notin {"swap", "launch"}
    BY DEF Moves, Serving, Starting
  <1>. QED  BY <1>1, <1>2 DEF Serving

LEMMA MovesTask ==
    ASSUME Quiet, NEW t \in Clients \cup Workers, Moves(t), UNCHANGED <<queues, unfinished, ref>>,
           pc'[t] \notin {"put", "get"}, t \in Workers /\ Serving => Busy(t) /\ Busy(t)'
    PROVE  TaskInv'
  <1>1. UNCHANGED queueRef /\ Serving' = Serving
    BY MovesFrame
  <1>2. \A c \in Clients : pc'[c] = "put" => ref'[c] = queueRef
    BY DEF Moves, Quiet, TaskInv, Threads
  <1>3. \A w \in Workers : pc'[w] = "get" => ref'[w] = queueRef
    BY DEF Moves, Quiet, TaskInv, Threads
  <1>4. ASSUME Serving
        PROVE  Busy(queueRef)' <=> Busy(queueRef)
    <2>1. queueRef \in Workers
      BY <1>4 DEF Quiet, WorkerInv
    <2>2. CASE t = queueRef
      BY <1>1, <1>4, <2>1, <2>2 DEF Busy
    <2>3. CASE t # queueRef
      BY <1>1, <2>1, <2>3 DEF Moves, Threads, Busy
    <2>. QED  BY <2>2, <2>3
  <1>5. ASSUME Serving
        PROVE  /\ unfinished'[queueRef] = Len(queues'[queueRef]) + IF Busy(queueRef)' THEN 1 ELSE 0
               /\ ~ InQueue(queueRef, None)'
    <2>1. /\ unfinished[queueRef] = Len(queues[queueRef]) + IF Busy(queueRef) THEN 1 ELSE 0
          /\ ~ InQueue(queueRef, None)
      BY <1>5 DEF Quiet, TaskInv
    <2>2. ~ InQueue(queueRef, None)'
      BY <1>1, <2>1 DEF InQueue
    <2>. QED  BY <1>4, <1>5, <2>1, <2>2
  <1>. QED  BY <1>1, <1>2, <1>3, <1>5 DEF TaskInv

\* Nobody has the id of a finished run.
LEMMA FinishedFacts ==
    ASSUME Quiet, NEW p \in Probes, IsFinished(p)
    PROVE  rows[p].status \notin Active /\ stamp[p] # 0 /\ ~ Held(p) /\ ~ Queued(p)
  <1>1. rows[p].status \notin {"absent", "queued", "running"}
    BY DEF IsFinished, Terminal
  <1>2. rows[p] # NoRow
    BY <1>1, SMT, SMTT(60) DEF NoRow
  <1>3. stamp[p] # 0
    BY <1>2 DEF Quiet, IndInv, Ownership, FreshInv
  <1>4. ~ Queued(p)
    BY <1>1 DEF Quiet, RowInv
  <1>5. ASSUME NEW t \in Threads
        PROVE  arg[t] # p
    <2>1. p # None
      OBVIOUS
    <2>2. Expected(pc[t]) \in {"absent", "queued", "running"}
      BY DEF Expected
    <2>3. arg[t] # None => rows[arg[t]].status = Expected(pc[t])
      BY DEF Quiet, RowInv
    <2>. QED  BY <1>1, <2>1, <2>2, <2>3
  <1>. QED  BY <1>1, <1>3, <1>4, <1>5 DEF Active, Held

LEMMA MovesRows ==
    ASSUME Quiet, NEW t \in Clients \cup Workers, Moves(t), UNCHANGED <<rows, stamp, queues, arg>>,
           Expected(pc'[t]) = Expected(pc[t]) \/ arg[t] = None,
           \A x \in Threads : removable'[x] = removable[x] \/ \A p \in removable'[x] : p \in Probes /\ IsFinished(p)
    PROVE  RowInv'
  <1>1. UNCHANGED queueRef /\ pc'[Main] = pc[Main]
    BY MovesFrame
  <1>2. ASSUME NEW p
        PROVE  (Held(p)' <=> Held(p)) /\ (Queued(p)' <=> Queued(p)) /\ (InQueue(queueRef, p)' <=> InQueue(queueRef, p))
    BY <1>1 DEF Held, Queued, InQueue
  <1>3. ASSUME NEW x \in Threads, arg'[x] # None
        PROVE  rows'[arg'[x]].status = Expected(pc'[x])
    <2>1. rows[arg[x]].status = Expected(pc[x])
      BY <1>3 DEF Quiet, RowInv
    <2>2. Expected(pc'[x]) = Expected(pc[x])
      BY <1>3 DEF Moves
    <2>. QED  BY <2>1, <2>2
  <1>4. \A p \in Probes : Queued(p)' => rows'[p].status = "queued"
    BY <1>2 DEF Quiet, RowInv
  <1>5. ASSUME NEW x \in Threads, NEW p \in removable'[x]
        PROVE  rows'[p].status \notin Active /\ stamp'[p] # 0 /\ ~ Held(p)' /\ ~ Queued(p)'
    <2>1. CASE p \in removable[x]
      BY <1>2, <2>1 DEF Quiet, RowInv
    <2>2. CASE p \in Probes /\ IsFinished(p)
      <3>1. rows[p].status \notin Active /\ stamp[p] # 0 /\ ~ Held(p) /\ ~ Queued(p)
        BY <2>2, FinishedFacts
      <3>. QED  BY <1>2, <3>1
    <2>. QED  BY <1>5, <2>1, <2>2
  <1>6. pc[Main] \in {"swap", "launch", "serving"} =>
          \A p \in Probes : IsActive(p)' => InQueue(queueRef, p)' \/ Held(p)'
    BY <1>2 DEF Quiet, RowInv, IsActive
  <1>. QED  BY <1>1, <1>3, <1>4, <1>5, <1>6 DEF RowInv

\* A thread writes the row of its own probe.
LEMMA WriteRows ==
    ASSUME Quiet, NEW t \in Clients \cup Workers, Moves(t), UNCHANGED <<stamp, queues, removable>>,
           NEW p \in Probes, arg[t] = p, \A q \in Probes : q # p => rows'[q] = rows[q],
           \A x \in Threads : x # t => arg'[x] = arg[x],
           \/ arg'[t] = p /\ rows'[p].status = Expected(pc'[t])
           \/ arg'[t] = None /\ rows'[p].status \in Terminal
    PROVE  RowInv'
  <1>1. UNCHANGED queueRef /\ pc'[Main] = pc[Main]
    BY MovesFrame
  <1>2. /\ \A q : Queued(q)' <=> Queued(q)
        /\ \A q : InQueue(queueRef, q)' <=> InQueue(queueRef, q)
        /\ \A q : q # p /\ q # None => (Held(q)' <=> Held(q))
    <2>1. (\A q : Queued(q)' <=> Queued(q)) /\ (\A q : InQueue(queueRef, q)' <=> InQueue(queueRef, q))
      BY <1>1 DEF Queued, InQueue
    <2>2. ASSUME NEW q, q # p, q # None
          PROVE  Held(q)' <=> Held(q)
      BY <2>2 DEF Held, Threads
    <2>. QED  BY <2>1, <2>2
  <1>3. p # None /\ t \in Threads
    BY DEF Threads
  <1>4. (\A x \in Threads : x # t => arg[x] # p) /\ ~ Queued(p)
    BY <1>3 DEF Quiet, IndInv, Ownership, HolderInv
  <1>5. \A x \in Threads : arg[x] \in Probes \cup {None}
    BY DEF Quiet, IndInv, TypeOK, LocalOK
  <1>6. ASSUME NEW x \in Threads, arg'[x] # None
        PROVE  rows'[arg'[x]].status = Expected(pc'[x])
    <2>1. CASE x = t
      BY <1>3, <1>6, <2>1
    <2>2. CASE x # t
      <3>1. arg'[x] = arg[x] /\ arg[x] # p /\ arg[x] \in Probes /\ pc'[x] = pc[x]
        BY <1>4, <1>5, <1>6, <2>2 DEF Moves
      <3>2. rows[arg[x]].status = Expected(pc[x])
        BY <1>6, <3>1 DEF Quiet, RowInv
      <3>. QED  BY <3>1, <3>2
    <2>. QED  BY <2>1, <2>2
  <1>7. ASSUME NEW q \in Probes, Queued(q)'
        PROVE  rows'[q].status = "queued"
    <2>1. Queued(q) /\ q # p
      BY <1>2, <1>4, <1>7
    <2>. QED  BY <2>1 DEF Quiet, RowInv
  <1>8. ASSUME NEW x \in Threads, NEW q \in removable'[x]
        PROVE  rows'[q].status \notin Active /\ stamp'[q] # 0 /\ ~ Held(q)' /\ ~ Queued(q)'
    <2>1. rows[q].status \notin Active /\ stamp[q] # 0 /\ ~ Held(q) /\ ~ Queued(q)
      BY <1>8 DEF Quiet, RowInv
    <2>2. q # p
      BY <1>3, <2>1 DEF Held
    <2>3. q \in Probes /\ q # None
      <3>1. removable \in [Threads -> SUBSET Probes] /\ q \in removable[x]
        BY <1>8 DEF Quiet, IndInv, TypeOK, LocalOK
      <3>. QED  BY <3>1, SMT, SMTT(60)
    <2>. QED  BY <1>2, <2>1, <2>2, <2>3
  <1>9. ASSUME pc[Main] \in {"swap", "launch", "serving"}, NEW q \in Probes, IsActive(q)'
        PROVE  InQueue(queueRef, q)' \/ Held(q)'
    <2>1. CASE q # p
      <3>1. IsActive(q)
        BY <1>9, <2>1 DEF IsActive
      <3>2. InQueue(queueRef, q) \/ Held(q)
        BY <1>9, <3>1 DEF Quiet, RowInv
      <3>3. q # None
        OBVIOUS
      <3>. QED  BY <1>2, <2>1, <3>2, <3>3
    <2>2. CASE q = p
      <3>1. rows'[p].status \notin Terminal
        BY <1>9, <2>2 DEF IsActive, Active, Terminal
      <3>. QED  BY <1>3, <2>2, <3>1 DEF Held
    <2>. QED  BY <2>1, <2>2
  <1>. QED  BY <1>1, <1>6, <1>7, <1>8, <1>9 DEF RowInv

LEMMA PlaceFacts ==
    ASSUME Quiet, NEW t \in Clients \cup Workers, pc[t] \notin {"idle", "unborn", "created"}
    PROVE  /\ t \in Clients => Serving
           /\ t \in Workers => t = queueRef /\ ~ Starting
           /\ t \in Threads /\ t # Main /\ PcOK
  <1>1. (t \in Clients => Serving) /\ (t \in Workers => t = queueRef /\ ~ Starting)
    BY QuietFacts
  <1>2. t \in Threads /\ t # Main
    BY DEF Threads
  <1>3. PcOK
    BY DEF Quiet, IndInv, TypeOK
  <1>. QED  BY <1>1, <1>2, <1>3

\* The probe of a thread that works for one, and its row.
LEMMA JobFacts ==
    ASSUME Quiet, NEW t \in Clients \cup Workers,
           pc[t] \in {"create", "enqueue", "put", "probe", "finish", "load", "mark", "reload"}
    PROVE  /\ arg[t] \in Probes /\ arg[t] # None /\ rows[arg[t]].status = Expected(pc[t])
           /\ pc[t] # "create" => Present(arg[t])
  <1>1. t \in Threads
    BY DEF Threads
  <1>2. arg[t] \in Probes /\ arg[t] # None
    <2>1. arg[t] \in Probes \cup {None}
      BY <1>1 DEF Quiet, IndInv, TypeOK, LocalOK
    <2>2. arg[t] # None
      BY <1>1 DEF Quiet, IndInv, LocalsSet
    <2>. QED  BY <2>1, <2>2
  <1>3. rows[arg[t]].status = Expected(pc[t])
    <2>1. \A x \in Threads : arg[x] # None => rows[arg[x]].status = Expected(pc[x])
      BY DEF Quiet, RowInv
    <2>. QED  BY <1>1, <1>2, <2>1
  <1>4. ASSUME pc[t] # "create"
        PROVE  rows[arg[t]].status # "absent"
    BY <1>3, <1>4 DEF Expected
  <1>5. NoRow.status = "absent"
    BY DEF NoRow
  <1>6. pc[t] # "create" => Present(arg[t])
    BY <1>4, <1>5 DEF Present
  <1>. QED  BY <1>2, <1>3, <1>6

LEMMA BeginOrderly ==
    ASSUME Quiet, NEW c \in Clients, Begin(c)
    PROVE  Orderly'
  <1>1. Serving /\ pc[c] = "idle" /\ UNCHANGED <<thread, stopped, queueRef, queues, unfinished, ref, rows, stamp, arg, removable>>
    BY DEF Begin, sharedVars, storeVars
  <1>2. PICK l \in {"start", "prepare"} : Goto(c, l)
    BY DEF Begin
  <1>3. c \in Threads /\ c \notin Workers /\ PcOK
    BY DEF Threads, Quiet, IndInv, TypeOK
  <1>4. pc'[c] = l /\ \A x \in Threads : x # c => pc'[x] = pc[x]
    BY <1>2, <1>3, GotoFacts
  <1>5. Moves(c)
    BY <1>1, <1>3, <1>4 DEF Moves
  <1>6. WorkerInv'
    BY <1>5, MovesWorker
  <1>7. TaskInv'
    BY <1>1, <1>3, <1>4, <1>5, MovesTask
  <1>8. RowInv'
    <2>1. Expected(pc'[c]) = Expected(pc[c])
      BY <1>1, <1>4 DEF Expected
    <2>. QED  BY <1>1, <1>5, <2>1, MovesRows
  <1>. QED  BY <1>6, <1>7, <1>8 DEF Orderly

LEMMA StartCheckOrderly ==
    ASSUME Quiet, NEW c \in Clients, StartCheck(c)
    PROVE  Orderly'
  <1>1. pc[c] = "start" /\ UNCHANGED <<thread, stopped, queueRef, queues, unfinished, ref, rows, stamp, arg, removable>>
    BY DEF StartCheck, localVars, storeVars
  <1>2. Serving /\ c \in Threads /\ c # Main /\ PcOK
    BY <1>1, PlaceFacts
  <1>3. thread # None /\ Alive(thread)
    BY <1>2 DEF Quiet, WorkerInv
  <1>4. Goto(c, "prepare")
    BY <1>2, <1>3 DEF StartCheck, AfterStart
  <1>5. pc'[c] = "prepare" /\ \A x \in Threads : x # c => pc'[x] = pc[x]
    BY <1>2, <1>4, GotoFacts
  <1>6. c \notin Workers
    OBVIOUS
  <1>7. Moves(c)
    BY <1>1, <1>2, <1>5, <1>6 DEF Moves
  <1>8. WorkerInv'
    BY <1>7, MovesWorker
  <1>9. TaskInv'
    BY <1>1, <1>5, <1>6, <1>7, MovesTask
  <1>10. RowInv'
    <2>1. Expected(pc'[c]) = Expected(pc[c])
      BY <1>1, <1>5 DEF Expected
    <2>. QED  BY <1>1, <1>7, <2>1, MovesRows
  <1>. QED  BY <1>8, <1>9, <1>10 DEF Orderly

LEMMA RunProbeOrderly ==
    ASSUME Quiet, NEW t \in Clients \cup Workers, RunProbe(t)
    PROVE  Orderly'
  <1>1. pc[t] = "probe" /\ UNCHANGED <<thread, stopped, queueRef, queues, unfinished, ref, rows, stamp, arg, removable>>
    BY DEF RunProbe, sharedVars, storeVars
  <1>2. /\ t \in Clients => Serving
        /\ t \in Workers => t = queueRef /\ ~ Starting
        /\ t \in Threads /\ t # Main /\ PcOK
    BY <1>1, PlaceFacts
  <1>3. PICK l \in {"reload", "finish"} : Goto(t, l)
    BY DEF RunProbe
  <1>4. pc'[t] = l /\ \A x \in Threads : x # t => pc'[x] = pc[x]
    BY <1>2, <1>3, GotoFacts
  <1>5. Moves(t)
    BY <1>1, <1>2, <1>4 DEF Moves
  <1>6. WorkerInv'
    BY <1>5, MovesWorker
  <1>7. TaskInv'
    <2>1. Busy(t) /\ Busy(t)' /\ pc'[t] \notin {"put", "get"}
      BY <1>1, <1>4 DEF Busy
    <2>. QED  BY <1>1, <1>5, <2>1, MovesTask
  <1>8. RowInv'
    <2>1. Expected(pc'[t]) = Expected(pc[t])
      BY <1>1, <1>4 DEF Expected
    <2>. QED  BY <1>1, <1>5, <2>1, MovesRows
  <1>. QED  BY <1>6, <1>7, <1>8 DEF Orderly

LEMMA LoadOrderly ==
    ASSUME Quiet, NEW w \in Workers, Load(w)
    PROVE  Orderly'
  <1>1. pc[w] \in {"load", "reload"} /\ UNCHANGED <<thread, stopped, queueRef, queues, unfinished, ref, rows, stamp, removable>>
    BY DEF Load, sharedVars, storeVars
  <1>2. w = queueRef /\ ~ Starting /\ w \in Threads /\ w \notin Clients /\ PcOK
    BY <1>1, PlaceFacts
  <1>3. Present(arg[w]) /\ ~ StoreFault(w)
    BY <1>1, <1>2, JobFacts, NoFault
  <1>4. UNCHANGED arg /\ Goto(w, IF pc[w] = "load" THEN "mark" ELSE "finish")
    BY <1>3 DEF Load
  <1>5. pc'[w] = (IF pc[w] = "load" THEN "mark" ELSE "finish") /\ \A x \in Threads : x # w => pc'[x] = pc[x]
    BY <1>2, <1>4, GotoFacts
  <1>6. Moves(w)
    <2>1. pc'[w] \in {"mark", "finish"}
      BY <1>5
    <2>. QED  BY <1>1, <1>2, <1>5, <2>1 DEF Moves
  <1>7. WorkerInv'
    BY <1>6, MovesWorker
  <1>8. TaskInv'
    <2>1. Busy(w) /\ Busy(w)' /\ pc'[w] \notin {"put", "get"}
      BY <1>1, <1>5 DEF Busy
    <2>. QED  BY <1>1, <1>6, <2>1, MovesTask
  <1>9. RowInv'
    <2>1. Expected(pc'[w]) = Expected(pc[w])
      BY <1>1, <1>5 DEF Expected
    <2>. QED  BY <1>1, <1>4, <1>6, <2>1, MovesRows
  <1>. QED  BY <1>7, <1>8, <1>9 DEF Orderly

LEMMA MarkOrderly ==
    ASSUME Quiet, NEW w \in Workers, Mark(w)
    PROVE  Orderly'
  <1>1. pc[w] = "mark" /\ UNCHANGED <<thread, stopped, queueRef, queues, unfinished, ref, stamp, removable>>
    BY DEF Mark, sharedVars
  <1>2. w = queueRef /\ ~ Starting /\ w \in Threads /\ w \notin Clients /\ PcOK
    BY <1>1, PlaceFacts
  <1>3. arg[w] \in Probes /\ Present(arg[w]) /\ ~ StoreFault(w)
    BY <1>1, <1>2, JobFacts, NoFault
  <1>4. UNCHANGED arg /\ Goto(w, "probe") /\ rows' = [rows EXCEPT ![arg[w]] = [rec[w] EXCEPT !.status = "running"]]
    BY <1>3 DEF Mark
  <1>5. pc'[w] = "probe" /\ \A x \in Threads : x # w => pc'[x] = pc[x]
    BY <1>2, <1>4, GotoFacts
  <1>6. Moves(w)
    BY <1>1, <1>2, <1>5 DEF Moves
  <1>7. WorkerInv'
    BY <1>6, MovesWorker
  <1>8. TaskInv'
    <2>1. Busy(w) /\ Busy(w)' /\ pc'[w] \notin {"put", "get"}
      BY <1>1, <1>5 DEF Busy
    <2>. QED  BY <1>1, <1>6, <2>1, MovesTask
  <1>9. RowInv'
    <2>1. rows \in [Probes -> Row \cup {NoRow}] /\ rec[w] \in Row \cup {NoRow}
      BY <1>2 DEF Quiet, IndInv, TypeOK, StoreOK, LocalOK
    <2>2. [rec[w] EXCEPT !.status = "running"].status = "running"
      BY <2>1 DEF Row, NoRow
    <2>3. rows'[arg[w]].status = "running" /\ \A q \in Probes : q # arg[w] => rows'[q] = rows[q]
      BY <1>3, <1>4, <2>1, <2>2
    <2>4. Expected(pc'[w]) = "running"
      BY <1>5 DEF Expected
    <2>. QED  BY <1>1, <1>3, <1>4, <1>6, <2>3, <2>4, WriteRows
  <1>. QED  BY <1>7, <1>8, <1>9 DEF Orderly

LEMMA FinishOrderly ==
    ASSUME Quiet, NEW t \in Clients \cup Workers, Finish(t)
    PROVE  Orderly'
  <1>1. pc[t] = "finish" /\ UNCHANGED <<thread, stopped, queueRef, queues, unfinished, ref, stamp, removable>>
    BY DEF Finish, sharedVars
  <1>2. /\ t \in Clients => Serving
        /\ t \in Workers => t = queueRef /\ ~ Starting
        /\ t \in Threads /\ t # Main /\ PcOK
    BY <1>1, PlaceFacts
  <1>3. arg[t] \in Probes /\ Present(arg[t]) /\ ~ StoreFault(t)
    BY <1>1, <1>2, JobFacts, NoFault
  <1>4. /\ Goto(t, "prune") /\ rows' = [rows EXCEPT ![arg[t]] = Completed(rec[t], out[t])]
        /\ arg' = [arg EXCEPT ![t] = None]
    BY <1>3 DEF Finish
  <1>5. pc'[t] = "prune" /\ \A x \in Threads : x # t => pc'[x] = pc[x]
    BY <1>2, <1>4, GotoFacts
  <1>6. Moves(t)
    BY <1>1, <1>2, <1>5 DEF Moves
  <1>7. WorkerInv'
    BY <1>6, MovesWorker
  <1>8. TaskInv'
    <2>1. Busy(t) /\ Busy(t)' /\ pc'[t] \notin {"put", "get"}
      BY <1>1, <1>5 DEF Busy
    <2>. QED  BY <1>1, <1>6, <2>1, MovesTask
  <1>9. RowInv'
    <2>1. /\ rows \in [Probes -> Row \cup {NoRow}] /\ rec[t] \in Row \cup {NoRow}
          /\ arg \in [Threads -> Probes \cup {None}] /\ out[t] \in Results \cup {"exception", None}
      BY <1>2 DEF Quiet, IndInv, TypeOK, StoreOK, LocalOK
    <2>2. out[t] # None
      BY <1>1, <1>2 DEF Quiet, IndInv, LocalsSet
    <2>3. Completed(rec[t], out[t]).status \in Terminal
      BY <2>1, <2>2 DEF Completed, Terminal, Row, NoRow
    <2>4. rows'[arg[t]].status \in Terminal /\ \A q \in Probes : q # arg[t] => rows'[q] = rows[q]
      BY <1>3, <1>4, <2>1, <2>3
    <2>5. arg'[t] = None /\ \A x \in Threads : x # t => arg'[x] = arg[x]
      BY <1>2, <1>4, <2>1
    <2>. QED  BY <1>1, <1>3, <1>6, <2>4, <2>5, WriteRows
  <1>. QED  BY <1>7, <1>8, <1>9 DEF Orderly

LEMMA CreateOrderly ==
    ASSUME Quiet, NEW c \in Clients, Create(c)
    PROVE  Orderly'
  <1>1. pc[c] = "create" /\ UNCHANGED <<thread, stopped, queueRef, queues, unfinished, ref, stamp, removable>>
    BY DEF Create, sharedVars
  <1>2. Serving /\ c \in Threads /\ c \notin Workers /\ PcOK
    BY <1>1, PlaceFacts
  <1>3. arg[c] \in Probes /\ ~ StoreFault(c)
    BY <1>1, <1>2, JobFacts, NoFault
  <1>. DEFINE s == IF kind[c] = "submit" THEN "queued" ELSE "running"
              l == IF kind[c] = "submit" THEN "prune" ELSE "probe"
  <1>4. UNCHANGED arg /\ Goto(c, l) /\ rows' = [rows EXCEPT ![arg[c]] = NewRow(s)]
    BY <1>3 DEF Create
  <1>5. Expected(l) = s /\ l \in {"prune", "probe"}
    BY DEF Expected
  <1>. HIDE DEF s, l
  <1>6. pc'[c] = l /\ \A x \in Threads : x # c => pc'[x] = pc[x]
    BY <1>2, <1>4, GotoFacts
  <1>7. Moves(c)
    BY <1>1, <1>2, <1>5, <1>6 DEF Moves
  <1>8. WorkerInv'
    BY <1>7, MovesWorker
  <1>9. TaskInv'
    BY <1>1, <1>2, <1>5, <1>6, <1>7, MovesTask
  <1>10. RowInv'
    <2>1. rows \in [Probes -> Row \cup {NoRow}]
      BY DEF Quiet, IndInv, TypeOK, StoreOK
    <2>2. NewRow(s).status = s
      BY DEF NewRow, NoRow
    <2>3. rows'[arg[c]].status = Expected(pc'[c]) /\ \A q \in Probes : q # arg[c] => rows'[q] = rows[q]
      BY <1>3, <1>4, <1>5, <1>6, <2>1, <2>2
    <2>. QED  BY <1>1, <1>3, <1>4, <1>7, <2>3, WriteRows
  <1>. QED  BY <1>8, <1>9, <1>10 DEF Orderly

LEMMA PruneSelectOrderly ==
    ASSUME Quiet, NEW t \in Clients \cup Workers, PruneSelect(t)
    PROVE  Orderly'
  <1>1. pc[t] = "prune" /\ UNCHANGED <<thread, stopped, queueRef, queues, unfinished, ref, rows, stamp>>
    BY DEF PruneSelect, sharedVars, storeVars
  <1>2. /\ t \in Clients => Serving
        /\ t \in Workers => t = queueRef /\ ~ Starting
        /\ t \in Threads /\ t # Main /\ PcOK /\ ~ StoreFault(t)
    BY <1>1, PlaceFacts, NoFault
  <1>3. PICK S \in RemovableSets :
          /\ removable' = [removable EXCEPT ![t] = S] /\ UNCHANGED arg
          /\ Goto(t, IF S = {} THEN AfterPrune(t) ELSE "delete")
    BY <1>2 DEF PruneSelect
  <1>4. PICK l : l = IF S = {} THEN AfterPrune(t) ELSE "delete"
    OBVIOUS
  <1>5. l \in {"delete", "done", "enqueue", "idle"} /\ (t \in Workers => l \in {"delete", "done"})
    BY <1>4 DEF AfterPrune
  <1>6. pc'[t] = l /\ \A x \in Threads : x # t => pc'[x] = pc[x]
    BY <1>2, <1>3, <1>4, GotoFacts
  <1>7. Moves(t)
    BY <1>1, <1>2, <1>5, <1>6 DEF Moves
  <1>8. WorkerInv'
    BY <1>7, MovesWorker
  <1>9. TaskInv'
    <2>1. (t \in Workers => Busy(t) /\ Busy(t)') /\ pc'[t] \notin {"put", "get"}
      BY <1>1, <1>5, <1>6 DEF Busy
    <2>. QED  BY <1>1, <1>7, <2>1, MovesTask
  <1>10. RowInv'
    <2>1. Expected(pc'[t]) = Expected(pc[t])
      BY <1>1, <1>5, <1>6 DEF Expected
    <2>2. \A p \in S : p \in Probes /\ IsFinished(p)
      BY DEF RemovableSets
    <2>3. removable \in [Threads -> SUBSET Probes]
      BY DEF Quiet, IndInv, TypeOK, LocalOK
    <2>4. \A x \in Threads : removable'[x] = removable[x] \/ \A p \in removable'[x] : p \in Probes /\ IsFinished(p)
      BY <1>2, <1>3, <2>2, <2>3
    <2>. QED  BY <1>1, <1>3, <1>7, <2>1, <2>4, MovesRows
  <1>. QED  BY <1>8, <1>9, <1>10 DEF Orderly

\* Prune deletes by id what it selected earlier: by then nobody works for it, and
\* its row is finished or gone.
LEMMA PruneDeleteOrderly ==
    ASSUME Quiet, NEW t \in Clients \cup Workers, PruneDelete(t)
    PROVE  Orderly'
  <1>1. pc[t] = "delete" /\ UNCHANGED <<thread, stopped, queueRef, queues, unfinished, ref, stamp>>
    BY DEF PruneDelete, sharedVars
  <1>2. /\ t \in Clients => Serving
        /\ t \in Workers => t = queueRef /\ ~ Starting
        /\ t \in Threads /\ t # Main /\ PcOK /\ ~ StoreFault(t)
    BY <1>1, PlaceFacts, NoFault
  <1>3. /\ rows' = [p \in Probes |-> IF p \in removable[t] THEN NoRow ELSE rows[p]] /\ UNCHANGED arg
        /\ removable' = [removable EXCEPT ![t] = {}] /\ Goto(t, AfterPrune(t))
    BY <1>2 DEF PruneDelete
  <1>4. PICK l : l = AfterPrune(t)
    OBVIOUS
  <1>5. l \in {"done", "enqueue", "idle"} /\ (t \in Workers => l = "done")
    BY <1>4 DEF AfterPrune
  <1>6. pc'[t] = l /\ \A x \in Threads : x # t => pc'[x] = pc[x]
    BY <1>2, <1>3, <1>4, GotoFacts
  <1>7. Moves(t)
    BY <1>1, <1>2, <1>5, <1>6 DEF Moves
  <1>8. WorkerInv'
    BY <1>7, MovesWorker
  <1>9. TaskInv'
    <2>1. (t \in Workers => Busy(t) /\ Busy(t)') /\ pc'[t] \notin {"put", "get"}
      BY <1>1, <1>5, <1>6 DEF Busy
    <2>. QED  BY <1>1, <1>7, <2>1, MovesTask
  <1>10. RowInv'
    <2>1. ASSUME NEW p
          PROVE  (Held(p)' <=> Held(p)) /\ (Queued(p)' <=> Queued(p)) /\ (InQueue(queueRef, p)' <=> InQueue(queueRef, p))
      BY <1>1, <1>3 DEF Held, Queued, InQueue
    <2>2. \A p \in Probes : Held(p) \/ Queued(p) => rows'[p] = rows[p]
      BY <1>2, <1>3 DEF Quiet, RowInv
    <2>3. NoRow.status = "absent"
      BY DEF NoRow
    <2>4. \A p \in Probes : rows'[p] = rows[p] \/ rows'[p].status = "absent"
      BY <1>3, <2>3
    <2>5. \A x \in Threads : arg[x] \in Probes \cup {None} /\ (removable'[x] \subseteq removable[x]) /\ removable[x] \subseteq Probes
      <3>1. arg \in [Threads -> Probes \cup {None}] /\ removable \in [Threads -> SUBSET Probes]
        BY DEF Quiet, IndInv, TypeOK, LocalOK
      <3>. QED  BY <1>2, <1>3, <3>1
    <2>6. ASSUME NEW x \in Threads, arg'[x] # None
          PROVE  rows'[arg'[x]].status = Expected(pc'[x])
      <3>1. arg[x] \in Probes /\ Held(arg[x]) /\ rows[arg[x]].status = Expected(pc[x]) /\ arg'[x] = arg[x]
        BY <1>3, <2>5, <2>6 DEF Held, Quiet, RowInv
      <3>2. Expected(pc'[x]) = Expected(pc[x])
        BY <1>1, <1>5, <1>6 DEF Expected
      <3>. QED  BY <2>2, <3>1, <3>2
    <2>7. ASSUME NEW p \in Probes, Queued(p)'
          PROVE  rows'[p].status = "queued"
      BY <2>1, <2>2, <2>7 DEF Quiet, RowInv
    <2>8. ASSUME NEW x \in Threads, NEW p \in removable'[x]
          PROVE  rows'[p].status \notin Active /\ stamp'[p] # 0 /\ ~ Held(p)' /\ ~ Queued(p)'
      <3>1. p \in removable[x] /\ p \in Probes
        BY <2>5, <2>8
      <3>2. rows[p].status \notin Active /\ stamp[p] # 0 /\ ~ Held(p) /\ ~ Queued(p)
        BY <3>1 DEF Quiet, RowInv
      <3>3. rows'[p].status \notin Active
        BY <2>4, <3>1, <3>2 DEF Active
      <3>. QED  BY <1>1, <2>1, <3>2, <3>3
    <2>9. ASSUME pc[Main] \in {"swap", "launch", "serving"}, NEW p \in Probes, IsActive(p)'
          PROVE  InQueue(queueRef, p)' \/ Held(p)'
      <3>1. IsActive(p)
        BY <2>4, <2>9 DEF IsActive, Active
      <3>. QED  BY <2>1, <2>9, <3>1 DEF Quiet, RowInv
    <2>10. UNCHANGED queueRef /\ pc'[Main] = pc[Main]
      BY <1>7, MovesFrame
    <2>. QED  BY <2>6, <2>7, <2>8, <2>9, <2>10 DEF RowInv
  <1>. QED  BY <1>8, <1>9, <1>10 DEF Orderly

LEMMA EnqueueOrderly ==
    ASSUME Quiet, NEW c \in Clients, Enqueue(c)
    PROVE  Orderly'
  <1>1. /\ pc[c] = "enqueue" /\ UNCHANGED <<thread, stopped, queueRef, queues, unfinished, rows, stamp, arg, removable>>
        /\ ref' = [ref EXCEPT ![c] = queueRef] /\ Goto(c, "put")
    BY DEF Enqueue, sharedVars, storeVars
  <1>2. Serving /\ c \in Threads /\ c \notin Workers /\ PcOK
    BY <1>1, PlaceFacts
  <1>3. pc'[c] = "put" /\ \A x \in Threads : x # c => pc'[x] = pc[x]
    BY <1>1, <1>2, GotoFacts
  <1>4. Moves(c)
    BY <1>1, <1>2, <1>3 DEF Moves
  <1>5. WorkerInv'
    BY <1>4, MovesWorker
  <1>6. TaskInv'
    <2>1. ref'[c] = queueRef /\ \A x \in Threads : x # c => ref'[x] = ref[x]
      BY <1>1, <1>2 DEF Quiet, IndInv, TypeOK, LocalOK
    <2>2. \A x \in Clients : pc'[x] = "put" => ref'[x] = queueRef
      BY <1>3, <2>1 DEF Quiet, TaskInv, Threads
    <2>3. \A w \in Workers : pc'[w] = "get" => ref'[w] = queueRef
      BY <1>2, <1>3, <2>1 DEF Quiet, TaskInv, Threads
    <2>4. queueRef \in Workers /\ Serving' = Serving
      BY <1>2, <1>4, MovesFrame DEF Quiet, WorkerInv
    <2>5. Busy(queueRef)' <=> Busy(queueRef)
      BY <1>1, <1>2, <1>3, <2>4 DEF Busy, Threads
    <2>6. /\ unfinished[queueRef] = Len(queues[queueRef]) + IF Busy(queueRef) THEN 1 ELSE 0
          /\ ~ InQueue(queueRef, None)
      BY <1>2 DEF Quiet, TaskInv
    <2>7. ~ InQueue(queueRef, None)'
      BY <1>1, <2>6 DEF InQueue
    <2>. QED  BY <1>1, <2>2, <2>3, <2>5, <2>6, <2>7 DEF TaskInv
  <1>7. RowInv'
    <2>1. Expected(pc'[c]) = Expected(pc[c])
      BY <1>1, <1>3 DEF Expected
    <2>. QED  BY <1>1, <1>4, <2>1, MovesRows
  <1>. QED  BY <1>5, <1>6, <1>7 DEF Orderly

LEMMA LoopOrderly ==
    ASSUME Quiet, NEW w \in Workers, Loop(w)
    PROVE  Orderly'
  <1>1. /\ pc[w] = "loop" /\ UNCHANGED <<thread, stopped, queueRef, queues, unfinished, rows, stamp, arg, removable>>
        /\ ref' = [ref EXCEPT ![w] = queueRef] /\ Goto(w, "get")
    BY DEF Loop, sharedVars, storeVars
  <1>2. w = queueRef /\ ~ Starting /\ w \in Threads /\ w \notin Clients /\ PcOK
    BY <1>1, PlaceFacts
  <1>3. pc'[w] = "get" /\ \A x \in Threads : x # w => pc'[x] = pc[x]
    BY <1>1, <1>2, GotoFacts
  <1>4. Moves(w)
    BY <1>1, <1>2, <1>3, SMT, SMTT(60) DEF Moves
  <1>5. WorkerInv'
    BY <1>4, MovesWorker
  <1>6. TaskInv'
    <2>1. ref'[w] = queueRef /\ \A x \in Threads : x # w => ref'[x] = ref[x]
      BY <1>1, <1>2 DEF Quiet, IndInv, TypeOK, LocalOK
    <2>2. \A x \in Clients : pc'[x] = "put" => ref'[x] = queueRef
      BY <1>2, <1>3, <2>1 DEF Quiet, TaskInv, Threads
    <2>3. \A x \in Workers : pc'[x] = "get" => ref'[x] = queueRef
      BY <1>2, <1>3, <2>1 DEF Quiet, TaskInv, Threads
    <2>4. Serving' = Serving
      BY <1>4, MovesFrame
    <2>5. ~ Busy(queueRef)' /\ ~ Busy(queueRef)
      BY <1>1, <1>2, <1>3 DEF Busy
    <2>6. Serving => /\ unfinished[queueRef] = Len(queues[queueRef]) + IF Busy(queueRef) THEN 1 ELSE 0
                     /\ ~ InQueue(queueRef, None)
      BY DEF Quiet, TaskInv
    <2>7. ~ InQueue(queueRef, None) => ~ InQueue(queueRef, None)'
      BY <1>1 DEF InQueue
    <2>. QED  BY <1>1, <2>2, <2>3, <2>4, <2>5, <2>6, <2>7 DEF TaskInv
  <1>7. RowInv'
    <2>1. Expected(pc'[w]) = Expected(pc[w])
      BY <1>1, <1>3 DEF Expected
    <2>. QED  BY <1>1, <1>4, <2>1, MovesRows
  <1>. QED  BY <1>5, <1>6, <1>7 DEF Orderly

\* While the service is up the worker waits for its own queue.
LEMMA GetTimeoutOrderly ==
    ASSUME Quiet, NEW w \in Workers, GetTimeout(w)
    PROVE  Orderly'
  <1>1. /\ pc[w] = "get" /\ UNCHANGED <<thread, stopped, queueRef, queues, unfinished, rows, stamp, arg, removable>>
        /\ ref' = [ref EXCEPT ![w] = None] /\ (stopped \/ ref[w] # queueRef)
    BY DEF GetTimeout, sharedVars, storeVars
  <1>2. w = queueRef /\ ~ Starting /\ w \in Threads /\ w \notin Clients /\ PcOK
    BY <1>1, PlaceFacts
  <1>3. PICK l \in {"dead", "loop"} : Goto(w, l)
    BY DEF GetTimeout
  <1>4. pc'[w] = l /\ \A x \in Threads : x # w => pc'[x] = pc[x]
    BY <1>2, <1>3, GotoFacts
  <1>5. ~ Serving
    BY <1>1 DEF Quiet, TaskInv, WorkerInv
  <1>6. Moves(w)
    BY <1>1, <1>2, <1>4, <1>5 DEF Moves
  <1>7. WorkerInv'
    BY <1>6, MovesWorker
  <1>8. TaskInv'
    <2>1. \A x \in Threads : x # w => ref'[x] = ref[x]
      BY <1>1, <1>2 DEF Quiet, IndInv, TypeOK, LocalOK
    <2>2. \A x \in Clients : pc'[x] = "put" => ref'[x] = queueRef
      BY <1>2, <1>4, <2>1 DEF Quiet, TaskInv, Threads
    <2>3. \A x \in Workers : pc'[x] = "get" => ref'[x] = queueRef
      BY <1>2, <1>4, <2>1 DEF Quiet, TaskInv, Threads
    <2>4. ~ Serving'
      BY <1>5, <1>6, MovesFrame
    <2>. QED  BY <1>1, <2>2, <2>3, <2>4 DEF TaskInv
  <1>9. RowInv'
    <2>1. Expected(pc'[w]) = Expected(pc[w])
      BY <1>1, <1>4 DEF Expected
    <2>. QED  BY <1>1, <1>6, <2>1, MovesRows
  <1>. QED  BY <1>7, <1>8, <1>9 DEF Orderly

\* task_done finds the job counted.
LEMMA TaskDoneOrderly ==
    ASSUME Quiet, NEW w \in Workers, TaskDone(w)
    PROVE  Orderly'
  <1>1. /\ pc[w] \in {"done", "ending"} /\ UNCHANGED <<thread, stopped, queueRef, queues, ref, rows, stamp, arg, removable>>
        /\ unfinished' = [unfinished EXCEPT ![queueRef] = IF @ = 0 THEN 0 ELSE @ - 1]
        /\ Goto(w, IF pc[w] = "done" /\ unfinished[queueRef] > 0 THEN "loop" ELSE "dead")
    BY DEF TaskDone, localVars, storeVars
  <1>2. w = queueRef /\ ~ Starting /\ w \in Threads /\ w \notin Clients /\ PcOK
    BY <1>1, PlaceFacts
  <1>3. PICK l : l = IF pc[w] = "done" /\ unfinished[queueRef] > 0 THEN "loop" ELSE "dead"
    OBVIOUS
  <1>4. pc'[w] = l /\ l \in {"loop", "dead"} /\ \A x \in Threads : x # w => pc'[x] = pc[x]
    BY <1>1, <1>2, <1>3, GotoFacts
  <1>5. queues \in [QueueIds -> Seq(Probes \cup {None})] /\ unfinished \in [QueueIds -> Nat] /\ queueRef \in QueueIds
    BY DEF Quiet, IndInv, TypeOK, SharedOK
  <1>6. ASSUME Serving
        PROVE  l = "loop" /\ unfinished'[queueRef] = Len(queues[queueRef]) /\ ~ InQueue(queueRef, None)
    <2>1. pc[w] # "ending"
      BY <1>2, <1>6 DEF Quiet, WorkerInv
    <2>2. pc[w] = "done" /\ Busy(queueRef)
      <3>1. pc[w] = "done"
        BY <1>1, <2>1
      <3>. QED  BY <1>2, <3>1 DEF Busy
    <2>3. unfinished[queueRef] = Len(queues[queueRef]) + 1 /\ ~ InQueue(queueRef, None)
      BY <1>6, <2>2 DEF Quiet, TaskInv
    <2>4. Len(queues[queueRef]) \in Nat
      <3>1. PICK s \in Seq(Probes \cup {None}) : s = queues[queueRef]
        BY <1>5
      <3>2. Len(s) \in Nat
        BY SMT, SMTT(60)
      <3>. QED  BY <3>1, <3>2
    <2>5. unfinished[queueRef] > 0 /\ unfinished'[queueRef] = Len(queues[queueRef])
      <3>1. unfinished'[queueRef] = IF unfinished[queueRef] = 0 THEN 0 ELSE unfinished[queueRef] - 1
        BY <1>1, <1>5
      <3>2. PICK m \in Nat : m = Len(queues[queueRef])
        BY <2>4
      <3>3. m + 1 > 0 /\ m + 1 # 0 /\ (m + 1) - 1 = m
        BY SMT, SMTT(60)
      <3>. QED  BY <2>3, <3>1, <3>2, <3>3
    <2>. QED  BY <1>3, <2>2, <2>3, <2>5
  <1>7. Moves(w)
    BY <1>1, <1>2, <1>4, <1>6 DEF Moves
  <1>8. WorkerInv'
    BY <1>7, MovesWorker
  <1>9. TaskInv'
    <2>2. \A x \in Clients : pc'[x] = "put" => ref'[x] = queueRef
      BY <1>1, <1>2, <1>4 DEF Quiet, TaskInv, Threads
    <2>3. \A x \in Workers : pc'[x] = "get" => ref'[x] = queueRef
      BY <1>1, <1>2, <1>4 DEF Quiet, TaskInv, Threads
    <2>4. Serving' = Serving
      BY <1>7, MovesFrame
    <2>5. ~ Busy(queueRef)'
      BY <1>1, <1>2, <1>4 DEF Busy
    <2>6. ~ InQueue(queueRef, None) => ~ InQueue(queueRef, None)'
      BY <1>1 DEF InQueue
    <2>7. Len(queues'[queueRef]) + 0 = Len(queues[queueRef])
      <3>1. PICK s \in Seq(Probes \cup {None}) : s = queues[queueRef]
        BY <1>5
      <3>2. Len(s) + 0 = Len(s)
        BY SMT, SMTT(60)
      <3>. QED  BY <1>1, <3>1, <3>2
    <2>. QED  BY <1>1, <1>6, <2>2, <2>3, <2>4, <2>5, <2>6, <2>7 DEF TaskInv
  <1>10. RowInv'
    <2>1. Expected(pc'[w]) = Expected(pc[w])
      BY <1>1, <1>4 DEF Expected
    <2>. QED  BY <1>1, <1>7, <2>1, MovesRows
  <1>. QED  BY <1>8, <1>9, <1>10 DEF Orderly

Has(s, x) == \E i \in DOMAIN s : s[i] = x

LEMMA AppendHas ==
    ASSUME NEW s \in Seq(Probes \cup {None}), NEW e \in Probes \cup {None}, NEW u, u = Append(s, e)
    PROVE  Len(s) \in Nat /\ Len(u) = Len(s) + 1 /\ \A x : Has(u, x) <=> Has(s, x) \/ x = e
  <1>1. /\ Len(s) \in Nat /\ Len(u) = Len(s) + 1 /\ DOMAIN s = 1..Len(s) /\ DOMAIN u = 1..(Len(s) + 1)
        /\ u[Len(s) + 1] = e /\ \A i \in 1..Len(s) : u[i] = s[i]
    BY SMT, SMTT(60)
  <1>2. ASSUME NEW x, Has(u, x)
        PROVE  Has(s, x) \/ x = e
    <2>1. PICK i \in 1..(Len(s) + 1) : u[i] = x
      BY <1>1, <1>2 DEF Has
    <2>2. CASE i = Len(s) + 1
      BY <1>1, <2>1, <2>2
    <2>3. CASE i # Len(s) + 1
      <3>1. i \in 1..Len(s)
        BY <1>1, <2>3, SMT, SMTT(60)
      <3>. QED  BY <1>1, <2>1, <3>1 DEF Has
    <2>. QED  BY <2>2, <2>3
  <1>3. ASSUME NEW x, Has(s, x)
        PROVE  Has(u, x)
    <2>1. PICK i \in 1..Len(s) : s[i] = x
      BY <1>1, <1>3 DEF Has
    <2>2. i \in 1..(Len(s) + 1)
      BY <1>1, SMT, SMTT(60)
    <2>. QED  BY <1>1, <2>1, <2>2 DEF Has
  <1>4. Has(u, e)
    <2>1. Len(s) + 1 \in DOMAIN u
      BY <1>1, SMT, SMTT(60)
    <2>. QED  BY <1>1, <2>1 DEF Has
  <1>. QED  BY <1>1, <1>2, <1>3, <1>4

LEMMA TailHas ==
    ASSUME NEW s \in Seq(Probes \cup {None}), s # << >>, NEW u, u = Tail(s), NEW h, h = Head(s)
    PROVE  /\ Len(u) \in Nat /\ Len(s) = Len(u) + 1 /\ h \in Probes \cup {None}
           /\ \A x : Has(s, x) <=> Has(u, x) \/ x = h
  <1>1. /\ Len(u) \in Nat /\ Len(s) = Len(u) + 1 /\ DOMAIN s = 1..(Len(u) + 1) /\ DOMAIN u = 1..Len(u)
        /\ s[1] = h /\ h \in Probes \cup {None} /\ \A i \in 1..Len(u) : u[i] = s[i + 1]
    BY SMT, SMTT(60)
  <1>2. ASSUME NEW x, Has(s, x)
        PROVE  Has(u, x) \/ x = h
    <2>1. PICK i \in 1..(Len(u) + 1) : s[i] = x
      BY <1>1, <1>2 DEF Has
    <2>2. CASE i = 1
      BY <1>1, <2>1, <2>2
    <2>3. CASE i # 1
      <3>1. i - 1 \in 1..Len(u) /\ i - 1 + 1 = i
        BY <1>1, <2>3, SMT, SMTT(60)
      <3>2. u[i - 1] = x
        BY <1>1, <2>1, <3>1
      <3>. QED  BY <1>1, <3>1, <3>2 DEF Has
    <2>. QED  BY <2>2, <2>3
  <1>3. ASSUME NEW x, Has(u, x)
        PROVE  Has(s, x)
    <2>1. PICK i \in 1..Len(u) : u[i] = x
      BY <1>1, <1>3 DEF Has
    <2>2. i + 1 \in 1..(Len(u) + 1) /\ s[i + 1] = x
      BY <1>1, <2>1, SMT, SMTT(60)
    <2>. QED  BY <1>1, <2>2 DEF Has
  <1>4. Has(s, h)
    <2>1. 1 \in DOMAIN s
      BY <1>1, SMT, SMTT(60)
    <2>. QED  BY <1>1, <2>1 DEF Has
  <1>. QED  BY <1>1, <1>2, <1>3, <1>4

LEMMA PutOrderly ==
    ASSUME Quiet, NEW c \in Clients, Put(c)
    PROVE  Orderly'
  <1>1. /\ pc[c] = "put" /\ UNCHANGED <<thread, stopped, queueRef, rows, stamp, removable>> /\ Goto(c, "idle")
        /\ queues' = [queues EXCEPT ![ref[c]] = Append(@, arg[c])]
        /\ unfinished' = [unfinished EXCEPT ![ref[c]] = @ + 1]
        /\ ref' = [ref EXCEPT ![c] = None] /\ arg' = [arg EXCEPT ![c] = None]
    BY DEF Put, storeVars
  <1>2. Serving /\ c \in Threads /\ c \notin Workers /\ PcOK
    BY <1>1, PlaceFacts
  <1>3. pc'[c] = "idle" /\ \A x \in Threads : x # c => pc'[x] = pc[x]
    BY <1>1, <1>2, GotoFacts
  <1>4. Moves(c)
    BY <1>1, <1>2, <1>3 DEF Moves
  <1>5. WorkerInv'
    BY <1>4, MovesWorker
  <1>6. arg[c] \in Probes /\ arg[c] # None /\ rows[arg[c]].status = "queued" /\ ref[c] = queueRef
    <2>1. Expected("put") = "queued"
      BY DEF Expected
    <2>2. arg[c] \in Probes /\ arg[c] # None /\ rows[arg[c]].status = Expected(pc[c])
      BY <1>1, JobFacts
    <2>3. ref[c] = queueRef
      BY <1>1 DEF Quiet, TaskInv
    <2>. QED  BY <1>1, <2>1, <2>2, <2>3
  <1>7. /\ queues \in [QueueIds -> Seq(Probes \cup {None})] /\ unfinished \in [QueueIds -> Nat] /\ queueRef \in QueueIds
        /\ ref \in [Threads -> QueueIds] /\ arg \in [Threads -> Probes \cup {None}]
    BY DEF Quiet, IndInv, TypeOK, SharedOK, LocalOK
  <1>8. /\ queues'[queueRef] = Append(queues[queueRef], arg[c]) /\ unfinished'[queueRef] = unfinished[queueRef] + 1
        /\ \A q \in QueueIds : q # queueRef => queues'[q] = queues[q]
    BY <1>1, <1>6, <1>7
  <1>9. /\ Len(queues[queueRef]) \in Nat /\ Len(queues'[queueRef]) = Len(queues[queueRef]) + 1
        /\ \A x : Has(queues'[queueRef], x) <=> Has(queues[queueRef], x) \/ x = arg[c]
    <2>1. PICK s \in Seq(Probes \cup {None}), e \in Probes \cup {None} : s = queues[queueRef] /\ e = arg[c]
      BY <1>6, <1>7
    <2>2. PICK u : u = queues'[queueRef] /\ u = Append(s, e)
      BY <1>8, <2>1
    <2>3. Len(s) \in Nat /\ Len(u) = Len(s) + 1 /\ \A x : Has(u, x) <=> Has(s, x) \/ x = e
      BY <2>2, AppendHas
    <2>. QED  BY <2>1, <2>2, <2>3
  <1>10. ASSUME NEW x
         PROVE  /\ InQueue(queueRef, x)' <=> InQueue(queueRef, x) \/ x = arg[c]
                /\ Queued(x)' => Queued(x) \/ x = arg[c]
    <2>1. InQueue(queueRef, x)' <=> InQueue(queueRef, x) \/ x = arg[c]
      <3>1. InQueue(queueRef, x)' <=> Has(queues'[queueRef], x)
        BY <1>1 DEF InQueue, Has
      <3>2. InQueue(queueRef, x) <=> Has(queues[queueRef], x)
        BY DEF InQueue, Has
      <3>. QED  BY <1>9, <3>1, <3>2
    <2>2. ASSUME NEW q \in QueueIds, InQueue(q, x)'
          PROVE  InQueue(q, x) \/ x = arg[c]
      BY <1>1, <1>8, <2>1, <2>2 DEF InQueue
    <2>. QED  BY <2>1, <2>2 DEF Queued
  <1>11. TaskInv'
    <2>1. \A x \in Threads : x # c => ref'[x] = ref[x]
      BY <1>1, <1>7
    <2>2. \A x \in Clients : pc'[x] = "put" => ref'[x] = queueRef
      BY <1>3, <2>1 DEF Quiet, TaskInv, Threads
    <2>3. \A w \in Workers : pc'[w] = "get" => ref'[w] = queueRef
      BY <1>2, <1>3, <2>1 DEF Quiet, TaskInv, Threads
    <2>4. queueRef \in Workers
      BY <1>2 DEF Quiet, WorkerInv
    <2>5. Busy(queueRef)' <=> Busy(queueRef)
      BY <1>1, <1>2, <1>3, <2>4 DEF Busy, Threads
    <2>6. unfinished[queueRef] = Len(queues[queueRef]) + (IF Busy(queueRef) THEN 1 ELSE 0) /\ ~ InQueue(queueRef, None)
      BY <1>2 DEF Quiet, TaskInv
    <2>7. unfinished'[queueRef] = Len(queues'[queueRef]) + IF Busy(queueRef) THEN 1 ELSE 0
      <3>1. PICK m, n : m = Len(queues[queueRef]) /\ n = IF Busy(queueRef) THEN 1 ELSE 0
        OBVIOUS
      <3>2. m \in Nat /\ n \in Nat
        BY <1>9, <3>1
      <3>3. m + n + 1 = m + 1 + n
        BY <3>2, SMT, SMTT(60)
      <3>. QED  BY <1>8, <1>9, <2>6, <3>1, <3>3
    <2>8. ~ InQueue(queueRef, None)'
      BY <1>6, <1>10, <2>6
    <2>. QED  BY <1>1, <2>2, <2>3, <2>5, <2>7, <2>8 DEF TaskInv
  <1>12. RowInv'
    <2>1. arg'[c] = None /\ \A x \in Threads : x # c => arg'[x] = arg[x]
      BY <1>1, <1>2, <1>7
    <2>2. ASSUME NEW x \in Threads, arg'[x] # None
          PROVE  rows'[arg'[x]].status = Expected(pc'[x])
      BY <1>1, <1>3, <2>1, <2>2 DEF Quiet, RowInv
    <2>3. ASSUME NEW p \in Probes, Queued(p)'
          PROVE  rows'[p].status = "queued"
      BY <1>1, <1>6, <1>10, <2>3 DEF Quiet, RowInv
    <2>4. ASSUME NEW x \in Threads, NEW p \in removable'[x]
          PROVE  rows'[p].status \notin Active /\ stamp'[p] # 0 /\ ~ Held(p)' /\ ~ Queued(p)'
      <3>1. rows[p].status \notin Active /\ stamp[p] # 0 /\ ~ Held(p) /\ ~ Queued(p)
        BY <1>1, <2>4 DEF Quiet, RowInv
      <3>2. p # arg[c] /\ p # None
        <4>1. removable[x] \in SUBSET Probes /\ p \in removable[x]
          BY <1>1, <2>4 DEF Quiet, IndInv, TypeOK, LocalOK
        <4>. QED  BY <1>2, <3>1, <4>1 DEF Held
      <3>3. ~ Held(p)'
        BY <2>1, <3>1, <3>2 DEF Held
      <3>. QED  BY <1>1, <1>10, <3>1, <3>2, <3>3
    <2>5. ASSUME NEW p \in Probes, IsActive(p)'
          PROVE  InQueue(queueRef, p)' \/ Held(p)'
      <3>1. InQueue(queueRef, p) \/ Held(p)
        BY <1>1, <1>2, <2>5 DEF Quiet, RowInv, IsActive, Serving
      <3>2. Held(p) => Held(p)' \/ p = arg[c]
        BY <2>1 DEF Held
      <3>. QED  BY <1>10, <3>1, <3>2
    <2>. QED  BY <1>1, <2>2, <2>3, <2>4, <2>5 DEF RowInv
  <1>. QED  BY <1>5, <1>11, <1>12 DEF Orderly

LEMMA RemovableTypes ==
    ASSUME Quiet, NEW t \in Threads, NEW p \in removable[t]
    PROVE  /\ p \in Probes /\ p # None
           /\ rows[p].status \notin Active /\ stamp[p] # 0 /\ ~ Held(p) /\ ~ Queued(p)
  <1>1. removable[t] \in SUBSET Probes
    BY DEF Quiet, IndInv, TypeOK, LocalOK
  <1>2. rows[p].status \notin Active /\ stamp[p] # 0 /\ ~ Held(p) /\ ~ Queued(p)
    BY DEF Quiet, RowInv
  <1>. QED  BY <1>1, <1>2

LEMMA GetOrderly ==
    ASSUME Quiet, NEW w \in Workers, Get(w)
    PROVE  Orderly'
  <1>1. /\ pc[w] = "get" /\ queues[ref[w]] # << >>
        /\ UNCHANGED <<thread, stopped, queueRef, unfinished, rows, stamp, removable>>
        /\ queues' = [queues EXCEPT ![ref[w]] = Tail(@)] /\ arg' = [arg EXCEPT ![w] = Head(queues[ref[w]])]
        /\ ref' = [ref EXCEPT ![w] = None] /\ Goto(w, IF Head(queues[ref[w]]) = None THEN "ending" ELSE "load")
    BY DEF Get, storeVars
  <1>2. w = queueRef /\ ~ Starting /\ w \in Threads /\ w \notin Clients /\ PcOK
    BY <1>1, PlaceFacts
  <1>3. ref[w] = queueRef
    BY <1>1 DEF Quiet, TaskInv
  <1>4. /\ queues \in [QueueIds -> Seq(Probes \cup {None})] /\ queueRef \in QueueIds
        /\ ref \in [Threads -> QueueIds] /\ arg \in [Threads -> Probes \cup {None}]
    BY DEF Quiet, IndInv, TypeOK, SharedOK, LocalOK
  <1>5. PICK s \in Seq(Probes \cup {None}) : s = queues[queueRef] /\ s # << >>
    BY <1>1, <1>3, <1>4
  <1>6. PICK u, h : u = Tail(s) /\ h = Head(s)
    OBVIOUS
  <1>7. /\ queues'[queueRef] = u /\ \A q \in QueueIds : q # queueRef => queues'[q] = queues[q]
        /\ arg'[w] = h /\ \A x \in Threads : x # w => arg'[x] = arg[x]
        /\ \A x \in Threads : x # w => ref'[x] = ref[x]
    BY <1>1, <1>2, <1>3, <1>4, <1>5, <1>6
  <1>8. Len(u) \in Nat /\ Len(s) = Len(u) + 1 /\ h \in Probes \cup {None} /\ \A x : Has(s, x) <=> Has(u, x) \/ x = h
    BY <1>5, <1>6, TailHas
  <1>9. ASSUME NEW x
        PROVE  /\ InQueue(queueRef, x) <=> InQueue(queueRef, x)' \/ x = h
               /\ Queued(x)' => Queued(x)
    <2>1. InQueue(queueRef, x)' <=> Has(u, x)
      BY <1>1, <1>7 DEF InQueue, Has
    <2>2. InQueue(queueRef, x) <=> Has(s, x)
      BY <1>5 DEF InQueue, Has
    <2>3. InQueue(queueRef, x) <=> InQueue(queueRef, x)' \/ x = h
      BY <1>8, <2>1, <2>2
    <2>4. ASSUME NEW q \in QueueIds, InQueue(q, x)'
          PROVE  InQueue(q, x)
      BY <1>1, <1>7, <2>3, <2>4 DEF InQueue
    <2>. QED  BY <2>3, <2>4 DEF Queued
  <1>10. pc'[w] = (IF h = None THEN "ending" ELSE "load") /\ \A x \in Threads : x # w => pc'[x] = pc[x]
    <2>1. Goto(w, IF h = None THEN "ending" ELSE "load")
      BY <1>1, <1>3, <1>5, <1>6
    <2>. QED  BY <1>2, <2>1, GotoFacts
  <1>11. Serving => h # None /\ ~ InQueue(queueRef, None)
    BY <1>9 DEF Quiet, TaskInv
  <1>12. Moves(w)
    BY <1>1, <1>2, <1>10, <1>11 DEF Moves
  <1>13. WorkerInv'
    BY <1>12, MovesWorker
  <1>14. TaskInv'
    <2>1. \A x \in Clients : pc'[x] = "put" => ref'[x] = queueRef
      BY <1>2, <1>7, <1>10 DEF Quiet, TaskInv, Threads
    <2>2. \A x \in Workers : pc'[x] = "get" => ref'[x] = queueRef
      <3>1. pc'[w] # "get"
        BY <1>10
      <3>. QED  BY <1>2, <1>7, <1>10, <3>1 DEF Quiet, TaskInv, Threads
    <2>3. ASSUME Serving
          PROVE  /\ unfinished'[queueRef] = Len(queues'[queueRef]) + IF Busy(queueRef)' THEN 1 ELSE 0
                 /\ ~ InQueue(queueRef, None)'
      <3>1. ~ Busy(queueRef) /\ Busy(queueRef)'
        <4>1. pc[w] = "get" /\ pc'[w] = "load" /\ queueRef' = w
          BY <1>1, <1>2, <1>10, <1>11, <2>3
        <4>. QED  BY <1>2, <4>1 DEF Busy
      <3>2. unfinished[queueRef] = Len(s) + 0
        BY <1>5, <2>3, <3>1 DEF Quiet, TaskInv
      <3>3. unfinished[queueRef] = Len(u) + 1
        <4>1. PICK n \in Nat : n = Len(u) /\ Len(s) = n + 1
          BY <1>8
        <4>2. n + 1 + 0 = n + 1
          BY SMT, SMTT(60)
        <4>. QED  BY <3>2, <4>1, <4>2
      <3>4. ~ InQueue(queueRef, None)'
        BY <1>9, <1>11, <2>3
      <3>. QED  BY <1>1, <1>7, <3>1, <3>3, <3>4
    <2>4. Serving' = Serving
      BY <1>12, MovesFrame
    <2>. QED  BY <1>1, <2>1, <2>2, <2>3, <2>4 DEF TaskInv
  <1>15. RowInv'
    <2>1. h # None => h \in Probes /\ Queued(h) /\ rows[h].status = "queued"
      <3>1. Queued(h)
        BY <1>4, <1>9 DEF Queued
      <3>. QED  BY <1>8, <3>1 DEF Quiet, RowInv
    <2>2. ASSUME NEW x \in Threads, arg'[x] # None
          PROVE  rows'[arg'[x]].status = Expected(pc'[x])
      <3>1. CASE x = w
        <4>1. h # None /\ pc'[w] = "load" /\ arg'[x] = h
          BY <1>7, <1>10, <2>2, <3>1
        <4>2. Expected("load") = "queued"
          BY DEF Expected
        <4>. QED  BY <1>1, <2>1, <3>1, <4>1, <4>2
      <3>2. CASE x # w
        <4>1. arg'[x] = arg[x] /\ pc'[x] = pc[x] /\ arg[x] # None
          BY <1>7, <1>10, <2>2, <3>2
        <4>2. rows[arg[x]].status = Expected(pc[x])
          BY <4>1 DEF Quiet, RowInv
        <4>. QED  BY <1>1, <4>1, <4>2
      <3>. QED  BY <3>1, <3>2
    <2>3. ASSUME NEW p \in Probes, Queued(p)'
          PROVE  rows'[p].status = "queued"
      BY <1>1, <1>9, <2>3 DEF Quiet, RowInv
    <2>4. ASSUME NEW x \in Threads, NEW p \in removable'[x]
          PROVE  rows'[p].status \notin Active /\ stamp'[p] # 0 /\ ~ Held(p)' /\ ~ Queued(p)'
      <3>1. p # None /\ rows[p].status \notin Active /\ stamp[p] # 0 /\ ~ Held(p) /\ ~ Queued(p)
        BY <1>1, <2>4, RemovableTypes
      <3>2. ~ Held(p)'
        <4>1. h # p
          BY <2>1, <3>1
        <4>2. ASSUME NEW y \in Threads, arg'[y] = p
              PROVE  arg[y] = p
          BY <1>7, <4>1, <4>2
        <4>. QED  BY <3>1, <4>2 DEF Held
      <3>. QED  BY <1>1, <1>9, <3>1, <3>2
    <2>5. ASSUME pc[Main] \in {"swap", "launch", "serving"}, NEW p \in Probes, IsActive(p)'
          PROVE  InQueue(queueRef, p)' \/ Held(p)'
      <3>1. InQueue(queueRef, p) \/ Held(p)
        BY <1>1, <2>5 DEF Quiet, RowInv, IsActive
      <3>2. arg[w] = None
        <4>1. ~ AtWork(w)
          BY <1>1, <1>2 DEF AtWork
        <4>. QED  BY <1>2, <4>1 DEF Quiet, ArgInv
      <3>3. Held(p) => Held(p)'
        BY <1>7, <3>2 DEF Held
      <3>4. h = p => Held(p)'
        BY <1>2, <1>7 DEF Held
      <3>. QED  BY <1>9, <3>1, <3>3, <3>4
    <2>6. pc'[Main] = pc[Main] /\ UNCHANGED queueRef
      BY <1>12, MovesFrame
    <2>. QED  BY <2>2, <2>3, <2>4, <2>5, <2>6 DEF RowInv
  <1>. QED  BY <1>13, <1>14, <1>15 DEF Orderly

LEMMA PrepareOrderly ==
    ASSUME Quiet, NEW c \in Clients, Prepare(c)
    PROVE  Orderly'
  <1>1. pc[c] = "prepare" /\ UNCHANGED <<thread, stopped, queueRef, queues, unfinished, ref, rows, removable>>
    BY DEF Prepare, sharedVars
  <1>2. Serving /\ c \in Threads /\ c \notin Workers /\ PcOK
    BY <1>1, PlaceFacts
  <1>3. PICK l \in {"create", "idle"} : Goto(c, l)
    BY DEF Prepare
  <1>4. pc'[c] = l /\ \A x \in Threads : x # c => pc'[x] = pc[x]
    BY <1>2, <1>3, GotoFacts
  <1>5. Moves(c)
    BY <1>1, <1>2, <1>4 DEF Moves
  <1>6. WorkerInv'
    BY <1>5, MovesWorker
  <1>7. TaskInv'
    BY <1>1, <1>2, <1>4, <1>5, MovesTask
  <1>8. arg[c] = None
    <2>1. ~ AtWork(c)
      BY <1>1 DEF AtWork
    <2>. QED  BY <1>2, <2>1 DEF Quiet, ArgInv
  <1>9. CASE Goto(c, "idle") /\ UNCHANGED <<stamp, arg>>
    <2>1. RowInv'
      BY <1>1, <1>5, <1>8, <1>9, MovesRows
    <2>. QED  BY <1>6, <1>7, <2>1 DEF Orderly
  <1>10. CASE \E p \in Probes, tick \in {clock, clock + 1} :
              stamp[p] = 0 /\ stamp' = [stamp EXCEPT ![p] = tick] /\ arg' = [arg EXCEPT ![c] = p] /\ Goto(c, "create")
    <2>1. PICK p \in Probes, tick \in {clock, clock + 1} :
              stamp[p] = 0 /\ stamp' = [stamp EXCEPT ![p] = tick] /\ arg' = [arg EXCEPT ![c] = p] /\ Goto(c, "create")
      BY <1>10
    <2>2. pc'[c] = "create"
      BY <1>2, <2>1, GotoFacts
    <2>3. arg \in [Threads -> Probes \cup {None}] /\ stamp \in [Probes -> Nat]
      BY DEF Quiet, IndInv, TypeOK, StoreOK, LocalOK
    <2>4. /\ arg'[c] = p /\ \A x \in Threads : x # c => arg'[x] = arg[x]
          /\ \A q \in Probes : q # p => stamp'[q] = stamp[q]
      BY <1>2, <2>1, <2>3
    <2>5. rows[p] = NoRow
      BY <2>1 DEF Quiet, IndInv, Ownership, FreshInv
    <2>6. ASSUME NEW q
          PROVE  (Queued(q)' <=> Queued(q)) /\ (InQueue(queueRef, q)' <=> InQueue(queueRef, q))
      BY <1>1 DEF Queued, InQueue
    <2>7. ASSUME NEW x \in Threads, arg'[x] # None
          PROVE  rows'[arg'[x]].status = Expected(pc'[x])
      <3>1. CASE x = c
        <4>1. NoRow.status = "absent" /\ Expected("create") = "absent"
          BY DEF NoRow, Expected
        <4>. QED  BY <1>1, <2>2, <2>4, <2>5, <3>1, <4>1
      <3>2. CASE x # c
        <4>1. arg'[x] = arg[x] /\ pc'[x] = pc[x] /\ arg[x] # None
          BY <1>4, <2>4, <2>7, <3>2
        <4>2. rows[arg[x]].status = Expected(pc[x])
          BY <4>1 DEF Quiet, RowInv
        <4>. QED  BY <1>1, <4>1, <4>2
      <3>. QED  BY <3>1, <3>2
    <2>8. ASSUME NEW q \in Probes, Queued(q)'
          PROVE  rows'[q].status = "queued"
      BY <1>1, <2>6, <2>8 DEF Quiet, RowInv
    <2>9. ASSUME NEW x \in Threads, NEW q \in removable'[x]
          PROVE  rows'[q].status \notin Active /\ stamp'[q] # 0 /\ ~ Held(q)' /\ ~ Queued(q)'
      <3>1. q \in Probes /\ rows[q].status \notin Active /\ stamp[q] # 0 /\ ~ Held(q) /\ ~ Queued(q)
        BY <1>1, <2>9, RemovableTypes
      <3>2. q # p
        BY <2>1, <3>1
      <3>3. ~ Held(q)'
        BY <2>4, <3>1, <3>2 DEF Held
      <3>. QED  BY <1>1, <2>4, <2>6, <3>1, <3>2, <3>3
    <2>10. ASSUME NEW q \in Probes, IsActive(q)'
           PROVE  InQueue(queueRef, q)' \/ Held(q)'
      <3>1. InQueue(queueRef, q) \/ Held(q)
        BY <1>1, <1>2, <2>10 DEF Quiet, RowInv, IsActive, Serving
      <3>2. Held(q) => Held(q)'
        BY <1>8, <2>4 DEF Held
      <3>. QED  BY <2>6, <3>1, <3>2
    <2>11. RowInv'
      BY <1>1, <2>7, <2>8, <2>9, <2>10 DEF RowInv
    <2>. QED  BY <1>6, <1>7, <2>11 DEF Orderly
  <1>. QED  BY <1>9, <1>10 DEF Prepare

-----------------------------------------------------------------------------
(* Main.                                                                    *)

\* Nothing is under way: no request, no job, no task, and no active row once
\* the rows of the earlier process are failed.
Blank ==
    /\ \A c \in Clients : pc[c] = "idle"
    /\ \A w \in Workers : pc[w] \in {"unborn", "created", "loop"}
    /\ \A t \in Threads : arg[t] = None /\ removable[t] = {}
    /\ \A q \in QueueIds : queues[q] = <<>> /\ unfinished[q] = 0
    /\ pc[Main] \in {"swap", "launch", "serving"} => \A p \in Probes : ~ IsActive(p)
    /\ queueRef \in QueueIds
    /\ Serving => queueRef \in Workers

\* An empty queue holds nothing at any position.
LEMMA EmptyQueue == DOMAIN << >> = {}
  BY SMT, SMTT(60)

LEMMA BlankInv == Blank => TaskInv /\ RowInv
  <1> SUFFICES ASSUME Blank PROVE TaskInv /\ RowInv
    OBVIOUS
  <1>1. \A x : ~ InQueue(queueRef, x)
    BY EmptyQueue DEF Blank, InQueue
  <1>2. \A p : ~ Queued(p)
    BY EmptyQueue DEF Blank, Queued, InQueue
  <1>3. TaskInv
    <2>1. \A c \in Clients : pc[c] = "put" => ref[c] = queueRef
      BY DEF Blank
    <2>2. \A w \in Workers : pc[w] = "get" => ref[w] = queueRef
      BY DEF Blank
    <2>3. ASSUME Serving
          PROVE  unfinished[queueRef] = Len(queues[queueRef]) + IF Busy(queueRef) THEN 1 ELSE 0
      <3>1. ~ Busy(queueRef)
        BY <2>3 DEF Blank, Busy
      <3>2. unfinished[queueRef] = 0 /\ queues[queueRef] = <<>>
        BY DEF Blank
      <3>3. Len(<<>>) + 0 = 0
        BY SMT, SMTT(60)
      <3>. QED  BY <3>1, <3>2, <3>3
    <2>. QED  BY <1>1, <2>1, <2>2, <2>3 DEF TaskInv
  <1>4. RowInv
    BY <1>2 DEF Blank, RowInv
  <1>. QED  BY <1>3, <1>4

LEMMA StartingBlank ==
    ASSUME Quiet, Starting
    PROVE  Blank
  <1>1. /\ \A t \in Threads : arg[t] = None /\ removable[t] = {}
        /\ \A q \in QueueIds : queues[q] = <<>> /\ unfinished[q] = 0
    BY DEF Quiet, WorkerInv
  <1>2. ~ Serving
    BY DEF Starting, Serving
  <1>3. \A c \in Clients : pc[c] = "idle"
    BY <1>2 DEF Quiet, WorkerInv
  <1>4. queueRef \in QueueIds
    BY DEF Quiet, IndInv, TypeOK, SharedOK
  <1>5. ASSUME NEW w \in Workers
        PROVE  pc[w] \in {"unborn", "created", "loop"}
    <2>1. CASE w # queueRef
      BY <2>1 DEF Quiet, WorkerInv
    <2>2. CASE w = queueRef
      <3>1. queueRef # None
        BY <2>2, ThreadsAssumption
      <3>2. pc[Main] = "launch"
        BY <3>1 DEF Quiet, WorkerInv, Starting
      <3>3. queueRef = ref[Main] /\ Main \in Threads
        BY <3>2 DEF Quiet, WorkerInv, Threads
      <3>4. pc[ref[Main]] = "created"
        BY <3>2, <3>3 DEF Quiet, IndInv, LaunchInv
      <3>. QED  BY <2>2, <3>3, <3>4
    <2>. QED  BY <2>1, <2>2
  <1>6. ASSUME pc[Main] \in {"swap", "launch", "serving"}, NEW p \in Probes
        PROVE  ~ IsActive(p)
    <2>1. ~ InQueue(queueRef, p)
      BY <1>1, <1>4, EmptyQueue DEF InQueue
    <2>2. ~ Held(p)
      BY <1>1, ThreadsAssumption DEF Held
    <2>. QED  BY <1>6, <2>1, <2>2 DEF Quiet, RowInv
  <1>. QED  BY <1>1, <1>2, <1>3, <1>4, <1>5, <1>6 DEF Blank

LEMMA BlankNext ==
    ASSUME Blank', WorkerInv'
    PROVE  Orderly'
  <1>1. (TaskInv /\ RowInv)'
    BY BlankInv, PTL
  <1>. QED  BY <1>1 DEF Orderly

\* start() before it has a worker.
LEMMA WorkerStarting ==
    ASSUME WorkerInv, pc[Main] \in {"down", "start", "recover"}, pc'[Main] \in {"start", "recover", "swap"},
           \A c \in Clients : pc'[c] = pc[c], \A w \in Workers : pc'[w] = pc[w],
           UNCHANGED <<thread, queueRef, queues, unfinished, arg, removable>>
    PROVE  WorkerInv'
  <1>1. ~ Serving /\ Starting /\ ~ Serving' /\ pc'[Main] # "launch" /\ pc'[Main] # "aborted"
    BY DEF Serving, Starting
  <1>2. queueRef = None /\ thread = None
    BY DEF WorkerInv
  <1>3. /\ \A w \in Workers : w # queueRef => pc[w] = "unborn"
        /\ \A c \in Clients : pc[c] = "idle"
        /\ \A t \in Threads : arg[t] = None /\ removable[t] = {}
        /\ \A q \in QueueIds : queues[q] = <<>> /\ unfinished[q] = 0
    BY <1>1 DEF WorkerInv
  <1>4. \A c \in Clients : pc'[c] \notin {"recover", "swap", "launch"}
    BY <1>3
  <1>5. /\ \A w \in Workers : w # queueRef' => pc'[w] = "unborn"
        /\ \A c \in Clients : pc'[c] = "idle"
        /\ \A t \in Threads : arg'[t] = None /\ removable'[t] = {}
        /\ \A q \in QueueIds : queues'[q] = <<>> /\ unfinished'[q] = 0
        /\ queueRef' = None /\ thread' = None
    <2>1. queueRef' = None /\ thread' = None /\ \A w \in Workers : w # queueRef' => pc'[w] = "unborn"
      BY <1>2, <1>3
    <2>2. /\ \A t \in Threads : arg'[t] = None /\ removable'[t] = {}
          /\ \A q \in QueueIds : queues'[q] = <<>> /\ unfinished'[q] = 0
      BY <1>3
    <2>3. \A c \in Clients : pc'[c] = "idle"
      BY <1>3
    <2>. QED  BY <2>1, <2>2, <2>3
  <1>. QED  BY <1>1, <1>4, <1>5 DEF WorkerInv

LEMMA BootOrderly ==
    ASSUME Quiet, Boot
    PROVE  Orderly'
  <1>1. /\ pc[Main] = "down" /\ Goto(Main, "start")
        /\ UNCHANGED <<thread, stopped, queueRef, queues, unfinished, ref, rows, arg, removable>>
    BY DEF Boot, storeVars, sharedVars, localVars
  <1>2. Blank
    BY <1>1, StartingBlank DEF Starting
  <1>3. pc'[Main] = "start" /\ \A x \in Threads : x # Main => pc'[x] = pc[x]
    BY <1>1, GotoFacts DEF Quiet, IndInv, TypeOK, Threads
  <1>4. (\A c \in Clients : pc'[c] = pc[c]) /\ \A w \in Workers : pc'[w] = pc[w]
    BY <1>3, ThreadsAssumption DEF Threads
  <1>5. Blank'
    BY <1>1, <1>2, <1>3, <1>4, SMT, SMTT(60) DEF Blank, Serving
  <1>6. WorkerInv'
    <2>1. WorkerInv
      BY DEF Quiet
    <2>. QED  BY <1>1, <1>3, <1>4, <2>1, WorkerStarting
  <1>. QED  BY <1>5, <1>6, BlankNext

LEMMA MainStartOrderly ==
    ASSUME Quiet, StartCheck(Main)
    PROVE  Orderly'
  <1>1. /\ pc[Main] = "start"
        /\ UNCHANGED <<thread, stopped, queueRef, queues, unfinished, ref, rows, arg, removable>>
    BY DEF StartCheck, storeVars, localVars
  <1>2. thread = None
    BY <1>1 DEF Quiet, WorkerInv
  <1>3. Goto(Main, "recover")
    BY <1>2 DEF StartCheck
  <1>4. Blank
    BY <1>1, StartingBlank DEF Starting
  <1>5. pc'[Main] = "recover" /\ \A x \in Threads : x # Main => pc'[x] = pc[x]
    BY <1>3, GotoFacts DEF Quiet, IndInv, TypeOK, Threads
  <1>6. (\A c \in Clients : pc'[c] = pc[c]) /\ \A w \in Workers : pc'[w] = pc[w]
    BY <1>5, ThreadsAssumption DEF Threads
  <1>7. Blank'
    BY <1>1, <1>4, <1>5, <1>6 DEF Blank, Serving
  <1>8. WorkerInv'
    <2>1. WorkerInv
      BY DEF Quiet
    <2>. QED  BY <1>1, <1>5, <1>6, <2>1, WorkerStarting
  <1>. QED  BY <1>7, <1>8, BlankNext

LEMMA RecoverOrderly ==
    ASSUME Quiet, Recover(Main)
    PROVE  Orderly'
  <1>1. pc[Main] = "recover" /\ UNCHANGED <<thread, stopped, queueRef, queues, unfinished, ref, arg, removable>>
    BY DEF Recover, localVars
  <1>2. ~ StoreFault(Main)
    BY NoFault DEF Threads
  <1>3. rows' = [p \in Probes |-> FailStale(p)] /\ Goto(Main, "swap")
    BY <1>2 DEF Recover
  <1>4. Blank
    BY <1>1, StartingBlank DEF Starting
  <1>5. pc'[Main] = "swap" /\ \A x \in Threads : x # Main => pc'[x] = pc[x]
    BY <1>3, GotoFacts DEF Quiet, IndInv, TypeOK, Threads
  <1>6. (\A c \in Clients : pc'[c] = pc[c]) /\ \A w \in Workers : pc'[w] = pc[w]
    BY <1>5, ThreadsAssumption DEF Threads
  <1>7. ASSUME NEW p \in Probes
        PROVE  ~ IsActive(p)'
    <2>1. rows'[p] = FailStale(p)
      BY <1>3
    <2>2. CASE IsActive(p)
      <3>1. rows[p] \in Row \cup {NoRow}
        BY DEF Quiet, IndInv, TypeOK, StoreOK
      <3>2. rows'[p] = [rows[p] EXCEPT !.status = "failed", !.error = "restarted", !.finished = TRUE]
        BY <2>1, <2>2 DEF FailStale
      <3>3. rows'[p].status = "failed"
        BY <3>1, <3>2 DEF Row, NoRow
      <3>. QED  BY <3>3 DEF IsActive, Active
    <2>3. CASE ~ IsActive(p)
      BY <2>1, <2>3 DEF FailStale, IsActive
    <2>. QED  BY <2>2, <2>3
  <1>8. Blank'
    <2>1. ~ Serving'
      BY <1>5 DEF Serving
    <2>. QED  BY <1>1, <1>4, <1>6, <1>7, <2>1 DEF Blank
  <1>9. WorkerInv'
    <2>1. WorkerInv
      BY DEF Quiet
    <2>. QED  BY <1>1, <1>5, <1>6, <2>1, WorkerStarting
  <1>. QED  BY <1>8, <1>9, BlankNext, SMT, SMTT(60)

LEMMA SwapOrderly ==
    ASSUME Quiet, Swap(Main)
    PROVE  Orderly'
  <1>1. pc[Main] = "swap" /\ UNCHANGED <<queues, unfinished, rows, arg, removable>>
    BY DEF Swap, storeVars
  <1>2. PICK w \in Workers : /\ pc[w] = "unborn" /\ stopped' = FALSE /\ queueRef' = w /\ thread' = w
                             /\ ref' = [ref EXCEPT ![Main] = w]
                             /\ pc' = [pc EXCEPT ![Main] = "launch", ![w] = "created"]
    BY DEF Swap
  <1>3. Blank
    BY <1>1, StartingBlank DEF Starting
  <1>4. w # Main /\ w \notin Clients /\ w \in QueueIds /\ Main \notin Clients
    BY ThreadsAssumption DEF QueueIds
  <1>5. pc \in [Threads -> MainLabels \cup ClientLabels \cup WorkerLabels] /\ ref \in [Threads -> QueueIds]
    BY DEF Quiet, IndInv, TypeOK, PcOK, LocalOK
  <1>6. /\ pc'[Main] = "launch" /\ pc'[w] = "created" /\ ref'[Main] = w
        /\ \A x \in Threads : x # Main /\ x # w => pc'[x] = pc[x]
    BY <1>2, <1>4, <1>5 DEF Threads
  <1>7. (\A c \in Clients : pc'[c] = "idle") /\ \A v \in Workers : v # w => pc'[v] = pc[v]
    BY <1>3, <1>4, <1>6, ThreadsAssumption DEF Threads, Blank
  <1>8. queueRef = None
    BY <1>1 DEF Quiet, WorkerInv
  <1>9. \A v \in Workers : v # w => pc'[v] = "unborn"
    <2>1. \A v \in Workers : pc[v] = "unborn"
      BY <1>8, ThreadsAssumption DEF Quiet, WorkerInv
    <2>. QED  BY <1>7, <2>1
  <1>10. Blank'
    BY <1>1, <1>2, <1>3, <1>4, <1>6, <1>7, <1>9 DEF Blank, Serving, IsActive
  <1>11. WorkerInv'
    BY <1>1, <1>2, <1>3, <1>4, <1>6, <1>7, <1>9 DEF WorkerInv, Blank, Serving, Starting
  <1>. QED  BY <1>10, <1>11, BlankNext

LEMMA LaunchOrderly ==
    ASSUME Quiet, Launch(Main)
    PROVE  Orderly'
  <1>1. pc[Main] = "launch" /\ UNCHANGED <<thread, stopped, queueRef, queues, unfinished, rows, arg, removable>>
    BY DEF Launch, storeVars, sharedVars
  <1>2. pc' = [pc EXCEPT ![Main] = "serving", ![ref[Main]] = "loop"]
    BY DEF Launch, AfterStart
  <1>3. Blank
    BY <1>1, StartingBlank DEF Starting
  <1>4. queueRef = ref[Main] /\ thread = queueRef /\ ~ stopped /\ Main \in Threads
    BY <1>1 DEF Quiet, WorkerInv, Threads
  <1>5. ref[Main] \in Workers
    BY <1>1, <1>4 DEF Quiet, IndInv, LaunchInv
  <1>6. PICK w \in Workers : w = queueRef /\ pc' = [pc EXCEPT ![Main] = "serving", ![w] = "loop"]
    BY <1>2, <1>4, <1>5
  <1>7. w # Main /\ w \notin Clients /\ w \in QueueIds /\ Main \notin Clients
    BY ThreadsAssumption DEF QueueIds
  <1>8. pc \in [Threads -> MainLabels \cup ClientLabels \cup WorkerLabels]
    BY DEF Quiet, IndInv, TypeOK, PcOK
  <1>9. pc'[Main] = "serving" /\ pc'[w] = "loop" /\ \A x \in Threads : x # Main /\ x # w => pc'[x] = pc[x]
    BY <1>6, <1>7, <1>8 DEF Threads
  <1>10. (\A c \in Clients : pc'[c] = "idle") /\ \A v \in Workers : v # w => pc'[v] = pc[v]
    BY <1>3, <1>7, <1>9, ThreadsAssumption DEF Threads, Blank
  <1>11. \A v \in Workers : v # w => pc'[v] = "unborn"
    BY <1>6, <1>10 DEF Quiet, WorkerInv
  <1>12. Blank'
    BY <1>1, <1>3, <1>6, <1>7, <1>9, <1>10, <1>11 DEF Blank, Serving, IsActive
  <1>13. WorkerInv'
    BY <1>1, <1>4, <1>6, <1>7, <1>9, <1>10, <1>11 DEF WorkerInv, Serving, Starting, Alive
  <1>. QED  BY <1>12, <1>13, BlankNext, SMT, SMTT(60)

LEMMA EndOrderly ==
    ASSUME ProcessEnd
    PROVE  Orderly'
  <1>1. /\ queueRef' = None /\ thread' = None
        /\ queues' = [q \in QueueIds |-> <<>>] /\ unfinished' = [q \in QueueIds |-> 0]
        /\ pc' = [t \in Threads |-> IF t = Main THEN "down" ELSE IF t \in Clients THEN "idle" ELSE "unborn"]
        /\ arg' = [t \in Threads |-> None] /\ removable' = [t \in Threads |-> {}]
    BY DEF ProcessEnd
  <1>2. /\ pc'[Main] = "down" /\ (\A c \in Clients : pc'[c] = "idle") /\ \A w \in Workers : pc'[w] = "unborn"
    BY <1>1, ThreadsAssumption DEF Threads
  <1>3. Blank'
    BY <1>1, <1>2 DEF Blank, Serving, QueueIds
  <1>4. WorkerInv'
    BY <1>1, <1>2 DEF WorkerInv, Serving, Starting
  <1>. QED  BY <1>3, <1>4, BlankNext

\* stop(): from here on only what holds of a worker that is told to end matters.
LEMMA StopOrderly ==
    ASSUME Quiet, Stop
    PROVE  Orderly'
  <1>1. /\ Serving /\ (\A c \in Clients : pc[c] = "idle") /\ Goto(Main, "join")
        /\ queues' = [queues EXCEPT ![queueRef] = Append(@, None)]
        /\ UNCHANGED <<queueRef, rows, stamp, arg, removable, ref>>
    BY DEF Stop, storeVars, localVars
  <1>2. pc'[Main] = "join" /\ \A x \in Threads : x # Main => pc'[x] = pc[x]
    BY <1>1, GotoFacts DEF Quiet, IndInv, TypeOK, Threads
  <1>3. (\A c \in Clients : pc'[c] = pc[c]) /\ \A w \in Workers : pc'[w] = pc[w]
    BY <1>2, ThreadsAssumption DEF Threads
  <1>4. WorkerInv'
    <2>1. WorkerInv
      BY DEF Quiet
    <2>. QED  BY <1>1, <1>2, <1>3, <2>1 DEF WorkerInv, Serving, Starting
  <1>5. TaskInv'
    BY <1>1, <1>2, <1>3 DEF Quiet, TaskInv, Serving
  <1>6. ASSUME NEW p \in Probes
        PROVE  Queued(p)' => Queued(p)
    <2>1. queues \in [QueueIds -> Seq(Probes \cup {None})] /\ queueRef \in QueueIds
      BY DEF Quiet, IndInv, TypeOK, SharedOK
    <2>2. PICK s \in Seq(Probes \cup {None}) : s = queues[queueRef]
      BY <2>1
    <2>3. PICK u : u = Append(s, None)
      OBVIOUS
    <2>4. /\ queues'[queueRef] = u /\ \A q \in QueueIds : q # queueRef => queues'[q] = queues[q]
      BY <1>1, <2>1, <2>2, <2>3
    <2>5. Has(u, p) => Has(s, p)
      <3>1. p # None
        BY ThreadsAssumption
      <3>. QED  BY <2>2, <2>3, <3>1, AppendHas
    <2>6. ASSUME NEW q \in QueueIds, InQueue(q, p)'
          PROVE  InQueue(q, p)
      <3>1. CASE q = queueRef
        <4>1. Has(u, p)
          BY <2>4, <2>6, <3>1 DEF InQueue, Has
        <4>. QED  BY <2>2, <2>5, <3>1, <4>1 DEF InQueue, Has
      <3>2. CASE q # queueRef
        BY <2>4, <2>6, <3>2 DEF InQueue
      <3>. QED  BY <3>1, <3>2
    <2>. QED  BY <2>6 DEF Queued
  <1>7. RowInv'
    <2>1. ASSUME NEW x \in Threads, arg'[x] # None
          PROVE  rows'[arg'[x]].status = Expected(pc'[x])
      <3>1. rows[arg[x]].status = Expected(pc[x])
        BY <1>1, <2>1 DEF Quiet, RowInv
      <3>2. x # Main
        BY <1>1, <2>1 DEF Quiet, ArgInv, AtWork, Serving
      <3>. QED  BY <1>1, <1>2, <3>1, <3>2
    <2>2. ASSUME NEW p \in Probes, Queued(p)'
          PROVE  rows'[p].status = "queued"
      BY <1>1, <1>6, <2>2 DEF Quiet, RowInv
    <2>3. ASSUME NEW x \in Threads, NEW p \in removable'[x]
          PROVE  rows'[p].status \notin Active /\ stamp'[p] # 0 /\ ~ Held(p)' /\ ~ Queued(p)'
      <3>1. /\ p \in Probes /\ rows[p].status \notin Active /\ stamp[p] # 0 /\ ~ Held(p) /\ ~ Queued(p)
        BY <1>1, <2>3, RemovableTypes
      <3>. QED  BY <1>1, <1>6, <3>1 DEF Held
    <2>4. pc'[Main] \notin {"swap", "launch", "serving"}
      BY <1>2
    <2>. QED  BY <2>1, <2>2, <2>3, <2>4 DEF RowInv
  <1>. QED  BY <1>4, <1>5, <1>7 DEF Orderly

-----------------------------------------------------------------------------
(* Calm is inductive.                                                       *)

\* Only the end of the process forgets that a store call has failed.
LEMMA FaultsKept ==
    ASSUME TypeOK, Next, ~ ProcessEnd, faults' = 0
    PROVE  faults = 0
  <1>1. \A t : ~ StoreFault(t)
    BY SMT, SMTT(60) DEF TypeOK, HistoryOK, StoreFault
  <1>. QED
    BY <1>1
       DEF Next, StarterStep, ProbeStep, RequestStep, WorkerStep, Begin, Prepare, Create, Enqueue, Put,
           StartCheck, Recover, Swap, Launch, RunProbe, Finish, PruneSelect, PruneDelete,
           Loop, Get, GetTimeout, Load, Mark, TaskDone, Boot, Stop

\* No request of a process whose store has not failed gets beyond the check of
\* start(): the worker is alive.
LEMMA ClientsFindWorker ==
    ASSUME Quiet, NEW c \in Clients
    PROVE  ~ Recover(c) /\ ~ Swap(c) /\ ~ Launch(c)
  <1>1. pc[c] \notin {"recover", "swap", "launch"}
    BY DEF Quiet, WorkerInv
  <1>2. ~ Recover(c)
    BY <1>1 DEF Recover
  <1>3. ~ Swap(c)
    BY <1>1 DEF Swap
  <1>4. ~ Launch(c)
    BY <1>1 DEF Launch
  <1>. QED  BY <1>2, <1>3, <1>4

LEMMA NextOrderly ==
    ASSUME Quiet, Next
    PROVE  Orderly'
  <1>1. ASSUME NEW c \in Clients, RequestStep(c) PROVE Orderly'
    BY <1>1, PrepareOrderly, CreateOrderly, EnqueueOrderly, PutOrderly DEF RequestStep
  <1>2. ASSUME NEW c \in Clients, StarterStep(c) PROVE Orderly'
    BY <1>2, StartCheckOrderly, ClientsFindWorker DEF StarterStep
  <1>3. CASE StarterStep(Main)
    BY <1>3, MainStartOrderly, RecoverOrderly, SwapOrderly, LaunchOrderly DEF StarterStep
  <1>4. ASSUME NEW t \in Clients \cup Workers, ProbeStep(t) PROVE Orderly'
    BY <1>4, RunProbeOrderly, FinishOrderly, PruneSelectOrderly, PruneDeleteOrderly DEF ProbeStep
  <1>5. ASSUME NEW w \in Workers, WorkerStep(w) PROVE Orderly'
    BY <1>5, LoopOrderly, GetOrderly, GetTimeoutOrderly, LoadOrderly, MarkOrderly, TaskDoneOrderly
       DEF WorkerStep
  <1>. QED
    BY <1>1, <1>2, <1>3, <1>4, <1>5, BeginOrderly, BootOrderly, StopOrderly, EndOrderly DEF Next

LEMMA NextCalm == IndInv /\ ArgInv /\ Calm /\ [Next]_vars => Calm'
  <1> SUFFICES ASSUME IndInv, ArgInv, Calm, [Next]_vars, faults' = 0 PROVE Orderly'
    BY DEF Calm
  <1>1. CASE Next /\ ~ ProcessEnd
    <2>1. faults = 0
      BY <1>1, FaultsKept DEF IndInv
    <2>2. Quiet
      BY <2>1 DEF Quiet, Calm, Orderly
    <2>. QED  BY <1>1, <2>2, NextOrderly
  <1>2. CASE ProcessEnd
    BY <1>2, EndOrderly
  <1>3. CASE UNCHANGED vars
    <2>1. UNCHANGED <<rows, stamp, thread, stopped, queueRef, queues, unfinished, pc, arg, removable, ref, faults>>
      BY <1>3 DEF vars, storeVars, sharedVars, localVars
    <2>2. WorkerInv /\ TaskInv /\ RowInv
      BY <2>1 DEF Calm, Orderly
    <2>3. WorkerInv'
      BY <2>1, <2>2 DEF WorkerInv, Serving, Starting, Alive
    <2>4. TaskInv'
      BY <2>1, <2>2 DEF TaskInv, Serving, Busy, InQueue
    <2>5. RowInv'
      <3>1. ASSUME NEW p
            PROVE  /\ Queued(p)' <=> Queued(p)
                   /\ Held(p)' <=> Held(p)
                   /\ IsActive(p)' <=> IsActive(p)
                   /\ InQueue(queueRef, p)' <=> InQueue(queueRef, p)
        BY <2>1 DEF Queued, InQueue, Held, IsActive
      <3>. QED  BY <2>1, <2>2, <3>1 DEF RowInv
    <2>. QED  BY <2>3, <2>4, <2>5 DEF Orderly
  <1>. QED  BY <1>1, <1>2, <1>3

LEMMA InitCalm == Init => ArgInv /\ Calm
  <1> SUFFICES ASSUME Init PROVE ArgInv /\ Orderly
    BY DEF Calm
  <1>1. /\ queueRef = None /\ thread = None
        /\ queues = [q \in QueueIds |-> <<>>] /\ unfinished = [q \in QueueIds |-> 0]
        /\ pc = [t \in Threads |-> IF t = Main THEN "down" ELSE IF t \in Clients THEN "idle" ELSE "unborn"]
        /\ arg = [t \in Threads |-> None] /\ removable = [t \in Threads |-> {}]
    BY DEF Init
  <1>2. pc[Main] = "down" /\ (\A c \in Clients : pc[c] = "idle") /\ \A w \in Workers : pc[w] = "unborn"
    BY <1>1, ThreadsAssumption DEF Threads
  <1>3. Blank
    BY <1>1, <1>2 DEF Blank, Serving, QueueIds
  <1>4. WorkerInv
    BY <1>1, <1>2 DEF WorkerInv, Serving, Starting
  <1>5. ArgInv
    BY <1>1 DEF ArgInv
  <1>. QED  BY <1>3, <1>4, <1>5, BlankInv DEF Orderly

LEMMA AlwaysCalm == Spec => [](IndInv /\ ArgInv /\ Calm)
  <1>1. IndInv /\ ArgInv /\ [Next]_vars => ArgInv'
    BY NextArgInv DEF IndInv
  <1>. QED  BY <1>1, Inductive, InitCalm, NextCalm, PTL DEF Spec

-----------------------------------------------------------------------------
(* What holds while the store has not failed.                               *)

\* As long as no store call has failed, start() has created one worker at most,
\* however many submit() calls race through its check.
THEOREM OneWorker == Spec => []SingleWorker
  <1>1. Calm => SingleWorker
    BY DEF Calm, Orderly, WorkerInv, SingleWorker
  <1>. QED  BY <1>1, AlwaysCalm, PTL

\* As long as no store call has failed, submit(), run_sync(), _run and
\* fail_stale_runs() leave no queued or running row without a thread, or a place
\* in the worker's queue, that will finish it.
THEOREM RowsAreOwned == Spec => []ActiveRowsOwned
  <1>1. Calm => ActiveRowsOwned
    BY DEF Calm, Orderly, RowInv, Held, Serving, ActiveRowsOwned
  <1>. QED  BY <1>1, AlwaysCalm, PTL

\* As long as no store call has failed, prune_finished_runs deletes no queued or
\* running row, although rows are written between its select and its delete.
THEOREM ActiveRowsSpared == Spec => PruneSparesActive
  <1>0. NoRow.status = "absent"
    BY DEF NoRow
  <1> DEFINE Spares(p) == IsActive(p) => rows'[p] # NoRow
  <1>1. ASSUME IndInv, Calm, [Next]_vars, faults = 0, NEW p \in Probes PROVE Spares(p)
    <2> SUFFICES ASSUME IsActive(p) PROVE rows'[p] # NoRow
      OBVIOUS
    <2>1. rows[p] # NoRow /\ rows[p].status \in {"queued", "running"}
      BY <1>0 DEF IsActive, Active
    <2>2. rows \in [Probes -> Row \cup {NoRow}] /\ rec \in [Threads -> Row \cup {NoRow}]
      BY <1>1 DEF IndInv, TypeOK, StoreOK, LocalOK
    <2>3. ASSUME NEW c \in Clients, Create(c) PROVE rows'[p] # NoRow
      <3>1. \A r : r = NewRow("queued") \/ r = NewRow("running") => r # NoRow
        BY SMT, SMTT(60) DEF NewRow, NoRow
      <3>2. rows' = rows \/ rows' = [rows EXCEPT ![arg[c]] = NewRow("queued")]
                         \/ rows' = [rows EXCEPT ![arg[c]] = NewRow("running")]
        BY <2>3 DEF Create
      <3>. QED  BY <2>1, <2>2, <3>1, <3>2
    <2>4. ASSUME NEW t \in Clients \cup {Main}, Recover(t) PROVE rows'[p] # NoRow
      <3>1. FailStale(p) # NoRow
        BY <2>1, <2>2 DEF FailStale, IsActive, Row, NoRow
      <3>. QED  BY <2>1, <2>4, <3>1 DEF Recover
    <2>5. ASSUME NEW t \in Clients \cup Workers, Finish(t) PROVE rows'[p] # NoRow
      <3>1. Completed(rec[t], out[t]) # NoRow
        <4>1. rec[t] \in Row \cup {NoRow}
          BY <2>2 DEF Threads
        <4>2. \A r \in Row \cup {NoRow} : \A o : Completed(r, o) # NoRow
          BY DEF Completed, Row, NoRow
        <4>. QED  BY <4>1, <4>2
      <3>. QED  BY <2>1, <2>2, <2>5, <3>1 DEF Finish
    <2>6. ASSUME NEW t \in Clients \cup Workers, PruneDelete(t) PROVE rows'[p] # NoRow
      <3>1. p \notin removable[t]
        BY <1>1 DEF Calm, Orderly, RowInv, IsActive, Threads
      <3>. QED  BY <2>1, <2>6, <3>1 DEF PruneDelete
    <2>7. ASSUME NEW w \in Workers, Mark(w) PROVE rows'[p] # NoRow
      <3>1. [rec[w] EXCEPT !.status = "running"] # NoRow
        <4>1. rec[w] \in Row \cup {NoRow}
          BY <2>2 DEF Threads
        <4>2. \A r \in Row \cup {NoRow} : [r EXCEPT !.status = "running"] # NoRow
          BY DEF Row, NoRow
        <4>. QED  BY <4>1, <4>2
      <3>. QED  BY <2>1, <2>2, <2>7, <3>1 DEF Mark
    <2>8. CASE UNCHANGED rows
      BY <2>1, <2>8
    <2>. QED
      BY <1>1, <2>3, <2>4, <2>5, <2>6, <2>7, <2>8
         DEF Next, StarterStep, ProbeStep, RequestStep, WorkerStep, vars, storeVars,
             Begin, Prepare, Enqueue, Put, StartCheck, Swap, Launch, RunProbe, PruneSelect,
             Loop, Get, GetTimeout, Load, TaskDone, Boot, Stop, ProcessEnd
  <1>2. IndInv /\ Calm /\ [Next]_vars => [faults = 0 => \A p \in Probes : Spares(p)]_vars
    BY <1>1
  <1>. QED  BY <1>2, AlwaysCalm, PTL DEF Spec, PruneSparesActive

-----------------------------------------------------------------------------
(* What holds after the store has failed as well.                           *)

\* Requests are under way only while the service is up.
Served == \A c \in Clients : pc[c] # "idle" => Serving

\* What the row of a probe may say while a thread has its id: what the thread
\* expects; failed, when a later start() took the run for one of an earlier
\* process; nothing, when it was pruned after that.
Allowed(l) == IF l = "create" THEN {"absent"} ELSE {Expected(l), "failed", "absent"}

HeldRows ==
    /\ \A t \in Threads : arg[t] # None => rows[arg[t]].status \in Allowed(pc[t])
    /\ \A p \in Probes : Queued(p) => rows[p].status \in {"queued", "failed", "absent"}

\* One thread moves: a thread at work goes on, or a request begins.
LEMMA StepServed ==
    ASSUME PcOK, Served, NEW t \in Clients \cup Workers, NEW l, Goto(t, l),
           pc[t] # "idle" \/ Serving
    PROVE  Served'
  <1>1. t \in Threads /\ t # Main /\ Main \in Threads
    BY DEF Threads
  <1>2. \A x \in Threads : x # t => pc'[x] = pc[x]
    BY <1>1, GotoFacts
  <1>3. Serving' = Serving
    BY <1>1, <1>2 DEF Serving
  <1>4. \A c \in Clients : c # t => pc'[c] = pc[c]
    BY <1>2 DEF Threads
  <1>. QED  BY <1>3, <1>4 DEF Served

LEMMA NextServed == TypeOK /\ LaunchInv /\ Served /\ [Next]_vars => Served'
  <1> SUFFICES ASSUME TypeOK, LaunchInv, Served, [Next]_vars PROVE Served'
    OBVIOUS
  <1>0. PcOK /\ pc \in [Threads -> MainLabels \cup ClientLabels \cup WorkerLabels]
    BY DEF TypeOK, PcOK
  <1>1. ASSUME NEW c \in Clients, Begin(c) PROVE Served'
    <2>1. Serving /\ \E l : Goto(c, l)
      BY <1>1 DEF Begin
    <2>. QED  BY <1>0, <2>1, StepServed
  <1>2. ASSUME NEW c \in Clients, Prepare(c) PROVE Served'
    <2>1. pc[c] # "idle" /\ \E l : Goto(c, l)
      BY <1>2 DEF Prepare
    <2>. QED  BY <1>0, <2>1, StepServed
  <1>3. ASSUME NEW c \in Clients, Create(c) PROVE Served'
    <2>1. pc[c] # "idle" /\ \E l : Goto(c, l)
      BY <1>3 DEF Create, StoreFault
    <2>. QED  BY <1>0, <2>1, StepServed
  <1>4. ASSUME NEW c \in Clients, Enqueue(c) PROVE Served'
    <2>1. pc[c] # "idle" /\ \E l : Goto(c, l)
      BY <1>4 DEF Enqueue
    <2>. QED  BY <1>0, <2>1, StepServed
  <1>5. ASSUME NEW c \in Clients, Put(c) PROVE Served'
    <2>1. pc[c] # "idle" /\ \E l : Goto(c, l)
      BY <1>5 DEF Put
    <2>. QED  BY <1>0, <2>1, StepServed
  <1>6. ASSUME NEW t \in Clients \cup Workers, RunProbe(t) PROVE Served'
    <2>1. pc[t] # "idle" /\ \E l : Goto(t, l)
      BY <1>6 DEF RunProbe
    <2>. QED  BY <1>0, <2>1, StepServed
  <1>7. ASSUME NEW t \in Clients \cup Workers, Finish(t) PROVE Served'
    <2>1. pc[t] # "idle" /\ \E l : Goto(t, l)
      BY <1>7 DEF Finish, StoreFault
    <2>. QED  BY <1>0, <2>1, StepServed
  <1>8. ASSUME NEW t \in Clients \cup Workers, PruneSelect(t) PROVE Served'
    <2>1. pc[t] # "idle" /\ \E l : Goto(t, l)
      BY <1>8 DEF PruneSelect, StoreFault
    <2>. QED  BY <1>0, <2>1, StepServed
  <1>9. ASSUME NEW t \in Clients \cup Workers, PruneDelete(t) PROVE Served'
    <2>1. pc[t] # "idle" /\ \E l : Goto(t, l)
      BY <1>9 DEF PruneDelete, StoreFault
    <2>. QED  BY <1>0, <2>1, StepServed
  <1>10. ASSUME NEW w \in Workers, Loop(w) PROVE Served'
    <2>1. pc[w] # "idle" /\ \E l : Goto(w, l)
      BY <1>10 DEF Loop
    <2>. QED  BY <1>0, <2>1, StepServed
  <1>11. ASSUME NEW w \in Workers, Get(w) PROVE Served'
    <2>1. pc[w] # "idle" /\ \E l : Goto(w, l)
      BY <1>11 DEF Get
    <2>. QED  BY <1>0, <2>1, StepServed
  <1>12. ASSUME NEW w \in Workers, GetTimeout(w) PROVE Served'
    <2>1. pc[w] # "idle" /\ \E l : Goto(w, l)
      BY <1>12 DEF GetTimeout
    <2>. QED  BY <1>0, <2>1, StepServed
  <1>13. ASSUME NEW w \in Workers, Load(w) PROVE Served'
    <2>1. pc[w] # "idle" /\ \E l : Goto(w, l)
      BY <1>13 DEF Load, StoreFault
    <2>. QED  BY <1>0, <2>1, StepServed
  <1>14. ASSUME NEW w \in Workers, Mark(w) PROVE Served'
    <2>1. pc[w] # "idle" /\ \E l : Goto(w, l)
      BY <1>14 DEF Mark, StoreFault
    <2>. QED  BY <1>0, <2>1, StepServed
  <1>15. ASSUME NEW w \in Workers, TaskDone(w) PROVE Served'
    <2>1. pc[w] # "idle" /\ \E l : Goto(w, l)
      BY <1>15 DEF TaskDone
    <2>. QED  BY <1>0, <2>1, StepServed
  <1>16. ASSUME NEW c \in Clients, StarterStep(c) PROVE Served'
    <2>1. pc[c] # "idle"
      BY <1>16 DEF StarterStep, StartCheck, Recover, Swap, Launch
    <2>2. CASE StartCheck(c) \/ Recover(c)
      <3>1. \E l : Goto(c, l)
        BY <2>2 DEF StartCheck, Recover, StoreFault
      <3>. QED  BY <1>0, <2>1, <3>1, StepServed
    <2>3. CASE Swap(c) \/ Launch(c)
      <3>1. \E w \in Workers : \E k, l : pc' = [pc EXCEPT ![c] = k, ![w] = l]
        <4>1. CASE Swap(c)
          <5>1. PICK w \in Workers : pc' = [pc EXCEPT ![c] = "launch", ![w] = "created"]
            BY <4>1 DEF Swap
          <5>. QED  BY <5>1
        <4>2. CASE Launch(c)
          <5>1. pc[c] = "launch" /\ pc' = [pc EXCEPT ![c] = AfterStart(c), ![ref[c]] = "loop"]
            BY <4>2 DEF Launch
          <5>2. ref[c] \in Workers
            BY <5>1 DEF LaunchInv, Threads
          <5>. QED  BY <5>1, <5>2
        <4>. QED  BY <2>3, <4>1, <4>2
      <3>2. PICK w \in Workers : \A x \in Threads : x # c /\ x # w => pc'[x] = pc[x]
        BY <1>0, <3>1
      <3>3. Serving' = Serving
        BY <3>2 DEF Serving, Threads
      <3>4. \A x \in Clients : x # c => pc'[x] = pc[x]
        BY <3>2 DEF Threads
      <3>. QED  BY <2>1, <3>3, <3>4 DEF Served
    <2>. QED  BY <1>16, <2>2, <2>3 DEF StarterStep
  <1>17. CASE StarterStep(Main) \/ Boot
    <2>1. pc[Main] # "serving"
      BY <1>17 DEF StarterStep, StartCheck, Recover, Swap, Launch, Boot
    <2>2. \A c \in Clients : pc[c] = "idle"
      BY <2>1 DEF Served, Serving
    <2>3. CASE StartCheck(Main) \/ Recover(Main) \/ Boot
      <3>1. \E l : Goto(Main, l)
        BY <2>3 DEF StartCheck, Recover, StoreFault, Boot
      <3>2. \A x \in Threads : x # Main => pc'[x] = pc[x]
        BY <1>0, <3>1, GotoFacts DEF Threads
      <3>. QED  BY <2>2, <3>2 DEF Served, Threads
    <2>4. CASE Swap(Main) \/ Launch(Main)
      <3>1. \E w \in Workers : \E k, l : pc' = [pc EXCEPT ![Main] = k, ![w] = l]
        <4>1. CASE Swap(Main)
          <5>1. PICK w \in Workers : pc' = [pc EXCEPT ![Main] = "launch", ![w] = "created"]
            BY <4>1 DEF Swap
          <5>. QED  BY <5>1
        <4>2. CASE Launch(Main)
          <5>1. pc[Main] = "launch" /\ pc' = [pc EXCEPT ![Main] = AfterStart(Main), ![ref[Main]] = "loop"]
            BY <4>2 DEF Launch
          <5>2. ref[Main] \in Workers
            BY <5>1 DEF LaunchInv, Threads
          <5>. QED  BY <5>1, <5>2
        <4>. QED  BY <2>4, <4>1, <4>2
      <3>2. PICK w \in Workers : \A x \in Threads : x # Main /\ x # w => pc'[x] = pc[x]
        BY <1>0, <3>1
      <3>3. \A c \in Clients : pc'[c] = pc[c]
        BY <3>2 DEF Threads
      <3>. QED  BY <2>2, <3>3 DEF Served
    <2>. QED  BY <1>17, <2>3, <2>4 DEF StarterStep
  <1>18. CASE Stop
    <2>1. (\A c \in Clients : pc[c] = "idle") /\ Goto(Main, "join")
      BY <1>18 DEF Stop
    <2>2. \A c \in Clients : pc'[c] = pc[c]
      BY <1>0, <2>1, GotoFacts DEF Threads
    <2>. QED  BY <2>1, <2>2 DEF Served
  <1>19. CASE ProcessEnd
    BY <1>19 DEF ProcessEnd, Served, Threads
  <1>20. CASE UNCHANGED vars
    BY <1>20 DEF vars, Served, Serving
  <1>. QED
    BY <1>1, <1>2, <1>3, <1>4, <1>5, <1>6, <1>7, <1>8, <1>9, <1>10, <1>11, <1>12, <1>13, <1>14, <1>15, <1>16, <1>17, <1>18, <1>19, <1>20
       DEF Next, ProbeStep, RequestStep, WorkerStep

-----------------------------------------------------------------------------
(* What each step does to HeldRows.                                         *)

\* Both places are before the create, both before the run, or both after it.
SameJob(l, m) == l # "create" /\ m # "create" /\ Expected(l) = Expected(m)

\* A row is not written but by fail_stale_runs and prune_finished_runs.
Fades(p) == rows'[p].status \in {rows[p].status, "absent"} \/ (IsActive(p) /\ rows'[p].status = "failed")

\* A thread gets no other id.
Keeps(t) == arg'[t] # None => arg'[t] = arg[t] /\ (pc'[t] = pc[t] \/ SameJob(pc[t], pc'[t]))

LEMMA HeldFrame ==
    ASSUME TypeOK, HeldRows, \A p \in Probes : Fades(p), \A t \in Threads : Keeps(t),
           \A p \in Probes : Queued(p)' => Queued(p)
    PROVE  HeldRows'
  <1>1. ASSUME NEW t \in Threads, arg'[t] # None
        PROVE  rows'[arg'[t]].status \in Allowed(pc'[t])
    <2>1. arg'[t] = arg[t] /\ (pc'[t] = pc[t] \/ SameJob(pc[t], pc'[t]))
      BY <1>1 DEF Keeps
    <2>2. arg[t] \in Probes
      BY <1>1, <2>1 DEF TypeOK, LocalOK
    <2>3. PICK p \in Probes : p = arg[t]
      BY <2>2
    <2>4. rows[p].status \in Allowed(pc[t])
      BY <1>1, <2>1, <2>3 DEF HeldRows
    <2>5. Allowed(pc'[t]) = Allowed(pc[t])
      BY <2>1 DEF SameJob, Allowed
    <2>6. rows'[p].status \in {rows[p].status, "absent"} \/ (IsActive(p) /\ rows'[p].status = "failed")
      BY DEF Fades
    <2>7. rows'[p].status \in Allowed(pc[t])
      BY <2>4, <2>6 DEF Allowed, IsActive, Active
    <2>. QED  BY <2>1, <2>3, <2>5, <2>7
  <1>2. ASSUME NEW p \in Probes, Queued(p)'
        PROVE  rows'[p].status \in {"queued", "failed", "absent"}
    BY <1>2 DEF HeldRows, Fades
  <1>. QED  BY <1>1, <1>2 DEF HeldRows

LEMMA StepHeld ==
    ASSUME TypeOK, HeldRows, NEW t \in Threads, NEW l, Goto(t, l), UNCHANGED queues,
           \A p \in Probes : Fades(p), \A x \in Threads : x # t => arg'[x] = arg[x],
           arg'[t] = None \/ (arg'[t] = arg[t] /\ SameJob(pc[t], l))
    PROVE  HeldRows'
  <1>1. pc'[t] = l /\ \A x \in Threads : x # t => pc'[x] = pc[x]
    BY GotoFacts DEF TypeOK
  <1>2. \A x \in Threads : Keeps(x)
    BY <1>1 DEF Keeps
  <1>3. \A p \in Probes : Queued(p)' => Queued(p)
    BY DEF Queued, InQueue
  <1>. QED  BY <1>2, <1>3, HeldFrame

\* A thread that works for no probe moves.
LEMMA IdleHeld ==
    ASSUME TypeOK, ArgInv, HeldRows, NEW t \in Threads, NEW l, Goto(t, l), UNCHANGED <<queues, arg>>,
           \A p \in Probes : Fades(p), ~ AtWork(t)
    PROVE  HeldRows'
  <1>1. arg'[t] = None /\ \A x \in Threads : x # t => arg'[x] = arg[x]
    BY DEF ArgInv
  <1>. QED  BY <1>1, StepHeld

LEMMA SameFades ==
    ASSUME UNCHANGED rows
    PROVE  \A p \in Probes : Fades(p)
  BY DEF Fades

\* The thread that holds an id writes its row.
LEMMA WriteHeld ==
    ASSUME TypeOK, Ownership, HeldRows, NEW t \in Threads, NEW l, NEW r, Goto(t, l), UNCHANGED queues,
           arg[t] # None, rows' = [rows EXCEPT ![arg[t]] = r],
           \A x \in Threads : x # t => arg'[x] = arg[x],
           arg'[t] = None \/ (arg'[t] = arg[t] /\ r.status \in Allowed(l))
    PROVE  HeldRows'
  <1>1. pc'[t] = l /\ \A x \in Threads : x # t => pc'[x] = pc[x]
    BY GotoFacts DEF TypeOK
  <1>2. PICK p \in Probes : p = arg[t]
    BY DEF TypeOK, LocalOK
  <1>3. rows'[p] = r /\ \A q \in Probes : q # p => rows'[q] = rows[q]
    BY <1>2 DEF TypeOK, StoreOK
  <1>4. (\A x \in Threads : x # t => arg[x] # p) /\ ~ Queued(p)
    BY <1>2 DEF Ownership, HolderInv
  <1>5. arg \in [Threads -> Probes \cup {None}]
    BY DEF TypeOK, LocalOK
  <1>6. ASSUME NEW x \in Threads, arg'[x] # None
        PROVE  rows'[arg'[x]].status \in Allowed(pc'[x])
    <2>1. CASE x = t
      BY <1>1, <1>2, <1>3, <1>6, <2>1
    <2>2. CASE x # t
      <3>1. arg'[x] = arg[x] /\ arg[x] \in Probes /\ arg[x] # p
        BY <1>4, <1>5, <1>6, <2>2
      <3>2. rows[arg[x]].status \in Allowed(pc[x])
        BY <1>6, <3>1 DEF HeldRows
      <3>. QED  BY <1>1, <1>3, <2>2, <3>1, <3>2
    <2>. QED  BY <2>1, <2>2
  <1>7. ASSUME NEW q \in Probes, Queued(q)'
        PROVE  rows'[q].status \in {"queued", "failed", "absent"}
    <2>1. Queued(q)
      BY <1>7 DEF Queued, InQueue
    <2>. QED  BY <1>3, <1>4, <2>1 DEF HeldRows
  <1>. QED  BY <1>6, <1>7 DEF HeldRows

\* Where a thread that prunes goes on for the probe that it has.
LEMMA PruneJob ==
    ASSUME TypeOK, ArgInv, NEW t \in Clients \cup Workers, pc[t] \in {"prune", "delete"},
           NEW l \in {"delete", AfterPrune(t)}
    PROVE  arg[t] = None \/ SameJob(pc[t], l)
  <1> SUFFICES ASSUME arg[t] # None PROVE SameJob(pc[t], l)
    OBVIOUS
  <1>1. AtWork(t)
    BY DEF ArgInv, Threads
  <1>2. t \in Clients /\ kind[t] = "submit"
    BY <1>1 DEF AtWork
  <1>3. l \in {"delete", "enqueue"}
    BY <1>2 DEF AfterPrune
  <1>. QED  BY <1>3 DEF SameJob, Expected

LEMMA PrepareHeld ==
    ASSUME TypeOK, ArgInv, Ownership, HeldRows, NEW c \in Clients, Prepare(c)
    PROVE  HeldRows'
  <1>1. pc[c] = "prepare" /\ UNCHANGED <<queues, rows>> /\ c \in Threads
    BY DEF Prepare, sharedVars, Threads
  <1>2. CASE Goto(c, "idle") /\ UNCHANGED arg
    <2>1. ~ AtWork(c)
      BY <1>1 DEF AtWork
    <2>. QED  BY <1>1, <1>2, <2>1, SameFades, IdleHeld
  <1>3. CASE \E p \in Probes : stamp[p] = 0 /\ arg' = [arg EXCEPT ![c] = p] /\ Goto(c, "create")
    <2>1. PICK p \in Probes : stamp[p] = 0 /\ arg' = [arg EXCEPT ![c] = p] /\ Goto(c, "create")
      BY <1>3
    <2>2. pc'[c] = "create" /\ \A x \in Threads : x # c => pc'[x] = pc[x]
      BY <1>1, <2>1, GotoFacts DEF TypeOK
    <2>3. arg'[c] = p /\ \A x \in Threads : x # c => arg'[x] = arg[x]
      BY <1>1, <2>1 DEF TypeOK, LocalOK
    <2>4. rows[p] = NoRow
      BY <2>1 DEF Ownership, FreshInv
    <2>5. rows[p].status \in Allowed("create")
      <3>1. NoRow.status = "absent"
        BY DEF NoRow
      <3>. QED  BY <2>4, <3>1 DEF Allowed
    <2>6. ASSUME NEW x \in Threads, arg'[x] # None
          PROVE  rows'[arg'[x]].status \in Allowed(pc'[x])
      <3>1. CASE x = c
        BY <1>1, <2>2, <2>3, <2>5, <3>1
      <3>2. CASE x # c
        <4>1. rows[arg[x]].status \in Allowed(pc[x])
          BY <2>3, <2>6, <3>2 DEF HeldRows
        <4>. QED  BY <1>1, <2>2, <2>3, <3>2, <4>1
      <3>. QED  BY <3>1, <3>2
    <2>7. ASSUME NEW q \in Probes, Queued(q)'
          PROVE  rows'[q].status \in {"queued", "failed", "absent"}
      <3>1. Queued(q)
        BY <1>1, <2>7 DEF Queued, InQueue
      <3>. QED  BY <1>1, <3>1 DEF HeldRows
    <2>. QED  BY <2>6, <2>7 DEF HeldRows
  <1>. QED  BY <1>2, <1>3 DEF Prepare

LEMMA PutHeld ==
    ASSUME TypeOK, LocalsSet, HeldRows, NEW c \in Clients, Put(c)
    PROVE  HeldRows'
  <1>1. /\ pc[c] = "put" /\ UNCHANGED rows /\ c \in Threads /\ Goto(c, "idle")
        /\ queues' = [queues EXCEPT ![ref[c]] = Append(@, arg[c])] /\ arg' = [arg EXCEPT ![c] = None]
    BY DEF Put, storeVars, Threads
  <1>2. /\ queues \in [QueueIds -> Seq(Probes \cup {None})] /\ ref[c] \in QueueIds
        /\ arg \in [Threads -> Probes \cup {None}]
    BY <1>1 DEF TypeOK, SharedOK, LocalOK
  <1>3. PICK p \in Probes : p = arg[c] /\ p # None
    BY <1>1, <1>2 DEF LocalsSet
  <1>4. PICK s \in Seq(Probes \cup {None}) : s = queues[ref[c]]
    BY <1>2
  <1>5. PICK u : u = Append(s, p)
    OBVIOUS
  <1>6. queues'[ref[c]] = u /\ \A q \in QueueIds : q # ref[c] => queues'[q] = queues[q]
    BY <1>1, <1>2, <1>3, <1>4, <1>5
  <1>7. \A x : Has(u, x) <=> Has(s, x) \/ x = p
    BY <1>4, <1>5, AppendHas
  <1>8. rows[p].status \in {"queued", "failed", "absent"}
    <2>1. rows[p].status \in Allowed("put")
      BY <1>1, <1>3 DEF HeldRows
    <2>. QED  BY <2>1 DEF Allowed, Expected
  <1>9. ASSUME NEW x \in Threads, arg'[x] # None
        PROVE  rows'[arg'[x]].status \in Allowed(pc'[x])
    <2>1. x # c
      BY <1>1, <1>2, <1>9
    <2>2. arg'[x] = arg[x] /\ pc'[x] = pc[x]
      BY <1>1, <1>2, <2>1, GotoFacts DEF TypeOK
    <2>3. rows[arg[x]].status \in Allowed(pc[x])
      BY <1>9, <2>2 DEF HeldRows
    <2>. QED  BY <1>1, <2>2, <2>3
  <1>10. ASSUME NEW x \in Probes, Queued(x)'
         PROVE  rows'[x].status \in {"queued", "failed", "absent"}
    <2>1. PICK q \in QueueIds : InQueue(q, x)'
      BY <1>10 DEF Queued
    <2>2. CASE q # ref[c]
      <3>1. InQueue(q, x)
        BY <1>6, <2>1, <2>2 DEF InQueue
      <3>. QED  BY <1>1, <3>1 DEF HeldRows, Queued
    <2>3. CASE q = ref[c]
      <3>1. Has(u, x)
        BY <1>6, <2>1, <2>3 DEF InQueue, Has
      <3>2. CASE Has(s, x)
        <4>1. InQueue(q, x)
          BY <1>4, <2>3, <3>2 DEF InQueue, Has
        <4>. QED  BY <1>1, <4>1 DEF HeldRows, Queued
      <3>. QED  BY <1>1, <1>7, <1>8, <3>1, <3>2
    <2>. QED  BY <2>2, <2>3
  <1>. QED  BY <1>9, <1>10 DEF HeldRows

LEMMA GetHeld ==
    ASSUME TypeOK, HeldRows, NEW w \in Workers, Get(w)
    PROVE  HeldRows'
  <1>1. /\ UNCHANGED rows /\ queues[ref[w]] # << >> /\ w \in Threads
        /\ queues' = [queues EXCEPT ![ref[w]] = Tail(@)] /\ arg' = [arg EXCEPT ![w] = Head(queues[ref[w]])]
        /\ Goto(w, IF Head(queues[ref[w]]) = None THEN "ending" ELSE "load")
    BY DEF Get, storeVars, Threads
  <1>2. /\ queues \in [QueueIds -> Seq(Probes \cup {None})] /\ ref[w] \in QueueIds
        /\ arg \in [Threads -> Probes \cup {None}]
    BY <1>1 DEF TypeOK, SharedOK, LocalOK
  <1>3. PICK s \in Seq(Probes \cup {None}) : s = queues[ref[w]] /\ s # << >>
    BY <1>1, <1>2
  <1>4. PICK u, h : u = Tail(s) /\ h = Head(s)
    OBVIOUS
  <1>5. /\ queues'[ref[w]] = u /\ \A q \in QueueIds : q # ref[w] => queues'[q] = queues[q]
        /\ arg'[w] = h /\ \A x \in Threads : x # w => arg'[x] = arg[x]
    BY <1>1, <1>2, <1>3, <1>4
  <1>6. h \in Probes \cup {None} /\ \A x : Has(s, x) <=> Has(u, x) \/ x = h
    BY <1>3, <1>4, TailHas
  <1>7. h # None => pc'[w] = "load"
    <2>1. Goto(w, IF h = None THEN "ending" ELSE "load")
      BY <1>1, <1>3, <1>4
    <2>. QED  BY <1>1, <2>1, GotoFacts DEF TypeOK
  <1>8. \A x \in Threads : x # w => pc'[x] = pc[x]
    BY <1>1, GotoFacts DEF TypeOK
  <1>9. ASSUME NEW x \in Probes, NEW q \in QueueIds, InQueue(q, x)'
        PROVE  InQueue(q, x)
    <2>1. CASE q # ref[w]
      BY <1>5, <1>9, <2>1 DEF InQueue
    <2>2. CASE q = ref[w]
      <3>1. Has(u, x)
        BY <1>5, <1>9, <2>2 DEF InQueue, Has
      <3>2. Has(s, x)
        BY <1>6, <3>1
      <3>. QED  BY <1>3, <2>2, <3>2 DEF InQueue, Has
    <2>. QED  BY <2>1, <2>2
  <1>10. h # None => rows[h].status \in Allowed("load")
    <2>1. Has(s, h)
      BY <1>6
    <2>2. Queued(h)
      BY <1>2, <1>3, <2>1 DEF Queued, InQueue, Has
    <2>3. h # None => rows[h].status \in {"queued", "failed", "absent"}
      BY <1>6, <2>2 DEF HeldRows
    <2>. QED  BY <2>3 DEF Allowed, Expected
  <1>11. ASSUME NEW x \in Threads, arg'[x] # None
         PROVE  rows'[arg'[x]].status \in Allowed(pc'[x])
    <2>1. CASE x = w
      BY <1>1, <1>5, <1>7, <1>10, <1>11, <2>1
    <2>2. CASE x # w
      <3>1. rows[arg[x]].status \in Allowed(pc[x])
        BY <1>5, <1>11, <2>2 DEF HeldRows
      <3>. QED  BY <1>1, <1>5, <1>8, <2>2, <3>1
    <2>. QED  BY <2>1, <2>2
  <1>12. ASSUME NEW x \in Probes, Queued(x)'
         PROVE  rows'[x].status \in {"queued", "failed", "absent"}
    <2>1. Queued(x)
      BY <1>9, <1>12 DEF Queued
    <2>. QED  BY <1>1, <2>1 DEF HeldRows
  <1>. QED  BY <1>11, <1>12 DEF HeldRows

LEMMA CreateHeld ==
    ASSUME TypeOK, LocalsSet, Ownership, HeldRows, NEW c \in Clients, Create(c)
    PROVE  HeldRows'
  <1>1. pc[c] = "create" /\ UNCHANGED queues /\ c \in Threads
    BY DEF Create, sharedVars, Threads
  <1>2. arg[c] # None
    BY <1>1 DEF LocalsSet
  <1>3. CASE StoreFault(c) /\ arg' = [arg EXCEPT ![c] = None] /\ UNCHANGED rows
    <2>1. arg'[c] = None /\ \A x \in Threads : x # c => arg'[x] = arg[x]
      BY <1>1, <1>3 DEF TypeOK, LocalOK
    <2>. QED  BY <1>1, <1>3, <2>1, SameFades, StepHeld DEF StoreFault
  <1>4. CASE UNCHANGED arg /\ \E b \in {"queued", "running"} :
            /\ rows' = [rows EXCEPT ![arg[c]] = NewRow(b)] /\ Goto(c, IF b = "queued" THEN "prune" ELSE "probe")
    <2>1. PICK b \in {"queued", "running"} :
            /\ rows' = [rows EXCEPT ![arg[c]] = NewRow(b)] /\ Goto(c, IF b = "queued" THEN "prune" ELSE "probe")
      BY <1>4
    <2>2. NewRow(b).status \in Allowed(IF b = "queued" THEN "prune" ELSE "probe")
      BY DEF NewRow, NoRow, Allowed, Expected
    <2>. QED  BY <1>1, <1>2, <1>4, <2>1, <2>2, WriteHeld
  <1>. QED
    <2>1. kind[c] = "submit" => kind[c] # "sync"
      OBVIOUS
    <2>. QED  BY <1>3, <1>4, <2>1 DEF Create

LEMMA FinishHeld ==
    ASSUME TypeOK, LocalsSet, Ownership, HeldRows, NEW t \in Clients \cup Workers, Finish(t)
    PROVE  HeldRows'
  <1>1. pc[t] = "finish" /\ UNCHANGED queues /\ t \in Threads /\ arg' = [arg EXCEPT ![t] = None]
    BY DEF Finish, sharedVars, Threads
  <1>2. arg[t] # None
    BY <1>1 DEF LocalsSet
  <1>3. arg'[t] = None /\ \A x \in Threads : x # t => arg'[x] = arg[x]
    BY <1>1 DEF TypeOK, LocalOK
  <1>4. CASE UNCHANGED rows /\ \E l : Goto(t, l)
    BY <1>1, <1>3, <1>4, SameFades, StepHeld
  <1>5. CASE rows' = [rows EXCEPT ![arg[t]] = Completed(rec[t], out[t])] /\ Goto(t, "prune")
    BY <1>1, <1>2, <1>3, <1>5, WriteHeld
  <1>. QED  BY <1>4, <1>5 DEF Finish, StoreFault

LEMMA MarkHeld ==
    ASSUME TypeOK, LocalsSet, Ownership, HeldRows, NEW w \in Workers, Mark(w)
    PROVE  HeldRows'
  <1>1. pc[w] = "mark" /\ UNCHANGED queues /\ w \in Threads
    BY DEF Mark, sharedVars, Threads
  <1>2. arg[w] # None
    BY <1>1 DEF LocalsSet
  <1>3. CASE arg' = [arg EXCEPT ![w] = None] /\ UNCHANGED rows /\ \E l : Goto(w, l)
    <2>1. arg'[w] = None /\ \A x \in Threads : x # w => arg'[x] = arg[x]
      BY <1>1, <1>3 DEF TypeOK, LocalOK
    <2>. QED  BY <1>1, <1>3, <2>1, SameFades, StepHeld
  <1>4. CASE UNCHANGED arg /\ rows' = [rows EXCEPT ![arg[w]] = [rec[w] EXCEPT !.status = "running"]] /\ Goto(w, "probe")
    <2>1. PICK r : r = [rec[w] EXCEPT !.status = "running"]
      OBVIOUS
    <2>2. rec[w] \in Row \cup {NoRow}
      BY <1>1 DEF TypeOK, LocalOK
    <2>3. r.status = "running"
      BY <2>1, <2>2 DEF Row, NoRow
    <2>4. r.status \in Allowed("probe")
      BY <2>3 DEF Allowed, Expected
    <2>. QED  BY <1>1, <1>2, <1>4, <2>1, <2>4, WriteHeld
  <1>. QED  BY <1>3, <1>4 DEF Mark, StoreFault

\* Moves of a thread that has no id: no row is written.
LEMMA QuietHeld ==
    ASSUME TypeOK, ArgInv, HeldRows, NEW t \in Threads, NEW l, Goto(t, l), UNCHANGED <<rows, queues, arg>>,
           ~ AtWork(t)
    PROVE  HeldRows'
  BY SameFades, IdleHeld
=============================================================================
