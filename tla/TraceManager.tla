---------------------------- MODULE TraceManager ----------------------------
(***************************************************************************)
(* The canary trace manager of ovn_api and the SQL table behind it.        *)
(*                                                                         *)
(* HTTP request threads (Clients) call submit() or run_sync(); one or more *)
(* daemon threads (Workers) run CanaryTraceManager._run; Main is the       *)
(* thread of the FastAPI lifespan, which calls start() before the first    *)
(* request is served and stop() after the last one was answered.  The      *)
(* threads share the manager's lock, _thread, _stop_event and _queue, and  *)
(* the table canary_trace_runs, which alone survives the process.          *)
(*                                                                         *)
(* Every call of the store is a step of its own and may fail: the store    *)
(* then raises an HTTPException.  A probe is one step whose outcome is     *)
(* nondeterministic; what happens inside it is not of interest here.       *)
(***************************************************************************)
EXTENDS Naturals, Sequences, FiniteSets

CONSTANTS Clients,     \* request threads of the server's thread pool
          Workers,     \* bound: Thread objects that start() creates in one process
          Main,        \* the thread that runs the lifespan
          Probes,      \* probe ids
          Results,     \* statuses that a completed probe may carry
          None,        \* Python's None
          MaxRuns,     \* max_runs, the number of finished runs that are kept
          MaxFaults,   \* bound: failing store calls in the life of one process
          MaxCrashes   \* bound: ends of a process, by crash or by shutdown

ASSUME ThreadsAssumption ==
    /\ Main \notin Clients \cup Workers
    /\ None \notin Clients \cup Workers \cup Probes \cup {Main}
    /\ Clients \cap Workers = {}

ASSUME ResultsAssumption ==
    /\ Results \subseteq {"success", "partial_success", "timeout", "failed"}
    /\ None \notin Results \cup {"exception"}

ASSUME BoundsAssumption == MaxRuns \in Nat /\ MaxFaults \in Nat /\ MaxCrashes \in Nat

VARIABLES rows,        \* the table: one row (or NoRow) per probe id
          stamp,       \* queued_at of a probe, in ticks; 0: not yet prepared
          clock,       \* the last tick handed out as a queued_at
          lock,        \* holder of the manager's _lock, or None
          thread,      \* _thread
          stopped,     \* _stop_event
          queueRef,    \* _queue: a queue is named by the thread created with it
          queues,      \* the contents of every queue
          unfinished,  \* unfinished_tasks of every queue
          pc,          \* where each thread is
          kind,        \* the call that a client is in
          arg,         \* the probe that a thread works for
          rec,         \* the record that a thread has loaded or built
          out,         \* the outcome of the probe that a thread has run
          removable,   \* the ids that a thread has selected for deletion
          ref,         \* the queue, or new Thread, that a thread has in hand
          faults,      \* history: failed store calls in this process
          crashes,     \* history: processes that have ended
          runs         \* history: how often each probe has been executed

storeVars == <<rows, stamp, clock>>
sharedVars == <<lock, thread, stopped, queueRef, queues, unfinished>>
localVars == <<kind, arg, rec, out, removable, ref>>
vars == <<storeVars, sharedVars, pc, localVars, faults, crashes, runs>>

Threads == Clients \cup Workers \cup {Main}
QueueIds == Workers \cup {None}

-----------------------------------------------------------------------------
(* Rows of the table: the status, the error text by its origin, and whether *)
(* finished_at and result_json are set.                                      *)

Active == {"queued", "running"}
Terminal == {"success", "partial_success", "timeout", "failed"}
Errors == {"none", "restarted", "probe"}

Row == [status : Active \cup Terminal, error : Errors, finished : BOOLEAN, result : BOOLEAN]
NoRow == [status |-> "absent", error |-> "none", finished |-> FALSE, result |-> FALSE]
NewRow(status) == [NoRow EXCEPT !.status = status]

Present(p) == rows[p] # NoRow
IsActive(p) == rows[p].status \in Active
IsFinished(p) == rows[p].status \in Terminal

\* The record written when the probe of record r ended with outcome o: a
\* status of Results, or "exception".
Completed(r, o) ==
    IF o = "exception"
    THEN [r EXCEPT !.status = "failed", !.error = "probe", !.finished = TRUE]
    ELSE [status |-> o, error |-> "none", finished |-> TRUE, result |-> TRUE]

\* Faulty variants of FailStale: running rows are forgotten; the WHERE
\* clause is missing.
FailQueuedOnly(p) ==
    IF rows[p].status = "queued" THEN [rows[p] EXCEPT !.status = "failed", !.finished = TRUE] ELSE rows[p]
FailEveryRow(p) ==
    IF Present(p) THEN [rows[p] EXCEPT !.status = "failed", !.error = "restarted", !.finished = TRUE] ELSE rows[p]

\* fail_stale_runs: every queued or running row becomes failed.
FailStale(p) ==
    IF IsActive(p)
    THEN [rows[p] EXCEPT !.status = "failed", !.error = "restarted", !.finished = TRUE]
    ELSE rows[p]

\* Faulty variants of RemovableSets: one row too many is kept; running rows are
\* taken for finished ones.
RemovableKeepOneMore ==
    LET finished == {p \in Probes : IsFinished(p)}
    IN  {S \in SUBSET finished :
            /\ Cardinality(finished \ S) <= MaxRuns + 1
            /\ S # {} => Cardinality(finished \ S) = MaxRuns + 1}
RemovableRunning ==
    LET finished == {p \in Probes : Present(p) /\ rows[p].status # "queued"}
    IN  {S \in SUBSET finished :
            /\ Cardinality(finished \ S) <= MaxRuns
            /\ S # {} => Cardinality(finished \ S) = MaxRuns}

\* The sets that finished_probe_ids[max_runs:] may be: the newest MaxRuns
\* finished rows are spared, and rows of the same tick come in any order.
RemovableSets ==
    LET finished == {p \in Probes : IsFinished(p)}
    IN  {S \in SUBSET finished :
            /\ Cardinality(finished \ S) <= MaxRuns
            /\ S # {} => Cardinality(finished \ S) = MaxRuns
            /\ \A p \in S, q \in finished \ S : stamp[p] <= stamp[q]}

-----------------------------------------------------------------------------
Init ==
    /\ rows = [p \in Probes |-> NoRow]
    /\ stamp = [p \in Probes |-> 0]
    /\ clock = 1
    /\ lock = None
    /\ thread = None
    /\ stopped = FALSE
    /\ queueRef = None
    /\ queues = [q \in QueueIds |-> <<>>]
    /\ unfinished = [q \in QueueIds |-> 0]
    /\ pc = [t \in Threads |-> IF t = Main THEN "down" ELSE IF t \in Clients THEN "idle" ELSE "unborn"]
    /\ kind = [c \in Clients |-> "submit"]
    /\ arg = [t \in Threads |-> None]
    /\ rec = [t \in Threads |-> NoRow]
    /\ out = [t \in Threads |-> None]
    /\ removable = [t \in Threads |-> {}]
    /\ ref = [t \in Threads |-> None]
    /\ faults = 0
    /\ crashes = 0
    /\ runs = [p \in Probes |-> 0]

Goto(t, l) == pc' = [pc EXCEPT ![t] = l]

Alive(w) == pc[w] \notin {"unborn", "created", "dead"}
Serving == pc[Main] = "serving"

\* Where a thread goes when a call of its ends normally.
AfterStart(t) == IF t = Main THEN "serving" ELSE "prepare"
AfterPrune(t) ==
    IF t \in Workers THEN "done" ELSE IF kind[t] = "submit" THEN "enqueue" ELSE "idle"

\* Where an exception takes thread t: a request fails, startup fails, and the
\* worker thread ends, at once or through the finally clause of its try.
Raise(t) ==
    IF t \in Clients THEN "idle"
    ELSE IF t = Main THEN "aborted"
    ELSE IF pc[t] \in {"load", "mark"} THEN "dead" ELSE "ending"

\* A store call of thread t fails; fewer than MaxFaults have.
StoreFault(t) ==
    /\ faults < MaxFaults
    /\ faults' = faults + 1
    /\ Goto(t, Raise(t))

-----------------------------------------------------------------------------
(* start(), called by Main at startup and by every submit().                *)

\* Faulty variants of StartCheck: a running worker is not noticed; the early
\* return keeps the lock.
StartAlways(t) ==
    /\ pc[t] = "start"
    /\ lock = None
    /\ lock' = t /\ Goto(t, "recover") /\ \E w \in Workers : pc[w] = "unborn"
    /\ UNCHANGED <<storeVars, thread, stopped, queueRef, queues, unfinished, localVars, faults, crashes, runs>>
StartKeepsLock(t) ==
    /\ pc[t] = "start"
    /\ lock = None
    /\ lock' = t
    /\ Goto(t, IF thread # None /\ Alive(thread) THEN AfterStart(t) ELSE "recover")
    /\ UNCHANGED <<storeVars, thread, stopped, queueRef, queues, unfinished, localVars, faults, crashes, runs>>

StartCheck(t) ==
    /\ pc[t] = "start"
    /\ lock = None
    /\ IF thread # None /\ Alive(thread)
       THEN lock' = lock /\ Goto(t, AfterStart(t))
       ELSE lock' = t /\ Goto(t, "recover") /\ \E w \in Workers : pc[w] = "unborn"
    /\ UNCHANGED <<storeVars, thread, stopped, queueRef, queues, unfinished, localVars, faults, crashes, runs>>

\* initialize() and fail_stale_runs(); an exception releases the lock.
Recover(t) ==
    /\ pc[t] = "recover"
    /\ \/ /\ rows' = [p \in Probes |-> FailStale(p)]
          /\ Goto(t, "swap")
          /\ UNCHANGED <<lock, faults>>
       \/ /\ StoreFault(t)
          /\ lock' = None
          /\ UNCHANGED rows
    /\ UNCHANGED <<stamp, clock, thread, stopped, queueRef, queues, unfinished, localVars, crashes, runs>>

\* The rest of the critical section; the Thread object is not yet running.
Swap(t) ==
    /\ pc[t] = "swap"
    /\ \E w \in Workers :
        /\ pc[w] = "unborn"
        /\ stopped' = FALSE
        /\ queueRef' = w
        /\ thread' = w
        /\ lock' = None
        /\ ref' = [ref EXCEPT ![t] = w]
        /\ pc' = [pc EXCEPT ![t] = "launch", ![w] = "created"]
    /\ UNCHANGED <<storeVars, queues, unfinished, kind, arg, rec, out, removable, faults, crashes, runs>>

\* thread.start(), outside the lock.
Launch(t) ==
    /\ pc[t] = "launch"
    /\ pc' = [pc EXCEPT ![t] = AfterStart(t), ![ref[t]] = "loop"]
    /\ ref' = [ref EXCEPT ![t] = None]
    /\ UNCHANGED <<storeVars, sharedVars, kind, arg, rec, out, removable, faults, crashes, runs>>

-----------------------------------------------------------------------------
(* submit() and run_sync().                                                 *)

\* submit() calls start() first, run_sync() does not.
Begin(c) ==
    /\ Serving
    /\ pc[c] = "idle"
    /\ \E k \in {"submit", "sync"} :
        /\ kind' = [kind EXCEPT ![c] = k]
        /\ Goto(c, IF k = "submit" THEN "start" ELSE "prepare")
    /\ UNCHANGED <<storeVars, sharedVars, arg, rec, out, removable, ref, faults, crashes, runs>>

\* prepare_probe, the timestamp and (in submit, under the lock) the queue depth.
\* The clock has the resolution of a millisecond: two requests may share a tick.
\* prepare_probe may also reject the request: unknown target, NB out of reach.
Prepare(c) ==
    /\ pc[c] = "prepare"
    /\ \/ /\ kind[c] = "submit" => lock = None
          /\ \E p \in Probes, tick \in {clock, clock + 1} :
              /\ stamp[p] = 0
              /\ stamp' = [stamp EXCEPT ![p] = tick]
              /\ clock' = tick
              /\ arg' = [arg EXCEPT ![c] = p]
          /\ Goto(c, "create")
       \/ Goto(c, "idle") /\ UNCHANGED <<stamp, clock, arg>>
    /\ UNCHANGED <<rows, sharedVars, kind, rec, out, removable, ref, faults, crashes, runs>>

Create(c) ==
    /\ pc[c] = "create"
    /\ \/ LET r == NewRow(IF kind[c] = "submit" THEN "queued" ELSE "running")
          IN  /\ rows' = [rows EXCEPT ![arg[c]] = r]
              /\ rec' = [rec EXCEPT ![c] = IF kind[c] = "sync" THEN r ELSE NoRow]
              /\ Goto(c, IF kind[c] = "submit" THEN "prune" ELSE "probe")
              /\ UNCHANGED <<arg, faults>>
       \/ /\ StoreFault(c)
          /\ arg' = [arg EXCEPT ![c] = None]
          /\ UNCHANGED <<rows, rec>>
    /\ UNCHANGED <<stamp, clock, sharedVars, kind, out, removable, ref, crashes, runs>>

\* self._queue is evaluated ...
Enqueue(c) ==
    /\ pc[c] = "enqueue"
    /\ ref' = [ref EXCEPT ![c] = queueRef]
    /\ Goto(c, "put")
    /\ UNCHANGED <<storeVars, sharedVars, kind, arg, rec, out, removable, faults, crashes, runs>>

\* ... and put is called on it.  Telling the listeners and reading the row back
\* for the answer change nothing.
Put(c) ==
    /\ pc[c] = "put"
    /\ queues' = [queues EXCEPT ![ref[c]] = Append(@, arg[c])]
    /\ unfinished' = [unfinished EXCEPT ![ref[c]] = @ + 1]
    /\ ref' = [ref EXCEPT ![c] = None]
    /\ arg' = [arg EXCEPT ![c] = None]
    /\ Goto(c, "idle")
    /\ UNCHANGED <<storeVars, lock, thread, stopped, queueRef, kind, rec, out, removable, faults, crashes, runs>>

-----------------------------------------------------------------------------
(* Steps that run_sync() and the worker have in common.                     *)

\* run_prepared_probe returns a result or raises.
RunProbe(t) ==
    /\ pc[t] = "probe"
    /\ \E o \in Results \cup {"exception"} : out' = [out EXCEPT ![t] = o]
    /\ runs' = [runs EXCEPT ![arg[t]] = @ + 1]
    /\ Goto(t, IF t \in Workers THEN "reload" ELSE "finish")
    /\ UNCHANGED <<storeVars, sharedVars, kind, arg, rec, removable, ref, faults, crashes>>

\* update_run with the outcome: the whole record that the thread holds is
\* written, whatever the row has become; 404 when the row is gone.
Finish(t) ==
    /\ pc[t] = "finish"
    /\ \/ /\ Present(arg[t])
          /\ rows' = [rows EXCEPT ![arg[t]] = Completed(rec[t], out[t])]
          /\ Goto(t, "prune")
          /\ UNCHANGED faults
       \/ /\ ~ Present(arg[t])
          /\ Goto(t, Raise(t))
          /\ UNCHANGED <<rows, faults>>
       \/ /\ StoreFault(t)
          /\ UNCHANGED rows
    /\ rec' = [rec EXCEPT ![t] = NoRow]
    /\ out' = [out EXCEPT ![t] = None]
    /\ arg' = [arg EXCEPT ![t] = None]
    /\ UNCHANGED <<stamp, clock, sharedVars, kind, removable, ref, crashes, runs>>

\* prune_finished_runs reads the ids of the rows to delete ...
PruneSelect(t) ==
    /\ pc[t] = "prune"
    /\ \/ /\ \E S \in RemovableSets :
             /\ removable' = [removable EXCEPT ![t] = S]
             /\ Goto(t, IF S = {} THEN AfterPrune(t) ELSE "delete")
          /\ UNCHANGED <<arg, faults>>
       \/ /\ StoreFault(t)
          /\ arg' = [arg EXCEPT ![t] = None]
          /\ UNCHANGED removable
    /\ UNCHANGED <<storeVars, sharedVars, kind, rec, out, ref, crashes, runs>>

\* ... and deletes them by id, without looking at their status again.
PruneDelete(t) ==
    /\ pc[t] = "delete"
    /\ \/ /\ rows' = [p \in Probes |-> IF p \in removable[t] THEN NoRow ELSE rows[p]]
          /\ Goto(t, AfterPrune(t))
          /\ UNCHANGED <<arg, faults>>
       \/ /\ StoreFault(t)
          /\ arg' = [arg EXCEPT ![t] = None]
          /\ UNCHANGED rows
    /\ removable' = [removable EXCEPT ![t] = {}]
    /\ UNCHANGED <<stamp, clock, sharedVars, kind, rec, out, ref, crashes, runs>>

-----------------------------------------------------------------------------
(* _run, the loop of a worker.                                              *)

\* self._queue is evaluated for the next get.
Loop(w) ==
    /\ pc[w] = "loop"
    /\ ref' = [ref EXCEPT ![w] = queueRef]
    /\ Goto(w, "get")
    /\ UNCHANGED <<storeVars, sharedVars, kind, arg, rec, out, removable, faults, crashes, runs>>

\* Faulty variant: the id is read but not taken from the queue.
GetPeek(w) ==
    /\ pc[w] = "get"
    /\ queues[ref[w]] # <<>>
    /\ arg' = [arg EXCEPT ![w] = Head(queues[ref[w]])]
    /\ ref' = [ref EXCEPT ![w] = None]
    /\ Goto(w, IF Head(queues[ref[w]]) = None THEN "ending" ELSE "load")
    /\ UNCHANGED <<storeVars, sharedVars, kind, rec, out, removable, faults, crashes, runs>>

Get(w) ==
    /\ pc[w] = "get"
    /\ queues[ref[w]] # <<>>
    /\ queues' = [queues EXCEPT ![ref[w]] = Tail(@)]
    /\ arg' = [arg EXCEPT ![w] = Head(queues[ref[w]])]
    /\ ref' = [ref EXCEPT ![w] = None]
    /\ Goto(w, IF Head(queues[ref[w]]) = None THEN "ending" ELSE "load")
    /\ UNCHANGED <<storeVars, lock, thread, stopped, queueRef, unfinished, kind, rec, out, removable, faults, crashes, runs>>

\* get timed out on an empty queue.
GetTimeout(w) ==
    /\ pc[w] = "get"
    /\ queues[ref[w]] = <<>>
    /\ stopped \/ ref[w] # queueRef
    /\ ref' = [ref EXCEPT ![w] = None]
    /\ Goto(w, IF stopped THEN "dead" ELSE "loop")
    /\ UNCHANGED <<storeVars, sharedVars, kind, arg, rec, out, removable, faults, crashes, runs>>

\* get_run before the probe ("load") and after it ("reload"); a row that is
\* gone ends the job.
Load(w) ==
    /\ pc[w] \in {"load", "reload"}
    /\ \/ /\ Present(arg[w])
          /\ rec' = [rec EXCEPT ![w] = rows[arg[w]]]
          /\ Goto(w, IF pc[w] = "load" THEN "mark" ELSE "finish")
          /\ UNCHANGED <<arg, out, faults>>
       \/ /\ ~ Present(arg[w])
          /\ Goto(w, "done")
          /\ arg' = [arg EXCEPT ![w] = None]
          /\ out' = [out EXCEPT ![w] = None]
          /\ UNCHANGED <<rec, faults>>
       \/ /\ StoreFault(w)
          /\ arg' = [arg EXCEPT ![w] = None]
          /\ out' = [out EXCEPT ![w] = None]
          /\ UNCHANGED rec
    /\ UNCHANGED <<storeVars, sharedVars, kind, removable, ref, crashes, runs>>

\* Faulty variant: the record is written back without the new status.
MarkNothing(w) ==
    /\ pc[w] = "mark"
    /\ Present(arg[w])
    /\ rows' = [rows EXCEPT ![arg[w]] = rec[w]]
    /\ Goto(w, "probe")
    /\ rec' = [rec EXCEPT ![w] = NoRow]
    /\ UNCHANGED <<stamp, clock, sharedVars, kind, arg, out, removable, ref, faults, crashes, runs>>

\* update_run with status running, before the try.
Mark(w) ==
    /\ pc[w] = "mark"
    /\ \/ /\ Present(arg[w])
          /\ rows' = [rows EXCEPT ![arg[w]] = [rec[w] EXCEPT !.status = "running"]]
          /\ Goto(w, "probe")
          /\ UNCHANGED <<arg, faults>>
       \/ /\ ~ Present(arg[w])
          /\ Goto(w, Raise(w))
          /\ arg' = [arg EXCEPT ![w] = None]
          /\ UNCHANGED <<rows, faults>>
       \/ /\ StoreFault(w)
          /\ arg' = [arg EXCEPT ![w] = None]
          /\ UNCHANGED rows
    /\ rec' = [rec EXCEPT ![w] = NoRow]
    /\ UNCHANGED <<stamp, clock, sharedVars, kind, out, removable, ref, crashes, runs>>

\* Faulty variant: the loop ends with its first job.
TaskDoneBreak(w) ==
    /\ pc[w] \in {"done", "ending"}
    /\ unfinished' = [unfinished EXCEPT ![queueRef] = IF @ = 0 THEN 0 ELSE @ - 1]
    /\ Goto(w, "dead")
    /\ UNCHANGED <<storeVars, lock, thread, stopped, queueRef, queues, localVars, faults, crashes, runs>>

\* self._queue.task_done(): on the queue that _queue is by now, which raises
\* ValueError when that one has no unfinished task.
TaskDone(w) ==
    /\ pc[w] \in {"done", "ending"}
    /\ unfinished' = [unfinished EXCEPT ![queueRef] = IF @ = 0 THEN 0 ELSE @ - 1]
    /\ Goto(w, IF pc[w] = "done" /\ unfinished[queueRef] > 0 THEN "loop" ELSE "dead")
    /\ UNCHANGED <<storeVars, lock, thread, stopped, queueRef, queues, localVars, faults, crashes, runs>>

-----------------------------------------------------------------------------
(* The life of the process.                                                 *)

Boot ==
    /\ pc[Main] = "down"
    /\ Goto(Main, "start")
    /\ UNCHANGED <<storeVars, sharedVars, localVars, faults, crashes, runs>>

\* stop() at shutdown, when every request has been answered.
Stop ==
    /\ Serving
    /\ \A c \in Clients : pc[c] = "idle"
    /\ lock = None
    /\ thread' = None
    /\ stopped' = TRUE
    /\ queues' = [queues EXCEPT ![queueRef] = Append(@, None)]
    /\ unfinished' = [unfinished EXCEPT ![queueRef] = @ + 1]
    /\ Goto(Main, "join")
    /\ UNCHANGED <<storeVars, lock, queueRef, localVars, faults, crashes, runs>>

\* The process ends, after the join (or its timeout) or by a crash: whatever is
\* not in the table is gone.
ProcessEnd ==
    /\ pc[Main] # "down"
    /\ crashes < MaxCrashes
    /\ crashes' = crashes + 1
    /\ lock' = None
    /\ thread' = None
    /\ stopped' = FALSE
    /\ queueRef' = None
    /\ queues' = [q \in QueueIds |-> <<>>]
    /\ unfinished' = [q \in QueueIds |-> 0]
    /\ pc' = [t \in Threads |-> IF t = Main THEN "down" ELSE IF t \in Clients THEN "idle" ELSE "unborn"]
    /\ kind' = [c \in Clients |-> "submit"]
    /\ arg' = [t \in Threads |-> None]
    /\ rec' = [t \in Threads |-> NoRow]
    /\ out' = [t \in Threads |-> None]
    /\ removable' = [t \in Threads |-> {}]
    /\ ref' = [t \in Threads |-> None]
    /\ faults' = 0
    /\ UNCHANGED <<storeVars, runs>>

StarterStep(t) == StartCheck(t) \/ Recover(t) \/ Swap(t) \/ Launch(t)
ProbeStep(t) == RunProbe(t) \/ Finish(t) \/ PruneSelect(t) \/ PruneDelete(t)
RequestStep(c) == Prepare(c) \/ Create(c) \/ Enqueue(c) \/ Put(c)
WorkerStep(w) == Loop(w) \/ Get(w) \/ GetTimeout(w) \/ Load(w) \/ Mark(w) \/ TaskDone(w)

Next ==
    \/ \E c \in Clients : Begin(c)
    \/ \E c \in Clients : RequestStep(c)
    \/ \E t \in Clients \cup {Main} : StarterStep(t)
    \/ \E t \in Clients \cup Workers : ProbeStep(t)
    \/ \E w \in Workers : WorkerStep(w)
    \/ Boot \/ Stop \/ ProcessEnd

Spec == Init /\ [][Next]_vars

-----------------------------------------------------------------------------
(* Properties.                                                              *)

StarterLabels == {"start", "recover", "swap", "launch"}
JobLabels == {"probe", "finish", "prune", "delete"}
MainLabels == StarterLabels \cup {"down", "serving", "aborted", "join"}
ClientLabels == StarterLabels \cup JobLabels \cup {"idle", "prepare", "create", "enqueue", "put"}
WorkerLabels == JobLabels \cup {"unborn", "created", "loop", "get", "load", "mark", "reload", "done", "ending", "dead"}
LabelsOf(t) == IF t = Main THEN MainLabels ELSE IF t \in Clients THEN ClientLabels ELSE WorkerLabels

StoreOK ==
    /\ rows \in [Probes -> Row \cup {NoRow}]
    /\ stamp \in [Probes -> Nat]
    /\ clock \in Nat \ {0}
SharedOK ==
    /\ lock \in Clients \cup {Main, None}
    /\ thread \in QueueIds
    /\ stopped \in BOOLEAN
    /\ queueRef \in QueueIds
    /\ queues \in [QueueIds -> Seq(Probes \cup {None})]
    /\ unfinished \in [QueueIds -> Nat]
PcOK ==
    /\ pc \in [Threads -> MainLabels \cup ClientLabels \cup WorkerLabels]
    /\ \A t \in Threads : pc[t] \in LabelsOf(t)
LocalOK ==
    /\ kind \in [Clients -> {"submit", "sync"}]
    /\ arg \in [Threads -> Probes \cup {None}]
    /\ rec \in [Threads -> Row \cup {NoRow}]
    /\ out \in [Threads -> Results \cup {"exception", None}]
    /\ removable \in [Threads -> SUBSET Probes]
    /\ ref \in [Threads -> QueueIds]
HistoryOK ==
    /\ faults \in 0..MaxFaults
    /\ crashes \in 0..MaxCrashes
    /\ runs \in [Probes -> Nat]

\* Every variable has the values that its Python counterpart can have, and every
\* thread is at a place of the code that it runs.
TypeOK == StoreOK /\ SharedOK /\ PcOK /\ LocalOK /\ HistoryOK

InQueue(q, p) == \E i \in DOMAIN queues[q] : queues[q][i] = p

\* No probe is executed twice: not by two workers, not again after a restart,
\* not after its row was marked failed while its id was still in a queue.
AtMostOnce == \A p \in Probes : runs[p] <= 1

\* While the store has not failed in this process there is one worker thread.
SingleWorker ==
    faults = 0 => \A v, w \in Workers :
        pc[v] \notin {"unborn", "dead"} /\ pc[w] \notin {"unborn", "dead"} => v = w

\* While the store has not failed in this process, every queued or running row
\* belongs to a thread of this process, or its id is in the queue that the
\* worker reads: no run is left behind, and none of an earlier process is kept.
ActiveRowsOwned ==
    Serving /\ faults = 0 =>
        \A p \in Probes : IsActive(p) => InQueue(queueRef, p) \/ \E t \in Threads : arg[t] = p

\* prune keeps the history to max_runs finished rows, apart from rows whose
\* thread has yet to prune after finishing them.
HistoryBounded ==
    faults = 0 /\ crashes = 0 =>
        Cardinality({p \in Probes : IsFinished(p)}) <= MaxRuns +
            Cardinality({t \in Clients \cup Workers :
                pc[t] \in {"prune", "delete"} /\ (t \in Clients => kind[t] = "sync")})

\* Once the result of a probe is in its row, the row is never written again:
\* it stays as it is until it is deleted.
ResultIsFinal ==
    [][\A p \in Probes : rows[p].result => rows'[p] \in {rows[p], NoRow}]_vars

\* While the store has not failed in this process, prune deletes finished rows
\* only, although it deletes by id what it selected earlier.
PruneSparesActive ==
    [][faults = 0 => \A p \in Probes : IsActive(p) => rows'[p] # NoRow]_vars

\* "Async endpoint queues jobs in a single background worker": never are two
\* worker threads running.
SingleBackgroundWorker == \A v, w \in Workers : Alive(v) /\ Alive(w) => v = w
-----------------------------------------------------------------------------
(* What the manager promises to a client that polls a run.                  *)

RunStatus(p) ==
    IF Present(p) THEN rows[p].status
    ELSE IF stamp[p] = 0 \/ \E c \in Clients : pc[c] = "create" /\ arg[c] = p THEN "new"
    ELSE "gone"

Lifecycle == INSTANCE RunLifecycle WITH
    Runs <- Probes,
    status <- [p \in Probes |-> RunStatus(p)],
    up <- Serving,
    degraded <- faults # 0

\* The life of a run as a polling client sees it is the one of RunLifecycle.
ImplementsLifecycle == Lifecycle!Spec

-----------------------------------------------------------------------------
(* Progress.  Every thread that has begun a call goes on with it; nobody is *)
(* obliged to send a request or to start the process again.                 *)

Fairness ==
    /\ \A c \in Clients : WF_vars(RequestStep(c) \/ StarterStep(c) \/ ProbeStep(c))
    /\ \A w \in Workers : WF_vars(WorkerStep(w) \/ ProbeStep(w))

FairSpec == Spec /\ Fairness

\* While the store has not failed, a run that was accepted while the service is
\* up is finished by the worker, unless the service goes down first.
QueuedRunsFinish ==
    \A p \in Probes :
        Serving /\ rows[p].status = "queued" ~> ~ Serving \/ faults # 0 \/ ~ IsActive(p)

\* Every request is answered: no thread waits for ever for the lock, for a
\* worker or for another request.
RequestsReturn == \A c \in Clients : pc[c] # "idle" ~> pc[c] = "idle"
=============================================================================
