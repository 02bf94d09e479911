----------------------------- MODULE CpuMonitor -----------------------------
(***************************************************************************)
(* The CPU monitor (ovn_cpu, cpu_monitor.py and procfs.py): it samples the *)
(* CPU time of processes and threads from /proc and reports what each one  *)
(* used since the sample before.                                           *)
(*                                                                         *)
(* /proc is read file by file while processes and threads run, end and     *)
(* start, and pids and tids are used again.  CPU time is counted in clock  *)
(* ticks, user and system time as one; a percentage is a number of ticks   *)
(* divided by elapsed_s.  The time of a sample is the number of samples    *)
(* begun before it: between two of them interval_s has passed.             *)
(***************************************************************************)
EXTENDS Naturals, Sequences, FiniteSets

CONSTANTS Pids,         \* process ids; the first thread of a process has its pid
          Tids,         \* ids of further threads
          None,
          HistorySize,  \* history_size
          MaxSamples,   \* bound: samples begun
          MaxTicks,     \* bound: ticks of CPU time used by all threads together
          MaxStarts     \* bound: processes and threads started

ASSUME IdsAssumption == Pids \cap Tids = {} /\ None \notin Pids \cup Tids \cup Nat
ASSUME BoundsAssumption ==
    /\ HistorySize \in Nat \ {0}
    /\ MaxSamples \in Nat /\ MaxTicks \in Nat /\ MaxStarts \in Nat

\* _classify_process: a kernel thread of the datapath, a process of the list, or
\* none of the monitor's business.
Kinds == {"kernel", "user", "ignored"}

\* Start times tell the processes and threads apart that have ever been there.
Starts == 1..MaxStarts

VARIABLES
    proc,         \* /proc: the process of each pid
    used,         \* utime + stime of each thread, by its start time
    total,        \* utime + stime of each process, by its start time
    born,         \* processes and threads started so far
    pc,           \* where the sampler is
    stopped,      \* _stop_event
    samples,      \* time.monotonic(): samples begun
    now,          \* the local variables of _collect_snapshot: now,
    todo,         \* the pids still to be read,
    current,      \* process_stat,
    tids,         \* the tids still to be read,
    threads,      \* the tids that have been read,
    nextProcess, nextThread,   \* next_process_times and next_thread_times,
    processUsage, threadUsage, \* and the usage of the records, by start time
    prevTs,       \* _prev_ts
    prevProcess,  \* _prev_process_times
    prevThread,   \* _prev_thread_times
    history,      \* _history
    first,        \* history: the first reading of each process
    charged,      \* history: ticks reported for each process
    threadCharged \* history: ticks reported for each thread as its own

worldVars == <<proc, used, total, born>>
sampleVars == <<now, todo, current, tids, threads, nextProcess, nextThread, processUsage, threadUsage>>
prevVars == <<prevTs, prevProcess, prevThread, history, first, charged, threadCharged>>
vars == <<worldVars, pc, stopped, samples, sampleVars, prevVars>>

Empty == [x \in {} |-> 0]
With(f, x, v) == [y \in DOMAIN f \cup {x} |-> IF y = x THEN v ELSE f[y]]
AddAll(f, g) == [x \in DOMAIN f |-> f[x] + IF x \in DOMAIN g THEN g[x] ELSE 0]

Init ==
    /\ proc = [p \in Pids |-> None]
    /\ used = [s \in Starts |-> 0] /\ total = [s \in Starts |-> 0] /\ born = 0
    /\ pc = "wait" /\ stopped = FALSE /\ samples = 0
    /\ now = 0 /\ todo = {} /\ current = None /\ tids = {} /\ threads = {}
    /\ nextProcess = Empty /\ nextThread = Empty /\ processUsage = Empty /\ threadUsage = Empty
    /\ prevTs = None /\ prevProcess = Empty /\ prevThread = Empty
    /\ history = <<>>
    /\ first = [s \in Starts |-> None]
    /\ charged = [s \in Starts |-> 0] /\ threadCharged = [s \in Starts |-> 0]

-----------------------------------------------------------------------------
(* The host: processes and threads come, run and go.                        *)

Fork(p) ==
    /\ proc[p] = None /\ born < MaxStarts
    /\ \E kind \in Kinds :
        proc' = [proc EXCEPT ![p] = [start |-> born + 1, kind |-> kind, threads |-> With(Empty, p, born + 1)]]
    /\ born' = born + 1
    /\ UNCHANGED <<used, total, pc, stopped, samples, sampleVars, prevVars>>

Exit(p) ==
    /\ proc[p] # None
    /\ proc' = [proc EXCEPT ![p] = None]
    /\ UNCHANGED <<used, total, born, pc, stopped, samples, sampleVars, prevVars>>

CreateThread(p, t) ==
    /\ proc[p] # None /\ born < MaxStarts
    /\ proc[p].kind = "user" /\ t \notin DOMAIN proc[p].threads
    /\ proc' = [proc EXCEPT ![p].threads = With(@, t, born + 1)]
    /\ born' = born + 1
    /\ UNCHANGED <<used, total, pc, stopped, samples, sampleVars, prevVars>>

ExitThread(p, t) ==
    /\ proc[p] # None
    /\ t \in DOMAIN proc[p].threads
    /\ proc' = [proc EXCEPT ![p].threads = [u \in DOMAIN @ \ {t} |-> @[u]]]
    /\ UNCHANGED <<used, total, born, pc, stopped, samples, sampleVars, prevVars>>

TicksUsed == LET sum[n \in 0..MaxStarts] == IF n = 0 THEN 0 ELSE sum[n - 1] + used[n] IN sum[MaxStarts]

\* A thread uses a tick.  It is counted for its process too, for good.
Run(p) ==
    /\ proc[p] # None /\ TicksUsed < MaxTicks
    /\ \E t \in DOMAIN proc[p].threads : used' = [used EXCEPT ![proc[p].threads[t]] = @ + 1]
    /\ total' = [total EXCEPT ![proc[p].start] = @ + 1]
    /\ UNCHANGED <<proc, born, pc, stopped, samples, sampleVars, prevVars>>

-----------------------------------------------------------------------------
(* The sampler: collect_now, called by start() and then by _run.            *)

\* FAULTY: what a process had used when it was first seen is reported too.
UsageFromZero(previous, key, ticks) ==
    IF key \notin DOMAIN previous THEN ticks
    ELSE IF ticks > previous[key] THEN ticks - previous[key] ELSE 0

\* FAULTY: everything a process has used is reported again in every sample.
UsageSinceStart(previous, key, ticks) == IF key \notin DOMAIN previous THEN 0 ELSE ticks

\* _calculate_usage, in ticks.  elapsed_s is zero in the first sample only, when
\* there is nothing to compare with.
CalculateUsage(previous, key, ticks) ==
    IF key \notin DOMAIN previous THEN 0
    ELSE IF ticks > previous[key] THEN ticks - previous[key] ELSE 0

ProcessKey(pid, starttime) == <<pid, starttime>>
ThreadKey(pid, tid, starttime) == <<pid, tid, starttime>>

\* FAULTY: _prev_ts is set when the sample begins.
BeginAdvances ==
    /\ pc = "wait" /\ ~ stopped /\ samples < MaxSamples
    /\ samples' = samples + 1
    /\ now' = samples
    /\ prevTs' = samples
    /\ pc' = "system"
    /\ UNCHANGED <<worldVars, stopped, todo, current, tids, threads, nextProcess, nextThread,
                   processUsage, threadUsage, prevProcess, prevThread, history, first, charged, threadCharged>>

Begin ==
    /\ pc = "wait" /\ ~ stopped /\ samples < MaxSamples
    /\ samples' = samples + 1
    /\ now' = samples
    /\ pc' = "system"
    /\ UNCHANGED <<worldVars, stopped, todo, current, tids, threads, nextProcess, nextThread,
                   processUsage, threadUsage, prevVars>>

\* FAULTY: an exception ends the thread.
ReadSystemUncaught ==
    /\ pc = "system"
    /\ \/ pc' = "process" /\ todo' = {p \in Pids : proc[p] # None}
       \/ pc' = "dead" /\ UNCHANGED todo
    /\ UNCHANGED <<worldVars, stopped, samples, now, current, tids, threads, nextProcess, nextThread,
                   processUsage, threadUsage, prevVars>>

\* read_system_cpu, read_softirqs and list_pids.  Each may raise, which ends the
\* sample but not the thread: _refresh_safely keeps the error for the readers.
ReadSystem ==
    /\ pc = "system"
    /\ \/ pc' = "process" /\ todo' = {p \in Pids : proc[p] # None}
       \/ pc' = "wait" /\ UNCHANGED todo
    /\ UNCHANGED <<worldVars, stopped, samples, now, current, tids, threads, nextProcess, nextThread,
                   processUsage, threadUsage, prevVars>>

\* The loop over the pids, up to the threads.  A process that has gone, or is
\* none of the monitored ones, is passed over; a kernel thread is its only
\* thread, with the usage of the process.
ReadProcess(p) ==
    LET r == proc[p]
        key == ProcessKey(p, r.start)
        usage == CalculateUsage(prevProcess, key, total[r.start])
    IN  /\ pc = "process" /\ p \in todo
        /\ todo' = todo \ {p}
        /\ IF r = None \/ r.kind = "ignored"
           THEN UNCHANGED <<pc, current, nextProcess, processUsage>>
           ELSE /\ nextProcess' = With(nextProcess, key, total[r.start])
                /\ processUsage' = With(processUsage, r.start, usage)
                /\ IF r.kind = "kernel" THEN UNCHANGED <<pc, current>> ELSE pc' = "tasks" /\ current' = p
        /\ threadUsage' = IF r # None /\ r.kind = "kernel" THEN With(threadUsage, r.start, usage) ELSE threadUsage
        /\ UNCHANGED <<worldVars, stopped, samples, now, tids, threads, nextThread, prevVars>>

\* list_task_ids: the threads of whatever has the pid by now.
ListTasks ==
    /\ pc = "tasks"
    /\ tids' = IF proc[current] = None THEN {current} ELSE DOMAIN proc[current].threads
    /\ pc' = "task"
    /\ UNCHANGED <<worldVars, stopped, samples, now, todo, current, threads, nextProcess, nextThread,
                   processUsage, threadUsage, prevVars>>

\* The loop over the tids.
ReadTask(t) ==
    LET present == proc[current] # None /\ t \in DOMAIN proc[current].threads
        s == proc[current].threads[t]
        key == ThreadKey(current, t, s)
    IN  /\ pc = "task" /\ t \in tids
        /\ tids' = tids \ {t}
        /\ IF present
           THEN /\ threads' = threads \cup {t}
                /\ nextThread' = With(nextThread, key, used[s])
                /\ threadUsage' = With(threadUsage, s, CalculateUsage(prevThread, key, used[s]))
           ELSE UNCHANGED <<threads, nextThread, threadUsage>>
        /\ UNCHANGED <<worldVars, pc, stopped, samples, now, todo, current, nextProcess, processUsage, prevVars>>

\* The record of the process.  One without readable threads gets a thread "main"
\* with the usage of the whole process.
EndProcess ==
    /\ pc = "task" /\ tids = {}
    /\ threads' = {} /\ current' = None
    /\ pc' = "process"
    /\ UNCHANGED <<worldVars, stopped, samples, now, todo, tids, nextProcess, nextThread,
                   processUsage, threadUsage, prevVars>>

\* deque(maxlen=history_size).append
Appended(h, point) == LET l == Append(h, point) IN IF Len(l) > HistorySize THEN Tail(l) ELSE l

\* The end of _collect_snapshot, and the snapshot that collect_now publishes.
Commit ==
    /\ pc = "process" /\ todo = {}
    /\ prevTs' = now
    /\ prevProcess' = nextProcess
    /\ prevThread' = nextThread
    /\ history' = Appended(history, [at |-> now, elapsed |-> IF prevTs = None THEN 0 ELSE now - prevTs,
                                     warmup |-> prevTs = None])
    /\ first' = [s \in Starts |->
          IF first[s] = None /\ \E k \in DOMAIN nextProcess : k[2] = s
          THEN nextProcess[CHOOSE k \in DOMAIN nextProcess : k[2] = s] ELSE first[s]]
    /\ charged' = AddAll(charged, processUsage)
    /\ threadCharged' = AddAll(threadCharged, threadUsage)
    /\ nextProcess' = Empty /\ nextThread' = Empty /\ processUsage' = Empty /\ threadUsage' = Empty
    /\ now' = 0
    /\ pc' = "wait"
    /\ UNCHANGED <<worldVars, stopped, samples, todo, current, tids, threads>>

\* stop(), and the end of _run.
Stop ==
    /\ ~ stopped /\ stopped' = TRUE
    /\ UNCHANGED <<worldVars, pc, samples, sampleVars, prevVars>>

SamplerStep ==
    \/ ReadSystem \/ ListTasks \/ EndProcess \/ Commit
    \/ \E p \in Pids : ReadProcess(p)
    \/ \E t \in Pids \cup Tids : ReadTask(t)

HostStep ==
    \E p \in Pids : Fork(p) \/ Exit(p) \/ Run(p) \/ \E t \in Tids : CreateThread(p, t) \/ ExitThread(p, t)

Next == Begin \/ SamplerStep \/ HostStep \/ Stop

Spec == Init /\ [][Next]_vars

\* The sampler is scheduled; when it wakes up for the next sample is left open.
FairSpec == Spec /\ WF_vars(SamplerStep)

-----------------------------------------------------------------------------
(* Properties.                                                              *)

Times(keys, f) == DOMAIN f \subseteq keys /\ \A k \in DOMAIN f : f[k] \in Nat

\* The types of the monitor's state; previous and next times belong to processes
\* and threads that have existed.
TypeOK ==
    /\ pc \in {"wait", "system", "process", "tasks", "task"} /\ stopped \in BOOLEAN
    /\ samples \in 0..MaxSamples /\ now \in Nat /\ prevTs \in Nat \cup {None}
    /\ todo \subseteq Pids /\ current \in Pids \cup {None}
    /\ tids \subseteq Pids \cup Tids /\ threads \subseteq Pids \cup Tids
    /\ Times(Pids \X (1..born), nextProcess) /\ Times(Pids \X (1..born), prevProcess)
    /\ Times(Pids \X (Pids \cup Tids) \X (1..born), nextThread)
    /\ Times(Pids \X (Pids \cup Tids) \X (1..born), prevThread)
    /\ Times(1..born, processUsage) /\ Times(1..born, threadUsage)
    /\ history \in Seq([at : Nat, elapsed : Nat, warmup : BOOLEAN])

\* Over all samples, no more CPU time is reported for a process or a thread than
\* it has used: no tick is reported twice, and none of an earlier process or
\* thread of the same id.
NoTickTwice ==
    \A s \in Starts : charged[s] <= total[s] /\ threadCharged[s] <= used[s]

\* The samples in the history follow each other without a gap in time: each one
\* reaches back to the one before, over samples that failed as well.  Only the
\* very first one is a warm-up.
HistoryIsSeamless ==
    /\ Len(history) <= HistorySize
    /\ \A i \in 2..Len(history) :
        history[i].at - history[i].elapsed = history[i - 1].at /\ ~ history[i].warmup
    /\ history # <<>> => prevTs = history[Len(history)].at

\* All that a process used from the first sample that saw it to the last one has
\* been reported, whatever samples failed in between.
NothingUnreported ==
    \A k \in DOMAIN prevProcess : charged[k[2]] = prevProcess[k] - first[k[2]]

\* A sample that has begun ends, although processes and threads come and go
\* while it reads, and a sample that fails does not end the sampling.
SamplesEnd == pc # "wait" ~> pc = "wait"
=============================================================================
