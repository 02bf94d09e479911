-------------------------- MODULE CpuMonitorProofs --------------------------
(***************************************************************************)
(* What CpuMonitor promises, for any number of processes and threads that  *)
(* come and go while the monitor reads, and for any number of samples.     *)
(***************************************************************************)
EXTENDS CpuMonitor, TLAPS

\* The provers, in the order in which they try a leaf that names none.
USE Zenon, SMT, ZenonT(60), SMTT(60)

Live(p) == proc[p] # None
Sampling == pc \in {"process", "tasks", "task"}

ThreadMaps == UNION {[D -> Starts] : D \in SUBSET (Pids \cup Tids)}
Processes == [start : Starts, kind : Kinds, threads : ThreadMaps]

-----------------------------------------------------------------------------
(* The inductive invariant.                                                 *)

\* The host: start times are given once, and a kernel thread is its only thread.
HostOK ==
    /\ proc \in [Pids -> Processes \cup {None}]
    /\ used \in [Starts -> Nat] /\ total \in [Starts -> Nat] /\ born \in 0..MaxStarts
    /\ \A s \in Starts : s > born => used[s] = 0 /\ total[s] = 0
    /\ \A p \in Pids : Live(p) =>
        /\ p \in DOMAIN proc[p].threads /\ proc[p].threads[p] = proc[p].start
        /\ \A t \in DOMAIN proc[p].threads : proc[p].threads[t] <= born
        /\ proc[p].kind = "kernel" => /\ DOMAIN proc[p].threads = {p}
                                      /\ used[proc[p].start] = total[proc[p].start]
    /\ \A p, q \in Pids : Live(p) /\ Live(q) =>
        \A t \in DOMAIN proc[p].threads, u \in DOMAIN proc[q].threads :
            proc[p].threads[t] = proc[q].threads[u] => p = q /\ t = u

HistoriesOK ==
    /\ first \in [Starts -> Nat \cup {None}]
    /\ charged \in [Starts -> Nat] /\ threadCharged \in [Starts -> Nat]
    /\ \A s \in Starts : s > born => first[s] = None

\* Where the sampler is.
PhaseOK ==
    /\ pc \in {"wait", "system"} =>
        nextProcess = Empty /\ nextThread = Empty /\ processUsage = Empty /\ threadUsage = Empty
    /\ pc \in {"tasks", "task"} => current \in Pids \ todo

\* The times of the samples.
ClockOK ==
    /\ prevTs = None <=> history = <<>>
    /\ prevTs # None => prevTs < samples
    /\ pc # "wait" => now < samples /\ (prevTs # None => prevTs < now)

ProcessKeys == DOMAIN nextProcess \cup DOMAIN prevProcess

\* A start time goes with one pid, that of the process as long as it lives.
KeysOK ==
    /\ \A k, l \in ProcessKeys : k[2] = l[2] => k = l
    /\ \A k \in ProcessKeys, p \in Pids : Live(p) /\ proc[p].start = k[2] => p = k[1]
    /\ \A k \in DOMAIN nextThread, p \in Pids : Live(p) =>
        \A t \in DOMAIN proc[p].threads : proc[p].threads[t] = k[3] => p = k[1] /\ t = k[2]
    /\ \A k \in DOMAIN nextThread : k[1] \notin todo

\* The last sample that was published: what it read and what was reported.
PrevOK ==
    /\ \A k \in DOMAIN prevProcess :
        /\ first[k[2]] # None /\ first[k[2]] <= prevProcess[k] /\ prevProcess[k] <= total[k[2]]
        /\ charged[k[2]] = prevProcess[k] - first[k[2]]
    /\ \A s \in Starts : charged[s] <= total[s] /\ (first[s] = None => charged[s] = 0)

\* The sample that is being collected.
NextOK ==
    /\ DOMAIN processUsage = {k[2] : k \in DOMAIN nextProcess}
    /\ \A k \in DOMAIN nextProcess :
        /\ nextProcess[k] <= total[k[2]]
        /\ processUsage[k[2]] = CalculateUsage(prevProcess, k, nextProcess[k])
        /\ k \in DOMAIN prevProcess => prevProcess[k] <= nextProcess[k]
        /\ first[k[2]] # None => k \in DOMAIN prevProcess

\* A process that a sample has seen is seen by every sample after it.
SeenOK ==
    \A p \in Pids : Live(p) /\ proc[p].kind # "ignored" =>
        LET k == <<p, proc[p].start>>
        IN  /\ first[proc[p].start] # None => k \in DOMAIN prevProcess
            /\ Sampling /\ k \in DOMAIN prevProcess => p \in todo \/ k \in DOMAIN nextProcess

Charging(s) == threadCharged[s] + IF s \in DOMAIN threadUsage THEN threadUsage[s] ELSE 0

ThreadsOK ==
    /\ \A s \in Starts : Charging(s) <= used[s]
    /\ \A k \in DOMAIN prevThread : threadCharged[k[3]] <= prevThread[k]
    /\ \A k \in DOMAIN nextThread : Charging(k[3]) <= nextThread[k]

\* The usage of a kernel thread is that of its process.
KernelOK ==
    \A p \in Pids : Live(p) /\ proc[p].kind = "kernel" =>
        LET s == proc[p].start
        IN  /\ <<p, s>> \in DOMAIN prevProcess => threadCharged[s] <= prevProcess[<<p, s>>]
            /\ <<p, s>> \in DOMAIN nextProcess => Charging(s) <= nextProcess[<<p, s>>]
            /\ pc \in {"tasks", "task"} /\ current = p => <<p, s>> \notin DOMAIN nextProcess

IInv ==
    /\ TypeOK /\ HostOK /\ HistoriesOK /\ PhaseOK /\ ClockOK /\ HistoryIsSeamless
    /\ KeysOK /\ PrevOK /\ NextOK /\ SeenOK /\ ThreadsOK /\ KernelOK
-----------------------------------------------------------------------------
(* Operators.                                                               *)

LEMMA WithFacts ==
    ASSUME NEW f, NEW x, NEW v
    PROVE  /\ DOMAIN With(f, x, v) = DOMAIN f \cup {x} /\ With(f, x, v)[x] = v
           /\ \A y \in DOMAIN f : y # x => With(f, x, v)[y] = f[y]
BY DEF With

LEMMA WithTimes ==
    ASSUME NEW keys, NEW f, Times(keys, f), NEW x \in keys, NEW v \in Nat
    PROVE  Times(keys, With(f, x, v))
<1>. DEFINE g == With(f, x, v)
<1>1. DOMAIN g = DOMAIN f \cup {x} /\ g[x] = v /\ \A y \in DOMAIN f : y # x => g[y] = f[y]
  BY DEF With
<1>. HIDE DEF g
<1>2. Times(keys, g)
  BY <1>1 DEF Times
<1>. QED  BY <1>2 DEF g

LEMMA EmptyFacts == DOMAIN Empty = {} /\ \A keys : Times(keys, Empty)
BY DEF Empty, Times

LEMMA TimesGrow ==
    ASSUME NEW keys, NEW more, keys \subseteq more, NEW f, Times(keys, f)
    PROVE  Times(more, f)
BY DEF Times

LEMMA ThreadMapFacts ==
    ASSUME NEW f
    PROVE  f \in ThreadMaps <=> /\ f = [t \in DOMAIN f |-> f[t]] /\ DOMAIN f \subseteq Pids \cup Tids
                                /\ \A t \in DOMAIN f : f[t] \in Starts
<1>1. ASSUME f \in ThreadMaps
      PROVE  /\ f = [t \in DOMAIN f |-> f[t]] /\ DOMAIN f \subseteq Pids \cup Tids
             /\ \A t \in DOMAIN f : f[t] \in Starts
  <2>1. PICK D \in SUBSET (Pids \cup Tids) : f \in [D -> Starts]
    BY <1>1 DEF ThreadMaps
  <2>. QED  BY <2>1
<1>2. ASSUME f = [t \in DOMAIN f |-> f[t]], DOMAIN f \subseteq Pids \cup Tids, \A t \in DOMAIN f : f[t] \in Starts
      PROVE  f \in ThreadMaps
  <2>1. f \in [DOMAIN f -> Starts]
    BY <1>2
  <2>. QED  BY <1>2, <2>1 DEF ThreadMaps
<1>. QED  BY <1>1, <1>2

LEMMA UsageType ==
    ASSUME NEW keys, NEW previous, Times(keys, previous), NEW key, NEW ticks \in Nat
    PROVE  CalculateUsage(previous, key, ticks) \in Nat
BY SMT, SMTT(60) DEF CalculateUsage, Times

-----------------------------------------------------------------------------
(* The host.                                                                *)

\* What a step of the host may do: the start times it gives are fresh, and CPU
\* time only grows.
HostEffect ==
    /\ UNCHANGED <<pc, stopped, samples, sampleVars, prevVars>>
    /\ born <= born'
    /\ \A s \in Starts : used[s] <= used'[s] /\ total[s] <= total'[s]
    /\ \A p \in Pids : Live(p)' =>
        \/ /\ born < proc'[p].start
           /\ \A t \in DOMAIN proc'[p].threads : born < proc'[p].threads[t]
        \/ /\ Live(p) /\ proc'[p].start = proc[p].start /\ proc'[p].kind = proc[p].kind
           /\ \A t \in DOMAIN proc'[p].threads :
                \/ born < proc'[p].threads[t]
                \/ t \in DOMAIN proc[p].threads /\ proc'[p].threads[t] = proc[p].threads[t]

LEMMA HostFacts ==
    ASSUME HostOK
    PROVE  /\ born \in Nat /\ born <= MaxStarts /\ MaxStarts \in Nat
           /\ \A p \in Pids : Live(p) =>
                /\ proc[p] \in Processes /\ proc[p].start \in Starts /\ proc[p].start \in Nat
                /\ proc[p].kind \in Kinds /\ proc[p].start <= born
                /\ p \in DOMAIN proc[p].threads /\ proc[p].threads[p] = proc[p].start
                /\ proc[p].threads \in ThreadMaps /\ DOMAIN proc[p].threads \subseteq Pids \cup Tids
                /\ \A t \in DOMAIN proc[p].threads :
                    proc[p].threads[t] \in Starts /\ proc[p].threads[t] \in Nat /\ proc[p].threads[t] <= born
<1>1. born \in Nat /\ born <= MaxStarts /\ MaxStarts \in Nat
  BY BoundsAssumption, SMT, SMTT(60) DEF HostOK
<1>2. ASSUME NEW p \in Pids, Live(p)
      PROVE  /\ proc[p] \in Processes /\ proc[p].start \in Starts /\ proc[p].kind \in Kinds
             /\ proc[p].threads \in ThreadMaps
             /\ p \in DOMAIN proc[p].threads /\ proc[p].threads[p] = proc[p].start
             /\ \A t \in DOMAIN proc[p].threads : proc[p].threads[t] <= born
  <2>1. proc[p] \in Processes
    BY <1>2, SMT, SMTT(60) DEF HostOK, Live
  <2>2. proc[p].start \in Starts /\ proc[p].kind \in Kinds /\ proc[p].threads \in ThreadMaps
    BY <2>1 DEF Processes
  <2>3. /\ p \in DOMAIN proc[p].threads /\ proc[p].threads[p] = proc[p].start
        /\ \A t \in DOMAIN proc[p].threads : proc[p].threads[t] <= born
    BY <1>2 DEF HostOK
  <2>. QED  BY <2>1, <2>2, <2>3
<1>3. Starts \subseteq Nat
  BY BoundsAssumption, SMT, SMTT(60) DEF Starts
<1>. QED  BY <1>1, <1>2, <1>3, ThreadMapFacts

LEMMA StartsUnique ==
    ASSUME HostOK, NEW p \in Pids, NEW q \in Pids, Live(p), Live(q),
           NEW t \in DOMAIN proc[p].threads, NEW u \in DOMAIN proc[q].threads,
           proc[p].threads[t] = proc[q].threads[u]
    PROVE  p = q /\ t = u
BY SMT, SMTT(60) DEF HostOK

\* A process that has ended takes nothing with it.
LEMMA ExitKeeps ==
    ASSUME HostOK, NEW p \in Pids, Exit(p)
    PROVE  HostOK' /\ HostEffect
<1>1. /\ proc' = [proc EXCEPT ![p] = None] /\ UNCHANGED <<used, total, born>>
      /\ UNCHANGED <<pc, stopped, samples, sampleVars, prevVars>>
  BY DEF Exit
<1>2. proc' \in [Pids -> Processes \cup {None}]
  BY <1>1 DEF HostOK
<1>3. ~ Live(p)' /\ \A q \in Pids : q # p => proc'[q] = proc[q]
  BY <1>1 DEF Live, HostOK
<1>4. \A q \in Pids : Live(q)' => Live(q) /\ proc'[q] = proc[q]
  BY <1>3 DEF Live
<1>5. HostOK'
  BY <1>1, <1>2, <1>4, SMT, SMTT(60) DEF HostOK
<1>6. HostEffect
  <2>1. \A s \in Starts : used[s] \in Nat /\ total[s] \in Nat
    BY DEF HostOK
  <2>. QED  BY <1>1, <1>4, <2>1, HostFacts, SMT, SMTT(60) DEF HostEffect
<1>. QED  BY <1>5, <1>6

LEMMA ForkKeeps ==
    ASSUME HostOK, NEW p \in Pids, Fork(p)
    PROVE  HostOK' /\ HostEffect
<1>1. PICK kind \in Kinds :
        proc' = [proc EXCEPT ![p] = [start |-> born + 1, kind |-> kind, threads |-> With(Empty, p, born + 1)]]
  BY DEF Fork
<1>. DEFINE map == With(Empty, p, born + 1)
            r == [start |-> born + 1, kind |-> kind, threads |-> map]
<1>2. /\ born' = born + 1 /\ born + 1 \in Starts /\ born \in Nat /\ UNCHANGED <<used, total>>
      /\ UNCHANGED <<pc, stopped, samples, sampleVars, prevVars>>
  BY HostFacts, SMT, SMTT(60) DEF Fork, Starts
<1>3. DOMAIN map = {p} /\ map[p] = born + 1 /\ map = [t \in DOMAIN map |-> map[t]]
  BY WithFacts, EmptyFacts DEF With
<1>. HIDE DEF map
<1>4. map \in ThreadMaps
  BY <1>2, <1>3, ThreadMapFacts
<1>5. r \in Processes /\ r.start = born + 1 /\ r.kind = kind /\ r.threads = map
  BY <1>2, <1>4 DEF Processes
<1>6. proc' = [proc EXCEPT ![p] = r]
  BY <1>1 DEF map
<1>. HIDE DEF r
<1>7. proc' \in [Pids -> Processes \cup {None}] /\ proc'[p] = r /\ \A q \in Pids : q # p => proc'[q] = proc[q]
  BY <1>5, <1>6 DEF HostOK
<1>8. ~ Live(p)
  BY DEF Fork, Live
<1>9. \A q \in Pids : q # p => (Live(q)' <=> Live(q))
  BY <1>7 DEF Live
<1>10. \A s \in Starts : s > born' => used'[s] = 0 /\ total'[s] = 0
  BY <1>2, SMT, SMTT(60) DEF HostOK, Starts
<1>11. ASSUME NEW q \in Pids, Live(q)'
       PROVE  /\ q \in DOMAIN proc'[q].threads /\ proc'[q].threads[q] = proc'[q].start
              /\ \A t \in DOMAIN proc'[q].threads : proc'[q].threads[t] <= born'
              /\ proc'[q].kind = "kernel" => /\ DOMAIN proc'[q].threads = {q}
                                            /\ used'[proc'[q].start] = total'[proc'[q].start]
  <2>1. CASE q = p
    <3>1. used[born + 1] = 0 /\ total[born + 1] = 0
      BY <1>2, SMT, SMTT(60) DEF HostOK
    <3>. QED  BY <1>2, <1>3, <1>5, <1>7, <2>1, <3>1, SMT, SMTT(60)
  <2>2. CASE q # p
    <3>1. Live(q) /\ proc'[q] = proc[q]
      BY <1>7, <1>9, <1>11, <2>2
    <3>2. \A t \in DOMAIN proc[q].threads : proc[q].threads[t] <= born'
      BY <1>2, <3>1, HostFacts, SMT, SMTT(60)
    <3>. QED  BY <1>2, <3>1, <3>2 DEF HostOK
  <2>. QED  BY <2>1, <2>2
<1>12. ASSUME NEW q \in Pids, NEW o \in Pids, Live(q)', Live(o)',
              NEW t \in DOMAIN proc'[q].threads, NEW u \in DOMAIN proc'[o].threads,
              proc'[q].threads[t] = proc'[o].threads[u]
       PROVE  q = o /\ t = u
  <2>1. CASE q = p /\ o = p
    BY <1>3, <1>5, <1>7, <2>1
  <2>2. CASE q # p /\ o # p
    <3>1. Live(q) /\ Live(o) /\ proc'[q] = proc[q] /\ proc'[o] = proc[o]
      BY <1>7, <1>9, <1>12, <2>2
    <3>. QED  BY <1>12, <3>1, StartsUnique, SMT, SMTT(60)
  <2>3. CASE q = p /\ o # p
    <3>1. proc'[q].threads[t] = born + 1
      BY <1>3, <1>5, <1>7, <1>12, <2>3
    <3>2. proc'[o].threads[u] <= born
      BY <1>7, <1>9, <1>12, <2>3, HostFacts
    <3>. QED  BY <1>2, <1>12, <3>1, <3>2, SMT, SMTT(60)
  <2>4. CASE q # p /\ o = p
    <3>1. proc'[o].threads[u] = born + 1
      BY <1>3, <1>5, <1>7, <1>12, <2>4
    <3>2. proc'[q].threads[t] <= born
      BY <1>7, <1>9, <1>12, <2>4, HostFacts
    <3>. QED  BY <1>2, <1>12, <3>1, <3>2, SMT, SMTT(60)
  <2>. QED  BY <2>1, <2>2, <2>3, <2>4
<1>13. used' \in [Starts -> Nat] /\ total' \in [Starts -> Nat] /\ born' \in 0..MaxStarts
  BY <1>2, SMT, SMTT(60) DEF HostOK, Starts
<1>14. HostOK'
  BY <1>7, <1>10, <1>11, <1>12, <1>13 DEF HostOK
<1>15. HostEffect
  <2>1. \A s \in Starts : used[s] <= used'[s] /\ total[s] <= total'[s]
    BY <1>2, SMT, SMTT(60) DEF HostOK
  <2>2. born < proc'[p].start /\ \A t \in DOMAIN proc'[p].threads : born < proc'[p].threads[t]
    BY <1>2, <1>3, <1>5, <1>7, SMT, SMTT(60)
  <2>3. \A q \in Pids : q # p /\ Live(q)' => Live(q) /\ proc'[q] = proc[q]
    BY <1>7, <1>9
  <2>4. born <= born'
    BY <1>2, SMT, SMTT(60)
  <2>. QED  BY <1>2, <2>1, <2>2, <2>3, <2>4 DEF HostEffect
<1>. QED  BY <1>14, <1>15

\* The threads of a process change: what is asked of the new ones.
LEMMA ThreadsKeep ==
    ASSUME HostOK, NEW p \in Pids, Live(p), NEW map \in ThreadMaps,
           proc' = [proc EXCEPT ![p] = [proc[p] EXCEPT !.threads = map]],
           born' \in {born, born + 1}, born' <= MaxStarts, UNCHANGED <<used, total>>,
           UNCHANGED <<pc, stopped, samples, sampleVars, prevVars>>,
           p \in DOMAIN map, map[p] = proc[p].start,
           \A t \in DOMAIN map :
             \/ map[t] = born + 1 /\ born' = born + 1
             \/ t \in DOMAIN proc[p].threads /\ map[t] = proc[p].threads[t],
           \A t, u \in DOMAIN map : map[t] = map[u] => t = u,
           proc[p].kind = "kernel" => DOMAIN map = {p}
    PROVE  HostOK' /\ HostEffect
<1>. DEFINE r == [proc[p] EXCEPT !.threads = map]
<1>1. proc[p] \in Processes /\ born \in Nat /\ proc[p].start \in Starts
  BY HostFacts
<1>2. r \in Processes /\ r.start = proc[p].start /\ r.kind = proc[p].kind /\ r.threads = map
  BY <1>1 DEF Processes
<1>. HIDE DEF r
<1>3. /\ proc' \in [Pids -> Processes \cup {None}] /\ proc'[p] = r
      /\ \A q \in Pids : q # p => proc'[q] = proc[q]
  BY <1>2 DEF HostOK, r
<1>4. \A q \in Pids : Live(q)' => Live(q)
  BY <1>3 DEF Live
<1>5. \A t \in DOMAIN map : map[t] \in Nat /\ map[t] <= born'
  <2>1. \A t \in DOMAIN map : map[t] \in Nat
    BY ThreadMapFacts, BoundsAssumption, SMT, SMTT(60) DEF Starts
  <2>. QED  BY <1>1, <2>1, HostFacts, SMT, SMTT(60)
<1>6. \A s \in Starts : s > born' => used'[s] = 0 /\ total'[s] = 0
  BY <1>1, SMT, SMTT(60) DEF HostOK, Starts
<1>7. ASSUME NEW q \in Pids, Live(q)'
      PROVE  /\ q \in DOMAIN proc'[q].threads /\ proc'[q].threads[q] = proc'[q].start
             /\ \A t \in DOMAIN proc'[q].threads : proc'[q].threads[t] <= born'
             /\ proc'[q].kind = "kernel" => /\ DOMAIN proc'[q].threads = {q}
                                           /\ used'[proc'[q].start] = total'[proc'[q].start]
  <2>1. CASE q = p
    <3>1. proc[p].kind = "kernel" => used[proc[p].start] = total[proc[p].start]
      BY DEF HostOK
    <3>. QED  BY <1>2, <1>3, <1>5, <2>1, <3>1
  <2>2. CASE q # p
    <3>1. Live(q) /\ proc'[q] = proc[q]
      BY <1>3, <1>4, <1>7, <2>2
    <3>2. \A t \in DOMAIN proc[q].threads : proc[q].threads[t] <= born'
      BY <1>1, <3>1, HostFacts, SMT, SMTT(60)
    <3>3. proc[q].kind = "kernel" => /\ DOMAIN proc[q].threads = {q}
                                     /\ used[proc[q].start] = total[proc[q].start]
      BY <3>1 DEF HostOK
    <3>. QED  BY <3>1, <3>2, <3>3, HostFacts
  <2>. QED  BY <2>1, <2>2
<1>8. ASSUME NEW q \in Pids, q # p, Live(q), NEW u \in DOMAIN proc[q].threads, NEW t \in DOMAIN map
      PROVE  map[t] # proc[q].threads[u]
  <2>1. CASE map[t] = born + 1
    BY <1>1, <1>8, <2>1, HostFacts, SMT, SMTT(60)
  <2>2. CASE t \in DOMAIN proc[p].threads /\ map[t] = proc[p].threads[t]
    BY <1>8, <2>2, StartsUnique
  <2>. QED  BY <2>1, <2>2
<1>9. ASSUME NEW q \in Pids, NEW o \in Pids, Live(q)', Live(o)',
             NEW t \in DOMAIN proc'[q].threads, NEW u \in DOMAIN proc'[o].threads,
             proc'[q].threads[t] = proc'[o].threads[u]
      PROVE  q = o /\ t = u
  <2>1. CASE q = p /\ o = p
    BY <1>2, <1>3, <1>9, <2>1, SMT, SMTT(60)
  <2>2. CASE q # p /\ o # p
    <3>1. Live(q) /\ Live(o) /\ proc'[q] = proc[q] /\ proc'[o] = proc[o]
      BY <1>3, <1>4, <1>9, <2>2
    <3>2. t \in DOMAIN proc[q].threads /\ u \in DOMAIN proc[o].threads /\ proc[q].threads[t] = proc[o].threads[u]
      BY <1>9, <3>1
    <3>. QED  BY <3>1, <3>2, StartsUnique, SMT, SMTT(60)
  <2>3. CASE (q = p) # (o = p)
    BY <1>2, <1>3, <1>4, <1>8, <1>9, <2>3, SMT, SMTT(60)
  <2>. QED  BY <2>1, <2>2, <2>3
<1>10. used' \in [Starts -> Nat] /\ total' \in [Starts -> Nat] /\ born' \in 0..MaxStarts
  BY <1>1, BoundsAssumption, SMT, SMTT(60) DEF HostOK
<1>11. HostOK'
  BY <1>3, <1>6, <1>7, <1>9, <1>10 DEF HostOK
<1>12. HostEffect
  <2>1. \A s \in Starts : used[s] <= used'[s] /\ total[s] <= total'[s]
    BY SMT, SMTT(60) DEF HostOK
  <2>2. \A t \in DOMAIN map : born < map[t] \/ (t \in DOMAIN proc[p].threads /\ map[t] = proc[p].threads[t])
    BY <1>1, SMT, SMTT(60)
  <2>3. \A q \in Pids : q # p /\ Live(q)' => Live(q) /\ proc'[q] = proc[q]
    BY <1>3, <1>4
  <2>4. born <= born'
    BY <1>1, SMT, SMTT(60)
  <2>. QED  BY <1>2, <1>3, <2>1, <2>2, <2>3, <2>4 DEF HostEffect
<1>. QED  BY <1>11, <1>12

LEMMA CreateThreadKeeps ==
    ASSUME HostOK, NEW p \in Pids, NEW t \in Tids, CreateThread(p, t)
    PROVE  HostOK' /\ HostEffect
<1>. DEFINE old == proc[p].threads
            map == With(old, t, born + 1)
<1>1. /\ Live(p) /\ born < MaxStarts /\ proc[p].kind = "user" /\ t \notin DOMAIN old /\ born' = born + 1
      /\ proc' = [proc EXCEPT ![p] = [proc[p] EXCEPT !.threads = map]]
      /\ UNCHANGED <<used, total>> /\ UNCHANGED <<pc, stopped, samples, sampleVars, prevVars>>
  BY DEF CreateThread, Live
<1>2. /\ born \in Nat /\ MaxStarts \in Nat /\ p \in DOMAIN old /\ old[p] = proc[p].start
      /\ DOMAIN old \subseteq Pids \cup Tids
      /\ \A u \in DOMAIN old : old[u] \in Starts /\ old[u] \in Nat /\ old[u] <= born
  BY <1>1, HostFacts
<1>3. \A u, v \in DOMAIN old : old[u] = old[v] => u = v
  BY <1>1, StartsUnique
<1>. HIDE DEF old
<1>4. /\ DOMAIN map = DOMAIN old \cup {t} /\ map[t] = born + 1 /\ map = [u \in DOMAIN map |-> map[u]]
      /\ \A u \in DOMAIN old : u # t => map[u] = old[u]
  BY DEF With
<1>. HIDE DEF map
<1>5. map \in ThreadMaps
  <2>1. born + 1 \in Starts
    BY <1>1, <1>2, SMT, SMTT(60) DEF Starts
  <2>. QED  BY <1>2, <1>4, <2>1, ThreadMapFacts
<1>6. p \in DOMAIN map /\ map[p] = proc[p].start
  BY <1>2, <1>4, IdsAssumption
<1>7. \A u \in DOMAIN map : map[u] = born + 1 \/ (u \in DOMAIN old /\ map[u] = old[u])
  BY <1>4
<1>8. \A u, v \in DOMAIN map : map[u] = map[v] => u = v
  BY <1>2, <1>3, <1>4, SMT, SMTT(60)
<1>9. born' <= MaxStarts
  BY <1>1, <1>2, SMT, SMTT(60)
<1>. QED  BY <1>1, <1>5, <1>6, <1>7, <1>8, <1>9, ThreadsKeep DEF old

LEMMA ExitThreadKeeps ==
    ASSUME HostOK, NEW p \in Pids, NEW t \in Tids, ExitThread(p, t)
    PROVE  HostOK' /\ HostEffect
<1>. DEFINE old == proc[p].threads
            map == [u \in DOMAIN old \ {t} |-> old[u]]
<1>1. /\ Live(p) /\ t \in DOMAIN old /\ born' = born
      /\ proc' = [proc EXCEPT ![p] = [proc[p] EXCEPT !.threads = map]]
      /\ UNCHANGED <<used, total>> /\ UNCHANGED <<pc, stopped, samples, sampleVars, prevVars>>
  BY DEF ExitThread, Live
<1>2. /\ born \in Nat /\ MaxStarts \in Nat /\ born <= MaxStarts /\ p \in DOMAIN old /\ old[p] = proc[p].start
      /\ DOMAIN old \subseteq Pids \cup Tids /\ \A u \in DOMAIN old : old[u] \in Starts
  BY <1>1, HostFacts
<1>3. \A u, v \in DOMAIN old : old[u] = old[v] => u = v
  BY <1>1, StartsUnique
<1>4. proc[p].kind # "kernel"
  <2>1. proc[p].kind = "kernel" => DOMAIN old = {p}
    BY <1>1 DEF HostOK
  <2>. QED  BY <1>1, <2>1, IdsAssumption, SMT, SMTT(60)
<1>. HIDE DEF old
<1>5. /\ DOMAIN map = DOMAIN old \ {t} /\ map = [u \in DOMAIN map |-> map[u]]
      /\ \A u \in DOMAIN map : map[u] = old[u]
  OBVIOUS
<1>. HIDE DEF map
<1>6. map \in ThreadMaps
  BY <1>2, <1>5, ThreadMapFacts
<1>7. p \in DOMAIN map /\ map[p] = proc[p].start
  BY <1>2, <1>5, IdsAssumption
<1>8. \A u, v \in DOMAIN map : map[u] = map[v] => u = v
  BY <1>3, <1>5
<1>9. \A u \in DOMAIN map : u \in DOMAIN old /\ map[u] = old[u]
  BY <1>5
<1>. QED  BY <1>1, <1>2, <1>4, <1>6, <1>7, <1>8, <1>9, ThreadsKeep DEF old

LEMMA RunKeeps ==
    ASSUME HostOK, NEW p \in Pids, Run(p)
    PROVE  HostOK' /\ HostEffect
<1>1. Live(p) /\ total' = [total EXCEPT ![proc[p].start] = @ + 1] /\ UNCHANGED <<proc, born>>
      /\ UNCHANGED <<pc, stopped, samples, sampleVars, prevVars>>
  BY DEF Run, Live
<1>2. PICK t \in DOMAIN proc[p].threads : used' = [used EXCEPT ![proc[p].threads[t]] = @ + 1]
  BY DEF Run
<1>3. PICK a : a = proc[p].threads[t]
  OBVIOUS
<1>4. PICK b : b = proc[p].start
  OBVIOUS
<1>5. /\ a \in Starts /\ b \in Starts /\ a \in Nat /\ b \in Nat /\ a <= born /\ b <= born /\ born \in Nat
      /\ Starts \subseteq Nat
  BY <1>1, <1>3, <1>4, HostFacts, BoundsAssumption, SMT, SMTT(60) DEF Starts
<1>6. /\ used' \in [Starts -> Nat] /\ total' \in [Starts -> Nat]
      /\ \A s \in Starts : used'[s] = (IF s = a THEN used[s] + 1 ELSE used[s])
                           /\ total'[s] = (IF s = b THEN total[s] + 1 ELSE total[s])
                           /\ used[s] \in Nat /\ total[s] \in Nat
  BY <1>1, <1>2, <1>3, <1>4, <1>5, SMT, SMTT(60) DEF HostOK
<1>7. \A s \in Starts : s > born' => used'[s] = 0 /\ total'[s] = 0
  BY <1>1, <1>5, <1>6, SMT, SMTT(60) DEF HostOK
<1>8. ASSUME NEW q \in Pids, Live(q), proc[q].kind = "kernel"
      PROVE  used'[proc[q].start] = total'[proc[q].start]
  <2>1. /\ used[proc[q].start] = total[proc[q].start] /\ DOMAIN proc[q].threads = {q}
        /\ proc[q].threads[q] = proc[q].start /\ proc[q].start \in Starts
    BY <1>8, HostFacts DEF HostOK
  <2>2. p \in DOMAIN proc[p].threads /\ proc[p].threads[p] = b
    BY <1>1, <1>4, HostFacts
  <2>3. CASE q = p
    BY <1>3, <1>4, <1>6, <2>1, <2>3, SMT, SMTT(60)
  <2>4. CASE q # p
    <3>1. proc[q].start # a
      BY <1>1, <1>3, <1>8, <2>1, <2>4, StartsUnique, SMT, SMTT(60)
    <3>2. proc[q].start # b
      BY <1>1, <1>8, <2>1, <2>2, <2>4, StartsUnique, SMT, SMTT(60)
    <3>. QED  BY <1>6, <2>1, <3>1, <3>2
  <2>. QED  BY <2>3, <2>4
<1>9. HostOK'
  <2>1. \A q \in Pids : Live(q)' <=> Live(q)
    BY <1>1 DEF Live
  <2>. QED  BY <1>1, <1>6, <1>7, <1>8, <2>1, SMT, SMTT(60) DEF HostOK
<1>10. HostEffect
  <2>1. \A s \in Starts : used[s] <= used'[s] /\ total[s] <= total'[s]
    BY <1>6, SMT, SMTT(60)
  <2>2. \A q \in Pids : Live(q)' => Live(q)
    BY <1>1 DEF Live
  <2>3. born <= born'
    BY <1>1, <1>5, SMT, SMTT(60)
  <2>. QED  BY <1>1, <2>1, <2>2, <2>3 DEF HostEffect
<1>. QED  BY <1>9, <1>10

\* What the monitor's state says of keys.
LEMMA KeyFacts ==
    ASSUME TypeOK, HostOK
    PROVE  /\ \A k \in ProcessKeys : k \in Pids \X (1..born) /\ k = <<k[1], k[2]>> /\ k[1] \in Pids
                                     /\ k[2] \in Starts /\ k[2] \in Nat /\ k[2] <= born
           /\ \A k \in DOMAIN nextThread \cup DOMAIN prevThread :
                /\ k = <<k[1], k[2], k[3]>> /\ k[1] \in Pids /\ k[3] \in Starts /\ k[3] \in Nat /\ k[3] <= born
           /\ \A k \in DOMAIN nextProcess : nextProcess[k] \in Nat
           /\ \A k \in DOMAIN prevProcess : prevProcess[k] \in Nat
           /\ \A k \in DOMAIN nextThread : nextThread[k] \in Nat
           /\ \A k \in DOMAIN prevThread : prevThread[k] \in Nat
<1>1. 1..born \subseteq Starts /\ \A s \in 1..born : s \in Nat /\ s <= born
  BY HostFacts, SMT, SMTT(60) DEF Starts
<1>2. ProcessKeys \subseteq Pids \X (1..born)
  BY DEF TypeOK, Times, ProcessKeys
<1>3. DOMAIN nextThread \cup DOMAIN prevThread \subseteq Pids \X (Pids \cup Tids) \X (1..born)
  BY DEF TypeOK, Times
<1>4. /\ \A k \in DOMAIN nextProcess : nextProcess[k] \in Nat
      /\ \A k \in DOMAIN prevProcess : prevProcess[k] \in Nat
      /\ \A k \in DOMAIN nextThread : nextThread[k] \in Nat
      /\ \A k \in DOMAIN prevThread : prevThread[k] \in Nat
  BY DEF TypeOK, Times
<1>5. \A k \in Pids \X (1..born) : k = <<k[1], k[2]>> /\ k[1] \in Pids /\ k[2] \in 1..born
  BY SMT, SMTT(60)
<1>6. \A k \in Pids \X (Pids \cup Tids) \X (1..born) : k = <<k[1], k[2], k[3]>> /\ k[1] \in Pids /\ k[3] \in 1..born
  BY SMT, SMTT(60)
<1>. QED  BY <1>1, <1>2, <1>3, <1>4, <1>5, <1>6

LEMMA HostTypes ==
    ASSUME TypeOK, HostOK, HostOK', HostEffect
    PROVE  TypeOK'
<1>1. 1..born \subseteq 1..born'
  BY HostFacts, SMT, SMTT(60) DEF HostEffect, HostOK
<1>2. UNCHANGED <<pc, stopped, samples, sampleVars, prevVars>>
  BY DEF HostEffect
<1>3. /\ Times(Pids \X (1..born'), nextProcess) /\ Times(Pids \X (1..born'), prevProcess)
      /\ Times(1..born', processUsage) /\ Times(1..born', threadUsage)
  <2>1. Pids \X (1..born) \subseteq Pids \X (1..born')
    BY <1>1
  <2>. QED  BY <1>1, <2>1, TimesGrow DEF TypeOK
<1>4. /\ Times(Pids \X (Pids \cup Tids) \X (1..born'), nextThread)
      /\ Times(Pids \X (Pids \cup Tids) \X (1..born'), prevThread)
  <2>1. Pids \X (Pids \cup Tids) \X (1..born) \subseteq Pids \X (Pids \cup Tids) \X (1..born')
    BY <1>1
  <2>. QED  BY <2>1, TimesGrow DEF TypeOK
<1>. QED  BY <1>2, <1>3, <1>4 DEF TypeOK, sampleVars, prevVars

LEMMA HostKeys ==
    ASSUME IInv, HostOK', HostEffect
    PROVE  KeysOK' /\ SeenOK' /\ KernelOK'
<1>1. UNCHANGED <<pc, todo, current, nextProcess, prevProcess, nextThread, threadUsage, first, threadCharged>>
  BY DEF HostEffect, sampleVars, prevVars
<1>2. TypeOK /\ HostOK /\ KeysOK /\ SeenOK /\ KernelOK /\ HistoriesOK
  BY DEF IInv
<1>3. /\ \A k \in ProcessKeys : k[2] \in Nat /\ k[2] <= born
      /\ \A k \in DOMAIN nextThread : k[3] \in Nat /\ k[3] <= born
      /\ born \in Nat
  BY <1>2, KeyFacts, HostFacts
<1>4. ASSUME NEW p \in Pids, Live(p)'
      PROVE  /\ proc'[p].start \in Nat /\ proc'[p].start \in Starts
             /\ \A t \in DOMAIN proc'[p].threads : proc'[p].threads[t] \in Nat
  <2>1. proc'[p] \in Processes
    BY <1>4, SMT, SMTT(60) DEF HostOK, Live
  <2>2. proc'[p].start \in Starts /\ proc'[p].threads \in ThreadMaps
    BY <2>1 DEF Processes
  <2>3. Starts \subseteq Nat
    BY BoundsAssumption, SMT, SMTT(60) DEF Starts
  <2>. QED  BY <2>2, <2>3, ThreadMapFacts
<1>5. ProcessKeys' = ProcessKeys
  BY <1>1 DEF ProcessKeys
<1>6. ASSUME NEW p \in Pids, Live(p)', NEW k \in ProcessKeys, proc'[p].start = k[2]
      PROVE  Live(p) /\ proc[p].start = k[2] /\ proc'[p].kind = proc[p].kind
  BY <1>3, <1>4, <1>6, SMT, SMTT(60) DEF HostEffect
<1>7. ASSUME NEW p \in Pids, Live(p)', NEW k \in DOMAIN nextThread, NEW t \in DOMAIN proc'[p].threads,
             proc'[p].threads[t] = k[3]
      PROVE  Live(p) /\ t \in DOMAIN proc[p].threads /\ proc[p].threads[t] = k[3]
  BY <1>3, <1>4, <1>7, SMT, SMTT(60) DEF HostEffect
<1>8. KeysOK'
  <2>1. \A k \in ProcessKeys, p \in Pids : Live(p)' /\ proc'[p].start = k[2] => p = k[1]
    BY <1>2, <1>6 DEF KeysOK
  <2>2. \A k \in DOMAIN nextThread, p \in Pids : Live(p)' =>
          \A t \in DOMAIN proc'[p].threads : proc'[p].threads[t] = k[3] => p = k[1] /\ t = k[2]
    BY <1>2, <1>7, SMT, SMTT(60) DEF KeysOK
  <2>. QED  BY <1>1, <1>2, <1>5, <2>1, <2>2 DEF KeysOK
<1>9. SeenOK'
  <2>1. SUFFICES ASSUME NEW p \in Pids, Live(p)', proc'[p].kind # "ignored"
                 PROVE  LET k == <<p, proc'[p].start>>
                        IN  /\ first[proc'[p].start] # None => k \in DOMAIN prevProcess
                            /\ Sampling /\ k \in DOMAIN prevProcess => p \in todo \/ k \in DOMAIN nextProcess
    BY <1>1 DEF SeenOK, Sampling
  <2>2. CASE born < proc'[p].start
    <3>1. first[proc'[p].start] = None
      BY <1>2, <1>3, <1>4, <2>1, <2>2 DEF HistoriesOK
    <3>2. <<p, proc'[p].start>> \notin ProcessKeys
      BY <1>3, <1>4, <2>1, <2>2, SMT, SMTT(60)
    <3>. QED  BY <3>1, <3>2 DEF ProcessKeys
  <2>3. CASE ~ (born < proc'[p].start)
    <3>1. Live(p) /\ proc'[p].start = proc[p].start /\ proc'[p].kind = proc[p].kind
      BY <2>1, <2>3 DEF HostEffect
    <3>. QED  BY <1>2, <2>1, <3>1 DEF SeenOK
  <2>. QED  BY <2>2, <2>3
<1>10. KernelOK'
  <2>1. SUFFICES ASSUME NEW p \in Pids, Live(p)', proc'[p].kind = "kernel"
                 PROVE  LET s == proc'[p].start
                        IN  /\ <<p, s>> \in DOMAIN prevProcess => threadCharged[s] <= prevProcess[<<p, s>>]
                            /\ <<p, s>> \in DOMAIN nextProcess => Charging(s) <= nextProcess[<<p, s>>]
                            /\ pc \in {"tasks", "task"} /\ current = p => <<p, s>> \notin DOMAIN nextProcess
    BY <1>1 DEF KernelOK, Charging
  <2>2. CASE <<p, proc'[p].start>> \notin ProcessKeys
    BY <2>2 DEF ProcessKeys
  <2>3. CASE <<p, proc'[p].start>> \in ProcessKeys
    <3>1. Live(p) /\ proc[p].start = proc'[p].start /\ proc[p].kind = "kernel"
      BY <1>6, <2>1, <2>3
    <3>. QED  BY <1>2, <3>1 DEF KernelOK
  <2>. QED  BY <2>2, <2>3
<1>. QED  BY <1>8, <1>9, <1>10

LEMMA HostTimes ==
    ASSUME IInv, HostOK', HostEffect
    PROVE  HistoriesOK' /\ PrevOK' /\ NextOK' /\ ThreadsOK'
<1>1. UNCHANGED <<nextProcess, prevProcess, nextThread, prevThread, processUsage, threadUsage, first, charged, threadCharged>>
  BY DEF HostEffect, sampleVars, prevVars
<1>2. /\ born \in Nat /\ born' \in Nat /\ born <= born' /\ Starts \subseteq Nat
      /\ \A s \in Starts : /\ used[s] \in Nat /\ used'[s] \in Nat /\ used[s] <= used'[s]
                           /\ total[s] \in Nat /\ total'[s] \in Nat /\ total[s] <= total'[s]
  BY BoundsAssumption, SMT, SMTT(60) DEF IInv, HostOK, HostEffect, Starts
<1>3. HistoriesOK'
  BY <1>1, <1>2, SMT, SMTT(60) DEF IInv, HistoriesOK
<1>4. /\ \A k \in ProcessKeys : k[2] \in Starts
      /\ \A k \in DOMAIN nextProcess : nextProcess[k] \in Nat
      /\ \A k \in DOMAIN prevProcess : prevProcess[k] \in Nat
      /\ \A s \in Starts : charged[s] \in Nat
  BY KeyFacts DEF IInv, HistoriesOK
<1>5. PrevOK'
  <2>1. \A k \in DOMAIN prevProcess : prevProcess[k] <= total'[k[2]]
    <3>1. SUFFICES ASSUME NEW k \in DOMAIN prevProcess PROVE prevProcess[k] <= total'[k[2]]
      OBVIOUS
    <3>2. k[2] \in Starts /\ prevProcess[k] \in Nat /\ prevProcess[k] <= total[k[2]]
      BY <1>4 DEF IInv, PrevOK, ProcessKeys
    <3>3. total[k[2]] \in Nat /\ total'[k[2]] \in Nat /\ total[k[2]] <= total'[k[2]]
      BY <1>2, <3>2
    <3>. QED  BY <3>2, <3>3, SMT, SMTT(60)
  <2>2. \A s \in Starts : charged[s] <= total'[s]
    BY <1>2, <1>4, SMT, SMTT(60) DEF IInv, PrevOK
  <2>. QED  BY <1>1, <2>1, <2>2 DEF IInv, PrevOK
<1>6. NextOK'
  <2>1. \A k \in DOMAIN nextProcess : nextProcess[k] <= total'[k[2]]
    <3>1. SUFFICES ASSUME NEW k \in DOMAIN nextProcess PROVE nextProcess[k] <= total'[k[2]]
      OBVIOUS
    <3>2. k[2] \in Starts /\ nextProcess[k] \in Nat /\ nextProcess[k] <= total[k[2]]
      BY <1>4 DEF IInv, NextOK, ProcessKeys
    <3>3. total[k[2]] \in Nat /\ total'[k[2]] \in Nat /\ total[k[2]] <= total'[k[2]]
      BY <1>2, <3>2
    <3>. QED  BY <3>2, <3>3
  <2>. QED  BY <1>1, <2>1 DEF IInv, NextOK
<1>7. ThreadsOK'
  <2>1. \A s \in Starts : Charging(s)' = Charging(s) /\ Charging(s) \in Nat
    BY <1>1, HostFacts, SMT, SMTT(60) DEF Charging, IInv, HistoriesOK, TypeOK, Times
  <2>2. \A s \in Starts : Charging(s)' <= used'[s]
    BY <1>2, <2>1, SMT, SMTT(60) DEF IInv, ThreadsOK
  <2>3. \A k \in DOMAIN nextThread : Charging(k[3])' = Charging(k[3])
    BY <1>1 DEF Charging
  <2>. QED  BY <1>1, <2>2, <2>3 DEF IInv, ThreadsOK
<1>. QED  BY <1>3, <1>5, <1>6, <1>7

LEMMA HostKeeps ==
    ASSUME IInv, HostStep
    PROVE  IInv'
<1>1. HostOK' /\ HostEffect
  BY ForkKeeps, ExitKeeps, RunKeeps, CreateThreadKeeps, ExitThreadKeeps DEF HostStep, IInv
<1>2. TypeOK'
  BY <1>1, HostTypes DEF IInv
<1>3. PhaseOK' /\ ClockOK' /\ HistoryIsSeamless'
  <2>1. UNCHANGED <<pc, samples, now, todo, current, nextProcess, nextThread, processUsage, threadUsage, prevTs, history>>
    BY <1>1 DEF HostEffect, sampleVars, prevVars
  <2>. QED  BY <2>1 DEF IInv, PhaseOK, ClockOK, HistoryIsSeamless
<1>. QED  BY <1>1, <1>2, <1>3, HostKeys, HostTimes DEF IInv

-----------------------------------------------------------------------------
(* The sampler.                                                             *)

\* What is left alone stays as it is.
LEMMA SameHost ==
    ASSUME HostOK, UNCHANGED <<proc, used, total, born>>
    PROVE  HostOK'
BY SMT, SMTT(60) DEF HostOK, Live

LEMMA SamePrev ==
    ASSUME IInv, UNCHANGED <<total, born, prevTs, prevProcess, history, first, charged, threadCharged>>
    PROVE  HistoriesOK' /\ HistoryIsSeamless' /\ PrevOK'
<1>1. HistoriesOK'
  BY DEF IInv, HistoriesOK
<1>2. HistoryIsSeamless'
  BY DEF IInv, HistoryIsSeamless
<1>3. PrevOK'
  BY DEF IInv, PrevOK
<1>. QED  BY <1>1, <1>2, <1>3

\* Steps that read no times.
LEMMA FrameKeeps ==
    ASSUME IInv, UNCHANGED worldVars,
           UNCHANGED <<nextProcess, nextThread, processUsage, threadUsage,
                       prevTs, prevProcess, prevThread, history, first, charged, threadCharged>>,
           TypeOK', PhaseOK', ClockOK',
           \A q \in Pids : Live(q) /\ proc[q].kind # "ignored" /\ Sampling' => q \in todo' \/ (Sampling /\ q \notin todo),
           pc' \in {"tasks", "task"} => pc \in {"tasks", "task"} /\ current' = current,
           todo' \subseteq todo \/ nextThread = Empty
    PROVE  IInv'
<1>1. UNCHANGED <<proc, used, total, born>>
  BY DEF worldVars
<1>2. HostOK' /\ HistoriesOK' /\ HistoryIsSeamless' /\ PrevOK' /\ NextOK' /\ ThreadsOK'
  <2>1. HostOK'
    BY <1>1, SameHost DEF IInv
  <2>2. HistoriesOK' /\ HistoryIsSeamless' /\ PrevOK'
    BY <1>1, SamePrev
  <2>3. NextOK'
    BY <1>1 DEF IInv, NextOK
  <2>4. ThreadsOK'
    BY <1>1 DEF IInv, ThreadsOK, Charging
  <2>. QED  BY <2>1, <2>2, <2>3, <2>4
<1>3. KeysOK'
  <2>1. \A k \in DOMAIN nextThread : k[1] \notin todo'
    BY EmptyFacts DEF IInv, KeysOK
  <2>. QED  BY <1>1, <2>1 DEF IInv, KeysOK, ProcessKeys, Live
<1>4. SeenOK'
  <2>1. SUFFICES ASSUME NEW q \in Pids, Live(q), proc[q].kind # "ignored"
                 PROVE  LET k == <<q, proc[q].start>>
                        IN  /\ first[proc[q].start] # None => k \in DOMAIN prevProcess
                            /\ Sampling' /\ k \in DOMAIN prevProcess => q \in todo' \/ k \in DOMAIN nextProcess
    BY <1>1 DEF SeenOK, Live
  <2>. QED  BY <2>1 DEF IInv, SeenOK
<1>5. KernelOK'
  BY <1>1 DEF IInv, KernelOK, Live, Charging
<1>. QED  BY <1>2, <1>3, <1>4, <1>5 DEF IInv

LEMMA BeginKeeps ==
    ASSUME IInv, Begin
    PROVE  IInv'
<1>1. /\ UNCHANGED worldVars /\ UNCHANGED prevVars /\ pc = "wait" /\ pc' = "system"
      /\ samples < MaxSamples /\ samples' = samples + 1 /\ now' = samples
      /\ UNCHANGED <<stopped, todo, current, tids, threads, nextProcess, nextThread, processUsage, threadUsage>>
  BY DEF Begin
<1>2. UNCHANGED born /\ UNCHANGED <<prevTs, prevProcess, prevThread, history, first, charged, threadCharged>>
  BY <1>1 DEF worldVars, prevVars
<1>3. samples \in Nat /\ samples' \in 0..MaxSamples /\ now' \in Nat
  BY <1>1, BoundsAssumption, SMT, SMTT(60) DEF IInv, TypeOK
<1>4. TypeOK'
  BY <1>1, <1>2, <1>3 DEF IInv, TypeOK
<1>5. PhaseOK'
  BY <1>1 DEF IInv, PhaseOK
<1>6. ClockOK'
  <2>1. prevTs # None => prevTs \in Nat /\ prevTs < samples
    BY DEF IInv, TypeOK, ClockOK
  <2>2. prevTs = None <=> history = <<>>
    BY DEF IInv, ClockOK
  <2>. QED  BY <1>1, <1>2, <1>3, <2>1, <2>2, SMT, SMTT(60) DEF ClockOK
<1>7. ~ Sampling' /\ pc' \notin {"tasks", "task"}
  BY <1>1 DEF Sampling
<1>. QED  BY <1>1, <1>2, <1>4, <1>5, <1>6, <1>7, FrameKeeps

LEMMA ReadSystemKeeps ==
    ASSUME IInv, ReadSystem
    PROVE  IInv'
<1>1. /\ UNCHANGED worldVars /\ UNCHANGED prevVars /\ pc = "system"
      /\ (pc' = "process" /\ todo' = {q \in Pids : Live(q)}) \/ (pc' = "wait" /\ todo' = todo)
      /\ UNCHANGED <<stopped, samples, now, current, tids, threads, nextProcess, nextThread, processUsage, threadUsage>>
  BY DEF ReadSystem, Live
<1>2. UNCHANGED born /\ UNCHANGED <<prevTs, prevProcess, prevThread, history, first, charged, threadCharged>>
  BY <1>1 DEF worldVars, prevVars
<1>3. todo' \subseteq Pids /\ pc' \in {"wait", "process"}
  BY <1>1 DEF IInv, TypeOK
<1>4. TypeOK'
  BY <1>1, <1>2, <1>3 DEF IInv, TypeOK
<1>5. PhaseOK' /\ nextThread = Empty
  BY <1>1 DEF IInv, PhaseOK
<1>6. ClockOK'
  BY <1>1, <1>2 DEF IInv, ClockOK
<1>7. \A q \in Pids : Live(q) /\ Sampling' => q \in todo'
  BY <1>1 DEF Sampling
<1>. QED  BY <1>1, <1>2, <1>3, <1>4, <1>5, <1>6, <1>7, FrameKeeps

LEMMA ListTasksKeeps ==
    ASSUME IInv, ListTasks
    PROVE  IInv'
<1>1. /\ UNCHANGED worldVars /\ UNCHANGED prevVars /\ pc = "tasks" /\ pc' = "task"
      /\ tids' = IF proc[current] = None THEN {current} ELSE DOMAIN proc[current].threads
      /\ UNCHANGED <<stopped, samples, now, todo, current, threads, nextProcess, nextThread, processUsage, threadUsage>>
  BY DEF ListTasks
<1>2. UNCHANGED born /\ UNCHANGED <<prevTs, prevProcess, prevThread, history, first, charged, threadCharged>>
  BY <1>1 DEF worldVars, prevVars
<1>3. current \in Pids
  BY <1>1 DEF IInv, PhaseOK
<1>4. tids' \subseteq Pids \cup Tids
  BY <1>1, <1>3, HostFacts DEF IInv, Live
<1>5. TypeOK'
  BY <1>1, <1>2, <1>4 DEF IInv, TypeOK
<1>6. PhaseOK' /\ ClockOK'
  BY <1>1, <1>2 DEF IInv, PhaseOK, ClockOK
<1>7. Sampling
  BY <1>1 DEF Sampling
<1>. QED  BY <1>1, <1>2, <1>5, <1>6, <1>7, FrameKeeps

LEMMA EndProcessKeeps ==
    ASSUME IInv, EndProcess
    PROVE  IInv'
<1>1. /\ UNCHANGED worldVars /\ UNCHANGED prevVars /\ pc = "task" /\ pc' = "process"
      /\ threads' = {} /\ current' = None
      /\ UNCHANGED <<stopped, samples, now, todo, tids, nextProcess, nextThread, processUsage, threadUsage>>
  BY DEF EndProcess
<1>2. UNCHANGED born /\ UNCHANGED <<prevTs, prevProcess, prevThread, history, first, charged, threadCharged>>
  BY <1>1 DEF worldVars, prevVars
<1>3. TypeOK'
  BY <1>1, <1>2 DEF IInv, TypeOK
<1>4. PhaseOK' /\ ClockOK'
  BY <1>1, <1>2 DEF IInv, PhaseOK, ClockOK
<1>5. Sampling
  BY <1>1 DEF Sampling
<1>. QED  BY <1>1, <1>2, <1>3, <1>4, <1>5, FrameKeeps

LEMMA StopKeeps ==
    ASSUME IInv, Stop \/ UNCHANGED vars
    PROVE  IInv'
<1>1. UNCHANGED worldVars /\ UNCHANGED sampleVars /\ UNCHANGED prevVars /\ UNCHANGED <<pc, samples>>
      /\ stopped' \in BOOLEAN
  BY DEF Stop, vars, IInv, TypeOK
<1>2. /\ UNCHANGED born /\ UNCHANGED <<prevTs, prevProcess, prevThread, history, first, charged, threadCharged>>
      /\ UNCHANGED <<now, todo, current, tids, threads, nextProcess, nextThread, processUsage, threadUsage>>
  BY <1>1 DEF worldVars, prevVars, sampleVars
<1>3. TypeOK'
  BY <1>1, <1>2 DEF IInv, TypeOK
<1>4. PhaseOK' /\ ClockOK'
  BY <1>1, <1>2 DEF IInv, PhaseOK, ClockOK
<1>5. Sampling' <=> Sampling
  BY <1>1 DEF Sampling
<1>. QED  BY <1>1, <1>2, <1>3, <1>4, <1>5, FrameKeeps

\* A process is read: it is one that lives and is monitored.
Reads(p, r, k, usage) ==
    /\ pc = "process" /\ p \in todo /\ todo' = todo \ {p}
    /\ Live(p) /\ r = proc[p] /\ r.kind # "ignored"
    /\ k = <<p, r.start>> /\ usage = CalculateUsage(prevProcess, k, total[r.start])
    /\ nextProcess' = With(nextProcess, k, total[r.start])
    /\ processUsage' = With(processUsage, r.start, usage)
    /\ threadUsage' = IF r.kind = "kernel" THEN With(threadUsage, r.start, usage) ELSE threadUsage
    /\ IF r.kind = "kernel" THEN UNCHANGED <<pc, current>> ELSE pc' = "tasks" /\ current' = p
    /\ UNCHANGED <<proc, used, total, born>>
    /\ UNCHANGED <<stopped, samples, now, tids, threads, nextThread>>
    /\ UNCHANGED <<prevTs, prevProcess, prevThread, history, first, charged, threadCharged>>

LEMMA ReadsFacts ==
    ASSUME IInv, NEW p \in Pids, NEW r, NEW k, NEW usage, Reads(p, r, k, usage)
    PROVE  /\ r.start \in Starts /\ r.start \in 1..born /\ k \in Pids \X (1..born) /\ k[1] = p /\ k[2] = r.start
           /\ total[r.start] \in Nat /\ usage \in Nat
           /\ \A l \in ProcessKeys : l[2] = r.start => l = k
           /\ k \in DOMAIN prevProcess => /\ prevProcess[k] \in Nat /\ prevProcess[k] <= total[r.start]
                                          /\ usage = total[r.start] - prevProcess[k]
           /\ k \notin DOMAIN prevProcess => usage = 0
<1>1. r.start \in Starts /\ r.start \in 1..born
  <2>1. Live(p) /\ r = proc[p]
    BY DEF Reads
  <2>2. r.start \in Starts /\ r.start \in Nat /\ r.start <= born /\ born \in Nat
    BY <2>1, HostFacts DEF IInv
  <2>. QED  BY <2>2, SMT, SMTT(60) DEF Starts
<1>2. k = <<p, r.start>> /\ k \in Pids \X (1..born) /\ k[1] = p /\ k[2] = r.start
  BY <1>1 DEF Reads
<1>3. total[r.start] \in Nat
  BY <1>1 DEF IInv, HostOK
<1>4. usage \in Nat
  BY <1>3, UsageType DEF Reads, IInv, TypeOK
<1>5. ASSUME NEW l \in ProcessKeys, l[2] = r.start PROVE l = k
  <2>1. l = <<l[1], l[2]>>
    BY KeyFacts DEF IInv
  <2>2. p = l[1]
    BY <1>5 DEF IInv, KeysOK, Reads
  <2>. QED  BY <1>2, <1>5, <2>1, <2>2
<1>6. k \in DOMAIN prevProcess => prevProcess[k] \in Nat /\ prevProcess[k] <= total[r.start]
  BY <1>2, KeyFacts DEF IInv, PrevOK
<1>7. usage = CalculateUsage(prevProcess, k, total[r.start])
  BY DEF Reads
<1>. QED  BY <1>1, <1>2, <1>3, <1>4, <1>5, <1>6, <1>7, SMT, SMTT(60) DEF CalculateUsage

LEMMA ReadsTypes ==
    ASSUME IInv, NEW p \in Pids, NEW r, NEW k, NEW usage, Reads(p, r, k, usage)
    PROVE  TypeOK' /\ HostOK' /\ HistoriesOK' /\ PhaseOK' /\ ClockOK' /\ HistoryIsSeamless' /\ PrevOK'
<1>1. HostOK' /\ HistoriesOK' /\ HistoryIsSeamless' /\ PrevOK'
  <2>1. HostOK /\ UNCHANGED <<proc, used, total, born>>
        /\ UNCHANGED <<total, born, prevTs, prevProcess, history, first, charged, threadCharged>>
    BY DEF IInv, Reads
  <2>. QED  BY <2>1, SameHost, SamePrev
<1>2. /\ Times(Pids \X (1..born), nextProcess') /\ Times(1..born, processUsage') /\ Times(1..born, threadUsage')
  <2>1. /\ Times(Pids \X (1..born), nextProcess) /\ Times(1..born, processUsage) /\ Times(1..born, threadUsage)
    BY DEF IInv, TypeOK
  <2>2. /\ r.start \in 1..born /\ k \in Pids \X (1..born) /\ total[r.start] \in Nat /\ usage \in Nat
    BY ReadsFacts
  <2>3. /\ nextProcess' = With(nextProcess, k, total[r.start])
        /\ processUsage' = With(processUsage, r.start, usage)
        /\ threadUsage' = With(threadUsage, r.start, usage) \/ threadUsage' = threadUsage
    BY DEF Reads
  <2>. QED  BY <2>1, <2>2, <2>3, WithTimes
<1>3. todo' \subseteq Pids /\ pc' \in {"process", "tasks"} /\ current' \in Pids \cup {None}
  BY DEF IInv, TypeOK, Reads
<1>4. TypeOK'
  BY <1>2, <1>3 DEF IInv, TypeOK, Reads
<1>5. PhaseOK'
  BY DEF PhaseOK, Reads
<1>6. ClockOK'
  BY DEF IInv, ClockOK, Reads
<1>. QED  BY <1>1, <1>4, <1>5, <1>6

LEMMA ReadsKeys ==
    ASSUME IInv, NEW p \in Pids, NEW r, NEW k, NEW usage, Reads(p, r, k, usage)
    PROVE  KeysOK' /\ NextOK' /\ SeenOK'
<1>1. /\ k \in Pids \X (1..born) /\ k[1] = p /\ k[2] = r.start /\ k = <<p, r.start>>
      /\ \A l \in ProcessKeys : l[2] = r.start => l = k
  BY ReadsFacts, SMT, SMTT(60) DEF Reads
<1>2. /\ DOMAIN nextProcess' = DOMAIN nextProcess \cup {k} /\ nextProcess'[k] = total[r.start]
      /\ \A l \in DOMAIN nextProcess : l # k => nextProcess'[l] = nextProcess[l]
  BY DEF Reads, With
<1>3. /\ DOMAIN processUsage' = DOMAIN processUsage \cup {r.start} /\ processUsage'[r.start] = usage
      /\ \A s \in DOMAIN processUsage : s # r.start => processUsage'[s] = processUsage[s]
  BY DEF Reads, With
<1>4. UNCHANGED <<proc, total, prevProcess, first, nextThread>> /\ Live(p) /\ r = proc[p] /\ r.kind # "ignored"
      /\ todo' = todo \ {p}
  BY DEF Reads
<1>5. ProcessKeys' = ProcessKeys \cup {k}
  BY <1>2, <1>4 DEF ProcessKeys
<1>6. KeysOK'
  <2>1. \A l, m \in ProcessKeys' : l[2] = m[2] => l = m
    BY <1>1, <1>5, SMT, SMTT(60) DEF IInv, KeysOK
  <2>2. \A q \in Pids : Live(q) /\ proc[q].start = r.start => q = p
    BY <1>4, HostFacts, StartsUnique, SMT, SMTT(60) DEF IInv
  <2>3. \A l \in ProcessKeys', q \in Pids : Live(q)' /\ proc'[q].start = l[2] => q = l[1]
    BY <1>1, <1>4, <1>5, <2>2, SMT, SMTT(60) DEF IInv, KeysOK, Live
  <2>4. /\ \A l \in DOMAIN nextThread, q \in Pids : Live(q)' =>
            \A t \in DOMAIN proc[q].threads : proc[q].threads[t] = l[3] => q = l[1] /\ t = l[2]
        /\ \A l \in DOMAIN nextThread : l[1] \notin todo'
    BY <1>4 DEF IInv, KeysOK, Live
  <2>. QED  BY <1>4, <2>1, <2>3, <2>4 DEF KeysOK
<1>7. NextOK'
  <2>1. DOMAIN processUsage' = {l[2] : l \in DOMAIN nextProcess'}
    BY <1>1, <1>2, <1>3, SMT, SMTT(60) DEF IInv, NextOK
  <2>2. /\ nextProcess'[k] <= total[k[2]]
        /\ processUsage'[k[2]] = CalculateUsage(prevProcess, k, nextProcess'[k])
        /\ k \in DOMAIN prevProcess => prevProcess[k] <= nextProcess'[k]
    <3>1. total[r.start] \in Nat /\ (k \in DOMAIN prevProcess => prevProcess[k] <= total[r.start])
      BY ReadsFacts
    <3>2. nextProcess'[k] = total[r.start] /\ processUsage'[k[2]] = usage /\ k[2] = r.start
      BY <1>1, <1>2, <1>3
    <3>3. usage = CalculateUsage(prevProcess, k, total[r.start])
      BY DEF Reads
    <3>4. \A n \in Nat : n <= n
      BY SMT, SMTT(60)
    <3>. QED  BY <3>1, <3>2, <3>3, <3>4
  <2>3. first[k[2]] # None => k \in DOMAIN prevProcess
    BY <1>1, <1>4 DEF IInv, SeenOK
  <2>4. ASSUME NEW l \in DOMAIN nextProcess, l # k
        PROVE  /\ nextProcess'[l] <= total[l[2]]
               /\ processUsage'[l[2]] = CalculateUsage(prevProcess, l, nextProcess'[l])
               /\ l \in DOMAIN prevProcess => prevProcess[l] <= nextProcess'[l]
               /\ first[l[2]] # None => l \in DOMAIN prevProcess
    <3>1. l[2] # r.start /\ l[2] \in DOMAIN processUsage
      BY <1>1, <2>4 DEF ProcessKeys, IInv, NextOK
    <3>2. nextProcess'[l] = nextProcess[l] /\ processUsage'[l[2]] = processUsage[l[2]]
      BY <1>2, <1>3, <2>4, <3>1
    <3>. QED  BY <2>4, <3>2 DEF IInv, NextOK
  <2>. QED  BY <1>2, <1>4, <2>1, <2>2, <2>3, <2>4 DEF NextOK
<1>8. SeenOK'
  <2>1. Sampling
    BY DEF Reads, Sampling
  <2>2. SUFFICES ASSUME NEW q \in Pids, Live(q), proc[q].kind # "ignored"
                 PROVE  LET l == <<q, proc[q].start>>
                        IN  /\ first[proc[q].start] # None => l \in DOMAIN prevProcess
                            /\ l \in DOMAIN prevProcess => q \in todo' \/ l \in DOMAIN nextProcess'
    BY <1>4 DEF SeenOK, Live
  <2>. QED  BY <1>1, <1>2, <1>4, <2>1, <2>2 DEF IInv, SeenOK
<1>. QED  BY <1>6, <1>7, <1>8

\* What a thread is charged after the sample, when the usage of one is noted.
LEMMA ChargingWith ==
    ASSUME NEW s, NEW v, threadUsage' = With(threadUsage, s, v), threadCharged' = threadCharged
    PROVE  Charging(s)' = threadCharged[s] + v /\ \A o : o # s => Charging(o)' = Charging(o)
<1>1. /\ DOMAIN threadUsage' = DOMAIN threadUsage \cup {s} /\ threadUsage'[s] = v
      /\ \A o \in DOMAIN threadUsage : o # s => threadUsage'[o] = threadUsage[o]
  BY DEF With
<1>. QED  BY <1>1 DEF Charging

LEMMA ChargingFacts ==
    ASSUME IInv, NEW s \in Starts
    PROVE  /\ threadCharged[s] \in Nat /\ Charging(s) \in Nat /\ threadCharged[s] <= Charging(s)
           /\ used[s] \in Nat /\ Charging(s) <= used[s]
<1>1. threadCharged[s] \in Nat /\ used[s] \in Nat /\ Charging(s) <= used[s]
  BY DEF IInv, HistoriesOK, HostOK, ThreadsOK
<1>2. s \in DOMAIN threadUsage => threadUsage[s] \in Nat
  BY DEF IInv, TypeOK, Times
<1>. QED  BY <1>1, <1>2, SMT, SMTT(60) DEF Charging

LEMMA ReadsThreads ==
    ASSUME IInv, NEW p \in Pids, NEW r, NEW k, NEW usage, Reads(p, r, k, usage)
    PROVE  ThreadsOK' /\ KernelOK'
<1>. DEFINE s == r.start
<1>1. /\ UNCHANGED <<proc, used, total, prevProcess, nextThread, prevThread, threadCharged>> /\ pc = "process"
      /\ Live(p) /\ r = proc[p] /\ k = <<p, s>> /\ p \in todo
  BY DEF Reads
<1>2. s \in Starts
  BY ReadsFacts
<1>3. r.kind = "kernel" => threadCharged[s] + usage <= total[s] /\ used[s] = total[s]
  <2>1. SUFFICES ASSUME r.kind = "kernel" PROVE threadCharged[s] + usage <= total[s] /\ used[s] = total[s]
    OBVIOUS
  <2>2. used[s] = total[s]
    BY <1>1, <2>1 DEF IInv, HostOK
  <2>3. k \in DOMAIN prevProcess => threadCharged[s] <= prevProcess[k]
    BY <1>1, <2>1 DEF IInv, KernelOK
  <2>4. threadCharged[s] \in Nat /\ threadCharged[s] <= total[s]
    BY <1>2, <2>2, ChargingFacts, SMT, SMTT(60)
  <2>5. /\ total[s] \in Nat
        /\ k \in DOMAIN prevProcess => prevProcess[k] \in Nat /\ prevProcess[k] <= total[s] /\ usage = total[s] - prevProcess[k]
        /\ k \notin DOMAIN prevProcess => usage = 0
    <3>1. PICK o : o = r.start
      OBVIOUS
    <3>2. /\ total[o] \in Nat
          /\ k \in DOMAIN prevProcess => prevProcess[k] \in Nat /\ prevProcess[k] <= total[o] /\ usage = total[o] - prevProcess[k]
          /\ k \notin DOMAIN prevProcess => usage = 0
      BY <3>1, ReadsFacts, SMT, SMTT(60)
    <3>. QED  BY <3>1, <3>2
  <2>6. \A m, n, o \in Nat : m <= n => m + (o - n) <= o
    BY SMT, SMTT(60)
  <2>7. \A m \in Nat : m + 0 = m
    BY SMT, SMTT(60)
  <2>8. threadCharged[s] + usage <= total[s]
    <3>1. CASE k \in DOMAIN prevProcess
      BY <2>3, <2>4, <2>5, <2>6, <3>1
    <3>2. CASE k \notin DOMAIN prevProcess
      BY <2>4, <2>5, <2>7, <3>2
    <3>. QED  BY <3>1, <3>2
  <2>. QED  BY <2>2, <2>8
<1>4. /\ r.kind = "kernel" => Charging(s)' = threadCharged[s] + usage
      /\ r.kind # "kernel" => Charging(s)' = Charging(s)
      /\ \A o : o # s => Charging(o)' = Charging(o)
  <2>1. CASE r.kind = "kernel"
    <3>1. threadUsage' = With(threadUsage, s, usage) /\ threadCharged' = threadCharged
      BY <2>1 DEF Reads
    <3>. QED  BY <2>1, <3>1, ChargingWith
  <2>2. CASE r.kind # "kernel"
    <3>1. threadUsage' = threadUsage /\ threadCharged' = threadCharged
      BY <2>2 DEF Reads
    <3>. QED  BY <2>2, <3>1 DEF Charging
  <2>. QED  BY <2>1, <2>2
<1>5. p \in DOMAIN proc[p].threads /\ proc[p].threads[p] = s
  BY <1>1, HostFacts DEF IInv
<1>6. ThreadsOK'
  <2>1. ASSUME NEW o \in Starts PROVE Charging(o)' <= used[o]
    BY <1>3, <1>4, ChargingFacts
  <2>2. ASSUME NEW l \in DOMAIN nextThread PROVE l[3] # s
    <3>1. l[3] = s => p = l[1]
      BY <1>1, <1>5 DEF IInv, KeysOK
    <3>2. l[1] \notin todo
      BY DEF IInv, KeysOK
    <3>. QED  BY <1>1, <3>1, <3>2
  <2>3. ASSUME NEW l \in DOMAIN nextThread PROVE Charging(l[3])' <= nextThread[l]
    BY <1>4, <2>2 DEF IInv, ThreadsOK
  <2>4. \A l \in DOMAIN prevThread : threadCharged[l[3]] <= prevThread[l]
    BY DEF IInv, ThreadsOK
  <2>. QED  BY <1>1, <2>1, <2>3, <2>4 DEF ThreadsOK
<1>7. KernelOK'
  <2>1. SUFFICES ASSUME NEW q \in Pids, Live(q), proc[q].kind = "kernel"
                 PROVE  LET o == proc[q].start
                        IN  /\ <<q, o>> \in DOMAIN prevProcess => threadCharged[o] <= prevProcess[<<q, o>>]
                            /\ <<q, o>> \in DOMAIN nextProcess' => Charging(o)' <= nextProcess'[<<q, o>>]
                            /\ pc' \in {"tasks", "task"} /\ current' = q => <<q, o>> \notin DOMAIN nextProcess'
    BY <1>1 DEF KernelOK, Live
  <2>2. /\ DOMAIN nextProcess' = DOMAIN nextProcess \cup {k} /\ nextProcess'[k] = total[s]
        /\ \A l \in DOMAIN nextProcess : l # k => nextProcess'[l] = nextProcess[l]
    BY DEF Reads, With
  <2>3. ~ (pc' \in {"tasks", "task"} /\ current' = q)
    BY <1>1, <2>1 DEF Reads
  <2>4. <<q, proc[q].start>> \in DOMAIN prevProcess =>
            threadCharged[proc[q].start] <= prevProcess[<<q, proc[q].start>>]
    BY <2>1 DEF IInv, KernelOK
  <2>5. CASE q = p
    BY <1>1, <1>3, <1>4, <2>1, <2>2, <2>3, <2>4, <2>5
  <2>6. CASE q # p
    <3>1. q \in DOMAIN proc[q].threads /\ proc[q].threads[q] = proc[q].start
      BY <2>1, HostFacts DEF IInv
    <3>2. proc[q].start # s
      <4>. SUFFICES ASSUME proc[q].start = s PROVE FALSE
        OBVIOUS
      <4>1. HostOK
        BY DEF IInv
      <4>2. proc[q].threads[q] = proc[p].threads[p]
        BY <1>5, <3>1
      <4>3. q = p
        BY <1>1, <1>5, <2>1, <3>1, <4>1, <4>2, StartsUnique
      <4>. QED  BY <2>6, <4>3
    <3>3. <<q, proc[q].start>> # k
      BY <1>1, <2>6
    <3>4. Charging(proc[q].start)' = Charging(proc[q].start)
      <4>1. PICK o : o = proc[q].start /\ o = proc'[q].start /\ o # s
        BY <1>1, <3>2
      <4>2. Charging(o)' = Charging(o)
        BY <1>4, <4>1
      <4>. QED  BY <4>1, <4>2 DEF Charging
    <3>. QED  BY <2>1, <2>2, <2>3, <2>4, <3>3, <3>4 DEF IInv, KernelOK
  <2>. QED  BY <2>5, <2>6
<1>. QED  BY <1>6, <1>7

LEMMA ReadProcessKeeps ==
    ASSUME IInv, NEW p \in Pids, ReadProcess(p)
    PROVE  IInv'
<1>1. CASE proc[p] = None \/ proc[p].kind = "ignored"
  <2>1. /\ UNCHANGED worldVars /\ UNCHANGED prevVars /\ pc = "process" /\ todo' = todo \ {p}
        /\ UNCHANGED <<pc, current, nextProcess, processUsage, threadUsage, stopped, samples, now, tids, threads, nextThread>>
    BY <1>1 DEF ReadProcess
  <2>2. UNCHANGED born /\ UNCHANGED <<prevTs, prevProcess, prevThread, history, first, charged, threadCharged>>
    BY <2>1 DEF worldVars, prevVars
  <2>3. todo' \subseteq todo /\ todo' \subseteq Pids
    BY <2>1 DEF IInv, TypeOK
  <2>4. TypeOK'
    BY <2>1, <2>2, <2>3 DEF IInv, TypeOK
  <2>5. PhaseOK' /\ ClockOK'
    BY <2>1, <2>2 DEF IInv, PhaseOK, ClockOK
  <2>6. \A q \in Pids : Live(q) /\ proc[q].kind # "ignored" => q \in todo' \/ (Sampling /\ q \notin todo)
    BY <1>1, <2>1 DEF Live, Sampling
  <2>. QED  BY <2>1, <2>2, <2>3, <2>4, <2>5, <2>6, FrameKeeps
<1>2. CASE ~ (proc[p] = None \/ proc[p].kind = "ignored")
  <2>1. \E r, k, usage : Reads(p, r, k, usage)
    <3>. DEFINE r == proc[p]
                k == <<p, r.start>>
                usage == CalculateUsage(prevProcess, k, total[r.start])
    <3>1. pc = "process" /\ p \in todo /\ todo' = todo \ {p}
          /\ UNCHANGED <<stopped, samples, now, tids, threads, nextThread>>
      BY DEF ReadProcess
    <3>2. UNCHANGED <<proc, used, total, born>>
          /\ UNCHANGED <<prevTs, prevProcess, prevThread, history, first, charged, threadCharged>>
      BY DEF ReadProcess, worldVars, prevVars
    <3>3. /\ nextProcess' = With(nextProcess, k, total[r.start])
          /\ processUsage' = With(processUsage, r.start, usage)
          /\ IF r.kind = "kernel" THEN UNCHANGED <<pc, current>> ELSE pc' = "tasks" /\ current' = p
      BY <1>2 DEF ReadProcess, ProcessKey
    <3>4. threadUsage' = IF r.kind = "kernel" THEN With(threadUsage, r.start, usage) ELSE threadUsage
      BY <1>2 DEF ReadProcess, ProcessKey
    <3>5. Reads(p, r, k, usage)
      BY <1>2, <3>1, <3>2, <3>3, <3>4 DEF Reads, Live
    <3>. QED  BY <3>5
  <2>. QED  BY <2>1, ReadsTypes, ReadsKeys, ReadsThreads DEF IInv
<1>. QED  BY <1>1, <1>2

\* A thread is read: it is one of the process that has the pid by now.
ReadsThread(t, s, k, usage) ==
    /\ pc = "task" /\ tids' = tids \ {t} /\ threads' = threads \cup {t}
    /\ Live(current) /\ t \in DOMAIN proc[current].threads /\ s = proc[current].threads[t]
    /\ k = <<current, t, s>> /\ usage = CalculateUsage(prevThread, k, used[s])
    /\ nextThread' = With(nextThread, k, used[s])
    /\ threadUsage' = With(threadUsage, s, usage)
    /\ UNCHANGED <<proc, used, total, born>>
    /\ UNCHANGED <<pc, stopped, samples, now, todo, current, nextProcess, processUsage>>
    /\ UNCHANGED <<prevTs, prevProcess, prevThread, history, first, charged, threadCharged>>

LEMMA ReadsThreadFacts ==
    ASSUME IInv, NEW t \in Pids \cup Tids, NEW s, NEW k, NEW usage, ReadsThread(t, s, k, usage)
    PROVE  /\ current \in Pids \ todo /\ s \in Starts /\ s \in 1..born
           /\ k \in Pids \X (Pids \cup Tids) \X (1..born) /\ k[1] = current /\ k[2] = t /\ k[3] = s
           /\ used[s] \in Nat /\ usage \in Nat /\ threadCharged[s] + usage <= used[s]
<1>1. current \in Pids \ todo
  BY DEF IInv, PhaseOK, ReadsThread
<1>2. Live(current) /\ t \in DOMAIN proc[current].threads /\ s = proc[current].threads[t] /\ k = <<current, t, s>>
  BY DEF ReadsThread
<1>3. s \in Starts /\ s \in Nat /\ s <= born /\ born \in Nat
  BY <1>1, <1>2, HostFacts DEF IInv
<1>4. s \in 1..born
  BY <1>3, SMT, SMTT(60) DEF Starts
<1>5. k \in Pids \X (Pids \cup Tids) \X (1..born) /\ k[1] = current /\ k[2] = t /\ k[3] = s
  BY <1>1, <1>2, <1>4
<1>6. used[s] \in Nat /\ threadCharged[s] \in Nat /\ threadCharged[s] <= used[s]
  BY <1>3, ChargingFacts, SMT, SMTT(60)
<1>7. usage = CalculateUsage(prevThread, k, used[s])
  BY DEF ReadsThread
<1>8. k \in DOMAIN prevThread => prevThread[k] \in Nat /\ threadCharged[s] <= prevThread[k]
  BY <1>5, KeyFacts DEF IInv, ThreadsOK
<1>9. usage \in Nat /\ threadCharged[s] + usage <= used[s]
  BY <1>6, <1>7, <1>8, SMT, SMTT(60) DEF CalculateUsage
<1>. QED  BY <1>1, <1>3, <1>4, <1>5, <1>6, <1>9

LEMMA ReadsThreadKeeps ==
    ASSUME IInv, NEW t \in Pids \cup Tids, NEW s, NEW k, NEW usage, ReadsThread(t, s, k, usage)
    PROVE  IInv'
<1>1. /\ UNCHANGED <<proc, used, total, born>>
      /\ UNCHANGED <<pc, stopped, samples, now, todo, current, nextProcess, processUsage>>
      /\ UNCHANGED <<prevTs, prevProcess, prevThread, history, first, charged, threadCharged>>
  BY DEF ReadsThread
<1>2. /\ pc = "task" /\ tids' = tids \ {t} /\ threads' = threads \cup {t} /\ k = <<current, t, s>>
      /\ Live(current) /\ t \in DOMAIN proc[current].threads /\ s = proc[current].threads[t]
      /\ nextThread' = With(nextThread, k, used[s]) /\ threadUsage' = With(threadUsage, s, usage)
  BY DEF ReadsThread
<1>3. /\ current \in Pids \ todo /\ s \in Starts /\ s \in 1..born
      /\ k \in Pids \X (Pids \cup Tids) \X (1..born) /\ k[1] = current /\ k[2] = t /\ k[3] = s
      /\ used[s] \in Nat /\ usage \in Nat /\ threadCharged[s] + usage <= used[s]
  BY ReadsThreadFacts
<1>4. /\ DOMAIN nextThread' = DOMAIN nextThread \cup {k} /\ nextThread'[k] = used[s]
      /\ \A l \in DOMAIN nextThread : l # k => nextThread'[l] = nextThread[l]
  BY <1>2 DEF With
<1>5. TypeOK'
  <2>1. Times(Pids \X (Pids \cup Tids) \X (1..born), nextThread') /\ Times(1..born, threadUsage')
    BY <1>2, <1>3, WithTimes DEF IInv, TypeOK
  <2>2. tids' \subseteq Pids \cup Tids /\ threads' \subseteq Pids \cup Tids
    BY <1>2 DEF IInv, TypeOK
  <2>. QED  BY <1>1, <2>1, <2>2 DEF IInv, TypeOK
<1>6. HostOK' /\ HistoriesOK' /\ HistoryIsSeamless' /\ PrevOK'
  BY <1>1, SameHost, SamePrev DEF IInv
<1>7. ClockOK' /\ NextOK' /\ SeenOK'
  <2>1. ClockOK'
    BY <1>1 DEF IInv, ClockOK
  <2>2. NextOK'
    BY <1>1 DEF IInv, NextOK
  <2>3. SeenOK'
    BY <1>1 DEF IInv, SeenOK, Live, Sampling
  <2>. QED  BY <2>1, <2>2, <2>3
<1>8. PhaseOK'
  BY <1>1, <1>2, <1>3 DEF PhaseOK
<1>9. KeysOK'
  <2>1. \A q \in Pids : Live(q) => \A u \in DOMAIN proc[q].threads : proc[q].threads[u] = s => q = current /\ u = t
    <3>1. HostOK
      BY DEF IInv
    <3>. QED  BY <1>2, <1>3, <3>1, StartsUnique, SMT, SMTT(60)
  <2>2. \A l \in DOMAIN nextThread', q \in Pids : Live(q) =>
            \A u \in DOMAIN proc[q].threads : proc[q].threads[u] = l[3] => q = l[1] /\ u = l[2]
    <3>1. \A x \in DOMAIN nextThread, q \in Pids : Live(q) =>
             \A u \in DOMAIN proc[q].threads : proc[q].threads[u] = x[3] => q = x[1] /\ u = x[2]
      BY DEF IInv, KeysOK
    <3>. QED  BY <1>3, <1>4, <2>1, <3>1, SMT, SMTT(60)
  <2>3. \A l \in DOMAIN nextThread' : l[1] \notin todo
    BY <1>3, <1>4 DEF IInv, KeysOK
  <2>. QED  BY <1>1, <2>2, <2>3 DEF IInv, KeysOK, ProcessKeys, Live
<1>10. Charging(s)' = threadCharged[s] + usage /\ \A o : o # s => Charging(o)' = Charging(o)
  BY <1>1, <1>2, ChargingWith
<1>11. ThreadsOK'
  <2>1. ASSUME NEW o \in Starts PROVE Charging(o)' <= used[o]
    BY <1>3, <1>10, ChargingFacts
  <2>2. ASSUME NEW l \in DOMAIN nextThread, l # k PROVE l[3] # s
    <3>1. l[3] = s => current = l[1] /\ t = l[2]
      BY <1>2, <1>3 DEF IInv, KeysOK
    <3>2. l = <<l[1], l[2], l[3]>>
      BY KeyFacts DEF IInv
    <3>. QED  BY <1>2, <2>2, <3>1, <3>2
  <2>3. ASSUME NEW l \in DOMAIN nextThread, l # k PROVE Charging(l[3])' <= nextThread'[l]
    BY <1>4, <1>10, <2>2, <2>3 DEF IInv, ThreadsOK
  <2>4. Charging(k[3])' <= nextThread'[k]
    BY <1>3, <1>4, <1>10
  <2>5. \A l \in DOMAIN prevThread : threadCharged[l[3]] <= prevThread[l]
    BY DEF IInv, ThreadsOK
  <2>. QED  BY <1>1, <1>4, <2>1, <2>3, <2>4, <2>5 DEF ThreadsOK
<1>12. KernelOK'
  <2>1. SUFFICES ASSUME NEW q \in Pids, Live(q), proc[q].kind = "kernel"
                 PROVE  LET o == proc[q].start
                        IN  /\ <<q, o>> \in DOMAIN prevProcess => threadCharged[o] <= prevProcess[<<q, o>>]
                            /\ <<q, o>> \in DOMAIN nextProcess => Charging(o)' <= nextProcess[<<q, o>>]
                            /\ pc \in {"tasks", "task"} /\ current = q => <<q, o>> \notin DOMAIN nextProcess
    BY <1>1 DEF KernelOK, Live
  <2>2. PICK o : o = proc[q].start
    OBVIOUS
  <2>3. /\ <<q, o>> \in DOMAIN prevProcess => threadCharged[o] <= prevProcess[<<q, o>>]
        /\ <<q, o>> \in DOMAIN nextProcess => Charging(o) <= nextProcess[<<q, o>>]
        /\ pc \in {"tasks", "task"} /\ current = q => <<q, o>> \notin DOMAIN nextProcess
    BY <2>1, <2>2 DEF IInv, KernelOK
  <2>4. <<q, o>> \in DOMAIN nextProcess => Charging(o)' <= nextProcess[<<q, o>>]
    <3>1. CASE o = s
      <4>1. q \in DOMAIN proc[q].threads /\ proc[q].threads[q] = s
        BY <2>1, <2>2, <3>1, HostFacts DEF IInv
      <4>2. q = current
        <5>1. HostOK
          BY DEF IInv
        <5>2. current \in Pids /\ Live(current) /\ t \in DOMAIN proc[current].threads /\ proc[current].threads[t] = s
          BY <1>2, <1>3
        <5>. QED  BY <2>1, <4>1, <5>1, <5>2, StartsUnique, SMT, SMTT(60)
      <4>. QED  BY <1>2, <2>3, <4>2
    <3>2. CASE o # s
      <4>1. Charging(o)' = Charging(o)
        BY <1>10, <3>2
      <4>. QED  BY <2>3, <4>1
    <3>. QED  BY <3>1, <3>2
  <2>5. o = proc'[q].start
    BY <1>1, <2>2
  <2>6. Charging(proc[q].start)' = Charging(o)'
    BY <2>5 DEF Charging
  <2>. QED  BY <2>2, <2>3, <2>4, <2>6
<1>. QED  BY <1>5, <1>6, <1>7, <1>8, <1>9, <1>11, <1>12 DEF IInv

LEMMA ReadTaskKeeps ==
    ASSUME IInv, NEW t \in Pids \cup Tids, ReadTask(t)
    PROVE  IInv'
<1>1. /\ pc = "task" /\ tids' = tids \ {t} /\ UNCHANGED worldVars /\ UNCHANGED prevVars
      /\ UNCHANGED <<pc, stopped, samples, now, todo, current, nextProcess, processUsage>>
  BY DEF ReadTask
<1>2. /\ UNCHANGED <<proc, used, total, born>>
      /\ UNCHANGED <<prevTs, prevProcess, prevThread, history, first, charged, threadCharged>>
  BY <1>1 DEF worldVars, prevVars
<1>3. CASE Live(current) /\ t \in DOMAIN proc[current].threads
  <2>. DEFINE s == proc[current].threads[t]
              k == <<current, t, s>>
              usage == CalculateUsage(prevThread, k, used[s])
  <2>1. threads' = threads \cup {t} /\ nextThread' = With(nextThread, k, used[s])
        /\ threadUsage' = With(threadUsage, s, usage)
    BY <1>3 DEF ReadTask, ThreadKey, Live
  <2>2. ReadsThread(t, s, k, usage)
    BY <1>1, <1>2, <1>3, <2>1 DEF ReadsThread
  <2>. QED  BY <2>2, ReadsThreadKeeps
<1>4. CASE ~ (Live(current) /\ t \in DOMAIN proc[current].threads)
  <2>1. UNCHANGED <<threads, nextThread, threadUsage>>
    BY <1>4 DEF ReadTask, Live
  <2>2. tids' \subseteq Pids \cup Tids
    BY <1>1 DEF IInv, TypeOK
  <2>3. TypeOK'
    BY <1>1, <1>2, <2>1, <2>2 DEF IInv, TypeOK
  <2>4. PhaseOK' /\ ClockOK'
    BY <1>1, <1>2, <2>1 DEF IInv, PhaseOK, ClockOK
  <2>5. Sampling
    BY <1>1 DEF Sampling
  <2>. QED  BY <1>1, <1>2, <2>1, <2>3, <2>4, <2>5, FrameKeeps
<1>. QED  BY <1>3, <1>4

Points == [at : Nat, elapsed : Nat, warmup : BOOLEAN]

Appends(h, x, g) ==
    /\ g \in Seq(Points) /\ g # <<>> /\ Len(g) <= HistorySize /\ g[Len(g)] = x
    /\ \E d \in {0, 1} : Len(g) + d = Len(h) + 1 /\ \A i \in 1..(Len(g) - 1) : g[i] = h[i + d]

\* deque.append: the history stays seamless when the sample reaches back to the
\* last one.
LEMMA AppendedFacts ==
    ASSUME NEW h \in Seq(Points), NEW x \in Points, Len(h) <= HistorySize, NEW g, g = Appended(h, x)
    PROVE  Appends(h, x, g)
<1>. DEFINE l == Append(h, x)
<1>1. /\ l \in Seq(Points) /\ Len(l) = Len(h) + 1 /\ l[Len(h) + 1] = x /\ Len(h) \in Nat
      /\ \A i \in 1..Len(h) : l[i] = h[i]
  BY SMT, SMTT(60)
<1>2. g = IF Len(l) > HistorySize THEN Tail(l) ELSE l
  BY DEF Appended
<1>. HIDE DEF l
<1>3. CASE Len(l) > HistorySize
  <2>1. g = Tail(l) /\ l # <<>>
    BY <1>1, <1>2, <1>3, SMT, SMTT(60)
  <2>2. g \in Seq(Points) /\ Len(g) = Len(l) - 1 /\ \A i \in 1..Len(g) : g[i] = l[i + 1]
    BY <1>1, <2>1, SMT, SMTT(60)
  <2>3. Len(g) = Len(h) /\ Len(h) = HistorySize /\ Len(h) > 0
    BY <1>1, <1>3, <2>2, BoundsAssumption, SMT, SMTT(60)
  <2>4. g[Len(g)] = x
    BY <1>1, <2>2, <2>3, SMT, SMTT(60)
  <2>5. \A i \in 1..(Len(g) - 1) : g[i] = h[i + 1]
    BY <1>1, <2>2, <2>3, SMT, SMTT(60)
  <2>. QED  BY <1>1, <2>2, <2>3, <2>4, <2>5, SMT, SMTT(60) DEF Appends
<1>4. CASE ~ (Len(l) > HistorySize)
  <2>1. g = l /\ Len(l) <= HistorySize
    BY <1>1, <1>2, <1>4, BoundsAssumption, SMT, SMTT(60)
  <2>2. \A i \in 1..(Len(g) - 1) : g[i] = h[i + 0]
    BY <1>1, <2>1, SMT, SMTT(60)
  <2>. QED  BY <1>1, <2>1, <2>2, SMT, SMTT(60) DEF Appends
<1>. QED  BY <1>3, <1>4

LEMMA CommitHistory ==
    ASSUME IInv, Commit
    PROVE  history' \in Seq(Points) /\ HistoryIsSeamless' /\ ClockOK'
<1>. DEFINE x == [at |-> now, elapsed |-> IF prevTs = None THEN 0 ELSE now - prevTs, warmup |-> prevTs = None]
<1>1. pc = "process" /\ prevTs' = now /\ history' = Appended(history, x) /\ pc' = "wait" /\ UNCHANGED samples
  BY DEF Commit
<1>2. /\ now \in Nat /\ now < samples /\ (prevTs # None => prevTs \in Nat /\ prevTs < now)
      /\ prevTs = None <=> history = <<>>
  BY <1>1 DEF IInv, TypeOK, ClockOK
<1>3. /\ x \in Points /\ x.at = now /\ (prevTs # None => x.at - x.elapsed = prevTs /\ ~ x.warmup)
  <2>1. PICK e : e = IF prevTs = None THEN 0 ELSE now - prevTs
    OBVIOUS
  <2>2. e \in Nat /\ (prevTs # None => now - e = prevTs)
    BY <1>2, <2>1, SMT, SMTT(60)
  <2>3. x = [at |-> now, elapsed |-> e, warmup |-> prevTs = None] /\ (prevTs = None) \in BOOLEAN
    BY <2>1
  <2>4. x \in Points
    BY <1>2, <2>2, <2>3 DEF Points
  <2>5. x.at = now /\ x.elapsed = e /\ (prevTs # None => ~ x.warmup)
    BY <2>3
  <2>. QED  BY <2>2, <2>4, <2>5
<1>4. /\ history \in Seq(Points) /\ Len(history) <= HistorySize
      /\ \A i \in 2..Len(history) :
            history[i].at - history[i].elapsed = history[i - 1].at /\ ~ history[i].warmup
      /\ history # <<>> => prevTs = history[Len(history)].at
  BY DEF IInv, TypeOK, HistoryIsSeamless, Points
<1>. HIDE DEF x
<1>5. PICK g : g = history'
  OBVIOUS
<1>6. /\ g \in Seq(Points) /\ g # <<>> /\ Len(g) <= HistorySize /\ g[Len(g)] = x
      /\ \E d \in {0, 1} : Len(g) + d = Len(history) + 1 /\ \A i \in 1..(Len(g) - 1) : g[i] = history[i + d]
  <2>1. g = Appended(history, x)
    BY <1>1, <1>5
  <2>2. history \in Seq(Points) /\ x \in Points /\ Len(history) <= HistorySize
    BY <1>3, <1>4
  <2>3. Appends(history, x, g)
    BY <2>1, <2>2, AppendedFacts
  <2>. QED  BY <2>3 DEF Appends
<1>7. PICK d \in {0, 1} : Len(g) + d = Len(history) + 1 /\ \A i \in 1..(Len(g) - 1) : g[i] = history[i + d]
  BY <1>6
<1>8. ASSUME NEW i \in 2..Len(g)
      PROVE  g[i].at - g[i].elapsed = g[i - 1].at /\ ~ g[i].warmup
  <2>1. Len(g) \in Nat /\ Len(history) \in Nat
    BY <1>4, <1>6, SMT, SMTT(60)
  <2>2. i - 1 \in 1..(Len(g) - 1) /\ g[i - 1] = history[i - 1 + d]
    BY <1>7, <2>1, SMT, SMTT(60)
  <2>3. CASE i = Len(g)
    <3>1. i - 1 + d = Len(history) /\ history # <<>>
      BY <1>4, <1>7, <2>1, <2>3, SMT, SMTT(60)
    <3>. QED  BY <1>2, <1>3, <1>4, <1>6, <2>2, <2>3, <3>1
  <2>4. CASE i # Len(g)
    <3>1. i \in 1..(Len(g) - 1) /\ i + d \in 2..Len(history) /\ i - 1 + d = i + d - 1
      BY <1>7, <2>1, <2>4, SMT, SMTT(60)
    <3>2. g[i] = history[i + d] /\ g[i - 1] = history[i + d - 1]
      BY <1>7, <2>2, <3>1
    <3>. QED  BY <1>4, <3>1, <3>2, SMT, SMTT(60)
  <2>. QED  BY <2>3, <2>4
<1>9. HistoryIsSeamless'
  BY <1>1, <1>3, <1>5, <1>6, <1>8 DEF HistoryIsSeamless
<1>10. ClockOK'
  BY <1>1, <1>2, <1>5, <1>6, IdsAssumption DEF ClockOK
<1>. QED  BY <1>5, <1>6, <1>9, <1>10

\* What the end of a sample makes of the records of the processes and threads.
LEMMA CommitFirst ==
    ASSUME IInv, Commit
    PROVE  /\ first' \in [Starts -> Nat \cup {None}]
           /\ \A k \in DOMAIN nextProcess : first[k[2]] = None => first'[k[2]] = nextProcess[k]
           /\ \A s \in Starts : first[s] # None => first'[s] = first[s]
           /\ \A s \in Starts : first[s] = None /\ first'[s] # None => \E k \in DOMAIN nextProcess : k[2] = s
<1>1. first' = [s \in Starts |->
          IF first[s] = None /\ \E k \in DOMAIN nextProcess : k[2] = s
          THEN nextProcess[CHOOSE k \in DOMAIN nextProcess : k[2] = s] ELSE first[s]]
  BY DEF Commit
<1>2. /\ DOMAIN nextProcess \subseteq Pids \X (1..born) /\ \A k \in DOMAIN nextProcess : nextProcess[k] \in Nat
      /\ born \in 0..MaxStarts /\ first \in [Starts -> Nat \cup {None}]
      /\ \A k, l \in DOMAIN nextProcess : k[2] = l[2] => k = l
  BY DEF IInv, TypeOK, Times, HostOK, HistoriesOK, KeysOK, ProcessKeys
<1>3. ASSUME NEW k \in DOMAIN nextProcess
      PROVE  k[2] \in Starts
  BY <1>2, BoundsAssumption, SMT, SMTT(60) DEF Starts
<1>4. ASSUME NEW k \in DOMAIN nextProcess
      PROVE  (CHOOSE l \in DOMAIN nextProcess : l[2] = k[2]) = k
  <2>1. PICK c : c = CHOOSE l \in DOMAIN nextProcess : l[2] = k[2]
    OBVIOUS
  <2>2. c \in DOMAIN nextProcess /\ c[2] = k[2]
    BY <2>1
  <2>3. c = k
    BY <1>2, <2>2
  <2>. QED  BY <2>1, <2>3
<1>5. ASSUME NEW k \in DOMAIN nextProcess, first[k[2]] = None
      PROVE  first'[k[2]] = nextProcess[k]
  <2>1. first'[k[2]] = nextProcess[CHOOSE l \in DOMAIN nextProcess : l[2] = k[2]]
    BY <1>1, <1>3, <1>5
  <2>. QED  BY <1>4, <2>1
<1>6. ASSUME NEW s \in Starts
      PROVE  /\ first'[s] \in Nat \cup {None}
             /\ first[s] # None => first'[s] = first[s]
             /\ first[s] = None /\ first'[s] # None => \E k \in DOMAIN nextProcess : k[2] = s
  <2>1. CASE first[s] = None /\ \E k \in DOMAIN nextProcess : k[2] = s
    <3>1. PICK k \in DOMAIN nextProcess : k[2] = s
      BY <2>1
    <3>2. first'[s] = nextProcess[k] /\ nextProcess[k] \in Nat
      BY <1>2, <1>5, <2>1, <3>1
    <3>. QED  BY <2>1, <3>2
  <2>2. CASE ~ (first[s] = None /\ \E k \in DOMAIN nextProcess : k[2] = s)
    <3>1. first'[s] = first[s]
      BY <1>1, <2>2
    <3>2. first[s] \in Nat \cup {None}
      BY <1>2
    <3>. QED  BY <2>2, <3>1, <3>2
  <2>. QED  BY <2>1, <2>2
<1>7. first' \in [Starts -> Nat \cup {None}]
  <2>1. DOMAIN first' = Starts /\ first' = [s \in DOMAIN first' |-> first'[s]]
    BY <1>1
  <2>. QED  BY <1>6, <2>1
<1>. QED  BY <1>5, <1>6, <1>7

LEMMA AddAllFacts ==
    ASSUME NEW f \in [Starts -> Nat], NEW g, \A s \in DOMAIN g : g[s] \in Nat, NEW h, h = AddAll(f, g)
    PROVE  /\ h \in [Starts -> Nat]
           /\ \A s \in Starts : h[s] = f[s] + IF s \in DOMAIN g THEN g[s] ELSE 0
<1>1. h = [s \in Starts |-> f[s] + IF s \in DOMAIN g THEN g[s] ELSE 0]
  BY DEF AddAll
<1>2. \A s \in Starts : f[s] + (IF s \in DOMAIN g THEN g[s] ELSE 0) \in Nat
  BY SMT, SMTT(60)
<1>. QED  BY <1>1, <1>2

LEMMA CommitCharges ==
    ASSUME IInv, Commit
    PROVE  /\ charged' \in [Starts -> Nat] /\ threadCharged' \in [Starts -> Nat]
           /\ \A s \in Starts : charged'[s] = charged[s] + IF s \in DOMAIN processUsage THEN processUsage[s] ELSE 0
           /\ \A s \in Starts : threadCharged'[s] = Charging(s) /\ Charging(s)' = Charging(s)
<1>1. charged' = AddAll(charged, processUsage) /\ threadCharged' = AddAll(threadCharged, threadUsage)
      /\ threadUsage' = Empty
  BY DEF Commit
<1>2. charged \in [Starts -> Nat] /\ threadCharged \in [Starts -> Nat]
  BY DEF IInv, HistoriesOK
<1>3. (\A s \in DOMAIN processUsage : processUsage[s] \in Nat) /\ \A s \in DOMAIN threadUsage : threadUsage[s] \in Nat
  BY DEF IInv, TypeOK, Times
<1>4. /\ charged' \in [Starts -> Nat]
      /\ \A s \in Starts : charged'[s] = charged[s] + IF s \in DOMAIN processUsage THEN processUsage[s] ELSE 0
  BY <1>1, <1>2, <1>3, AddAllFacts, SMT, SMTT(60)
<1>5. /\ threadCharged' \in [Starts -> Nat]
      /\ \A s \in Starts : threadCharged'[s] = threadCharged[s] + IF s \in DOMAIN threadUsage THEN threadUsage[s] ELSE 0
  BY <1>1, <1>2, <1>3, AddAllFacts, SMT, SMTT(60)
<1>6. ASSUME NEW s \in Starts
      PROVE  threadCharged'[s] = Charging(s) /\ Charging(s)' = Charging(s)
  <2>1. threadCharged'[s] = Charging(s)
    BY <1>5 DEF Charging
  <2>2. s \notin DOMAIN threadUsage'
    BY <1>1, EmptyFacts
  <2>3. threadCharged'[s] \in Nat
    BY <1>5
  <2>4. Charging(s)' = threadCharged'[s]
    BY <2>2, <2>3, SMT, SMTT(60) DEF Charging
  <2>. QED  BY <2>1, <2>4
<1>. QED  BY <1>4, <1>5, <1>6

LEMMA NextKeyFacts ==
    ASSUME IInv, NEW k \in DOMAIN nextProcess
    PROVE  /\ k \in Pids \X (1..born) /\ k[2] \in Starts /\ k = <<k[1], k[2]>> /\ nextProcess[k] \in Nat
           /\ k[2] \in DOMAIN processUsage
<1>1. k \in Pids \X (1..born) /\ nextProcess[k] \in Nat /\ born \in 0..MaxStarts
  BY DEF IInv, TypeOK, Times, HostOK
<1>2. k[2] \in Starts /\ k = <<k[1], k[2]>>
  BY <1>1, BoundsAssumption, SMT, SMTT(60) DEF Starts
<1>3. k[2] \in DOMAIN processUsage
  BY DEF IInv, NextOK
<1>. QED  BY <1>1, <1>2, <1>3

\* What is reported of a process that this sample has read.
LEMMA CommitKey ==
    ASSUME IInv, Commit, NEW k \in DOMAIN nextProcess
    PROVE  /\ first'[k[2]] # None /\ first'[k[2]] <= nextProcess[k] /\ nextProcess[k] <= total[k[2]]
           /\ charged'[k[2]] = nextProcess[k] - first'[k[2]] /\ charged'[k[2]] <= total[k[2]]
<1>. DEFINE s == k[2]
<1>1. s \in Starts /\ nextProcess[k] \in Nat /\ s \in DOMAIN processUsage
  BY NextKeyFacts
<1>2. /\ nextProcess[k] <= total[s] /\ processUsage[s] = CalculateUsage(prevProcess, k, nextProcess[k])
      /\ k \in DOMAIN prevProcess => prevProcess[k] <= nextProcess[k]
      /\ first[s] # None => k \in DOMAIN prevProcess
  BY DEF IInv, NextOK
<1>3. charged'[s] = charged[s] + processUsage[s]
  BY <1>1, CommitCharges
<1>4. /\ k \in DOMAIN prevProcess => /\ first[s] # None /\ first[s] <= prevProcess[k]
                                     /\ charged[s] = prevProcess[k] - first[s] /\ prevProcess[k] \in Nat
      /\ first[s] = None => charged[s] = 0
  BY <1>1 DEF IInv, PrevOK, TypeOK, Times
<1>5. first[s] \in Nat \cup {None} /\ total[s] \in Nat
  <2>1. first \in [Starts -> Nat \cup {None}] /\ total \in [Starts -> Nat]
    BY DEF IInv, HistoriesOK, HostOK
  <2>. QED  BY <1>1, <2>1
<1>6. (first[s] = None => first'[s] = nextProcess[k]) /\ (first[s] # None => first'[s] = first[s])
  BY <1>1, CommitFirst
<1>7. None \notin Nat
  BY IdsAssumption
<1>. HIDE DEF s
<1>8. CASE k \in DOMAIN prevProcess
  <2>1. first'[s] = first[s] /\ first[s] \in Nat /\ first[s] # None
    BY <1>4, <1>5, <1>6, <1>8
  <2>2. processUsage[s] = nextProcess[k] - prevProcess[k]
    BY <1>1, <1>2, <1>4, <1>8, SMT, SMTT(60) DEF CalculateUsage
  <2>3. charged[s] = prevProcess[k] - first[s] /\ first[s] <= prevProcess[k] /\ prevProcess[k] \in Nat
        /\ prevProcess[k] <= nextProcess[k] /\ nextProcess[k] <= total[s]
    BY <1>2, <1>4, <1>8
  <2>4. charged'[s] = nextProcess[k] - first[s] /\ charged'[s] <= total[s] /\ first[s] <= nextProcess[k]
    BY <1>1, <1>3, <1>5, <2>1, <2>2, <2>3, SMT, SMTT(60)
  <2>. QED  BY <1>2, <2>1, <2>4 DEF s
<1>9. CASE k \notin DOMAIN prevProcess
  <2>1. first[s] = None /\ charged[s] = 0 /\ first'[s] = nextProcess[k]
    BY <1>2, <1>4, <1>6, <1>9
  <2>2. processUsage[s] = 0
    BY <1>2, <1>9 DEF CalculateUsage
  <2>3. charged'[s] = 0 /\ charged'[s] = nextProcess[k] - first'[s] /\ charged'[s] <= total[s]
        /\ first'[s] # None /\ first'[s] <= nextProcess[k]
    BY <1>1, <1>3, <1>5, <1>7, <2>1, <2>2, SMT, SMTT(60)
  <2>. QED  BY <1>2, <2>3 DEF s
<1>. QED  BY <1>8, <1>9

LEMMA CommitPrev ==
    ASSUME IInv, Commit
    PROVE  PrevOK'
<1>1. prevProcess' = nextProcess /\ total' = total
  BY DEF Commit, worldVars
<1>2. \A k \in DOMAIN prevProcess' :
        /\ first'[k[2]] # None /\ first'[k[2]] <= prevProcess'[k] /\ prevProcess'[k] <= total'[k[2]]
        /\ charged'[k[2]] = prevProcess'[k] - first'[k[2]]
  BY <1>1, CommitKey
<1>3. ASSUME NEW s \in Starts
      PROVE  charged'[s] <= total'[s] /\ (first'[s] = None => charged'[s] = 0)
  <2>1. CASE s \in DOMAIN processUsage
    <3>1. PICK k \in DOMAIN nextProcess : s = k[2]
      BY <2>1 DEF IInv, NextOK
    <3>. QED  BY <1>1, <3>1, CommitKey
  <2>2. CASE s \notin DOMAIN processUsage
    <3>1. charged[s] \in Nat /\ charged[s] <= total[s] /\ (first[s] = None => charged[s] = 0)
      BY DEF IInv, PrevOK, HistoriesOK
    <3>2. charged'[s] = charged[s]
      BY <2>2, <3>1, CommitCharges, SMT, SMTT(60)
    <3>3. ASSUME first'[s] = None
          PROVE  first[s] = None
      BY <3>3, CommitFirst
    <3>. QED  BY <1>1, <3>1, <3>2, <3>3
  <2>. QED  BY <2>1, <2>2
<1>. QED  BY <1>2, <1>3 DEF PrevOK

LEMMA CommitSeen ==
    ASSUME IInv, Commit
    PROVE  SeenOK'
<1>1. /\ prevProcess' = nextProcess /\ proc' = proc /\ pc' = "wait" /\ pc = "process" /\ todo = {}
  BY DEF Commit, worldVars
<1>2. Sampling /\ ~ Sampling'
  BY <1>1 DEF Sampling
<1>3. ASSUME NEW p \in Pids, Live(p), proc[p].kind # "ignored", first'[proc[p].start] # None
      PROVE  <<p, proc[p].start>> \in DOMAIN nextProcess
  <2>. DEFINE s == proc[p].start
  <2>1. s \in Starts
    BY <1>3, HostFacts DEF IInv
  <2>2. CASE first[s] # None
    <3>1. <<p, s>> \in DOMAIN prevProcess
      BY <1>3, <2>2 DEF IInv, SeenOK
    <3>. QED  BY <1>1, <1>2, <1>3, <3>1 DEF IInv, SeenOK
  <2>3. CASE first[s] = None
    <3>1. PICK k \in DOMAIN nextProcess : k[2] = s
      BY <1>3, <2>1, <2>3, CommitFirst
    <3>2. p = k[1]
      BY <1>3, <3>1 DEF IInv, KeysOK, ProcessKeys
    <3>3. k = <<k[1], k[2]>>
      BY NextKeyFacts
    <3>. QED  BY <3>1, <3>2, <3>3
  <2>. QED  BY <2>2, <2>3
<1>4. ASSUME NEW p \in Pids, Live(p)', proc'[p].kind # "ignored", first'[proc'[p].start] # None
      PROVE  <<p, proc'[p].start>> \in DOMAIN prevProcess'
  BY <1>1, <1>3, <1>4 DEF Live
<1>. QED  BY <1>2, <1>4 DEF SeenOK

LEMMA CommitThreads ==
    ASSUME IInv, Commit
    PROVE  ThreadsOK' /\ KernelOK'
<1>1. /\ prevThread' = nextThread /\ nextThread' = Empty /\ prevProcess' = nextProcess /\ nextProcess' = Empty
      /\ proc' = proc /\ used' = used /\ pc' = "wait"
  BY DEF Commit, worldVars
<1>2. \A s \in Starts : threadCharged'[s] = Charging(s) /\ Charging(s)' = Charging(s)
  BY CommitCharges
<1>3. DOMAIN nextThread' = {} /\ DOMAIN nextProcess' = {}
  BY <1>1, EmptyFacts
<1>4. \A s \in Starts : Charging(s)' <= used'[s]
  BY <1>1, <1>2 DEF IInv, ThreadsOK
<1>5. ASSUME NEW k \in DOMAIN nextThread
      PROVE  threadCharged'[k[3]] <= nextThread[k]
  <2>1. k \in Pids \X (Pids \cup Tids) \X (1..born) /\ born \in 0..MaxStarts
    BY DEF IInv, TypeOK, Times, HostOK
  <2>2. k[3] \in Starts
    BY <2>1, BoundsAssumption, SMT, SMTT(60) DEF Starts
  <2>. QED  BY <1>2, <2>2 DEF IInv, ThreadsOK
<1>6. ThreadsOK'
  BY <1>1, <1>3, <1>4, <1>5 DEF ThreadsOK
<1>7. ASSUME NEW p \in Pids, Live(p), proc[p].kind = "kernel", <<p, proc[p].start>> \in DOMAIN nextProcess
      PROVE  threadCharged'[proc[p].start] <= nextProcess[<<p, proc[p].start>>]
  <2>1. proc[p].start \in Starts
    BY <1>7, HostFacts DEF IInv
  <2>2. Charging(proc[p].start) <= nextProcess[<<p, proc[p].start>>]
    BY <1>7 DEF IInv, KernelOK
  <2>. QED  BY <1>2, <2>1, <2>2
<1>8. KernelOK'
  <2>1. pc' \notin {"tasks", "task"}
    BY <1>1
  <2>. QED  BY <1>1, <1>3, <1>7, <2>1 DEF KernelOK, Live
<1>. QED  BY <1>6, <1>8

LEMMA CommitKeeps ==
    ASSUME IInv, Commit
    PROVE  IInv'
<1>1. /\ prevThread' = nextThread /\ nextThread' = Empty /\ prevProcess' = nextProcess /\ nextProcess' = Empty
      /\ processUsage' = Empty /\ threadUsage' = Empty /\ now' = 0 /\ pc' = "wait" /\ prevTs' = now
      /\ UNCHANGED <<proc, used, total, born, stopped, samples, todo, current, tids, threads>>
  BY DEF Commit, worldVars
<1>2. DOMAIN nextThread' = {} /\ DOMAIN nextProcess' = {} /\ DOMAIN processUsage' = {}
  BY <1>1, EmptyFacts
<1>3. TypeOK'
  <2>1. /\ Times(Pids \X (1..born'), nextProcess') /\ Times(Pids \X (Pids \cup Tids) \X (1..born'), nextThread')
        /\ Times(1..born', processUsage') /\ Times(1..born', threadUsage')
    BY <1>1, EmptyFacts
  <2>2. Times(Pids \X (1..born'), prevProcess') /\ Times(Pids \X (Pids \cup Tids) \X (1..born'), prevThread')
    BY <1>1 DEF IInv, TypeOK
  <2>3. history' \in Seq([at : Nat, elapsed : Nat, warmup : BOOLEAN])
    BY CommitHistory DEF Points
  <2>4. /\ stopped' \in BOOLEAN /\ samples' \in 0..MaxSamples /\ todo' \subseteq Pids /\ current' \in Pids \cup {None}
        /\ tids' \subseteq Pids \cup Tids /\ threads' \subseteq Pids \cup Tids
    BY <1>1 DEF IInv, TypeOK
  <2>5. now \in Nat
    BY DEF IInv, TypeOK
  <2>6. pc' \in {"wait", "system", "process", "tasks", "task"} /\ now' \in Nat /\ prevTs' \in Nat \cup {None}
    BY <1>1, <2>5
  <2>. QED  BY <2>1, <2>2, <2>3, <2>4, <2>6 DEF TypeOK
<1>4. HostOK'
  BY <1>1, SameHost DEF IInv
<1>5. HistoriesOK'
  <2>1. ASSUME NEW s \in Starts, s > born
        PROVE  first'[s] = None
    <3>1. first[s] = None
      BY <2>1 DEF IInv, HistoriesOK
    <3>2. ASSUME NEW k \in DOMAIN nextProcess
          PROVE  k[2] # s
      <4>1. k \in Pids \X (1..born) /\ born \in Nat
        BY NextKeyFacts, HostFacts DEF IInv
      <4>. QED  BY <2>1, <4>1, SMT, SMTT(60) DEF Starts
    <3>. QED  BY <3>1, <3>2, CommitFirst
  <2>. QED  BY <1>1, <2>1, CommitFirst, CommitCharges DEF HistoriesOK
<1>6. PhaseOK'
  BY <1>1 DEF PhaseOK
<1>7. ClockOK' /\ HistoryIsSeamless'
  BY CommitHistory
<1>8. KeysOK'
  <2>1. ProcessKeys' \subseteq ProcessKeys
    BY <1>1, <1>2 DEF ProcessKeys
  <2>. QED  BY <1>1, <1>2, <2>1 DEF IInv, KeysOK, Live
<1>9. NextOK'
  BY <1>2 DEF NextOK
<1>. QED  BY <1>3, <1>4, <1>5, <1>6, <1>7, <1>8, <1>9, CommitPrev, CommitSeen, CommitThreads DEF IInv

-----------------------------------------------------------------------------
(* The theorems.                                                            *)

LEMMA InitHolds == Init => IInv
<1>. SUFFICES ASSUME Init PROVE IInv
  OBVIOUS
<1>1. /\ nextProcess = Empty /\ nextThread = Empty /\ processUsage = Empty /\ threadUsage = Empty
      /\ prevProcess = Empty /\ prevThread = Empty /\ prevTs = None /\ history = <<>> /\ pc = "wait"
      /\ born = 0 /\ samples = 0 /\ now = 0 /\ todo = {} /\ tids = {} /\ threads = {} /\ current = None
      /\ stopped = FALSE
  BY DEF Init
<1>2. /\ DOMAIN nextProcess = {} /\ DOMAIN nextThread = {} /\ DOMAIN processUsage = {} /\ DOMAIN threadUsage = {}
      /\ DOMAIN prevProcess = {} /\ DOMAIN prevThread = {}
  BY <1>1, EmptyFacts
<1>3. \A p \in Pids : ~ Live(p)
  BY DEF Init, Live
<1>4. TypeOK
  <2>1. /\ \A keys : Times(keys, nextProcess) /\ Times(keys, prevProcess) /\ Times(keys, nextThread)
                     /\ Times(keys, prevThread) /\ Times(keys, processUsage) /\ Times(keys, threadUsage)
    BY <1>1, EmptyFacts
  <2>2. /\ pc \in {"wait", "system", "process", "tasks", "task"} /\ stopped \in BOOLEAN
        /\ samples \in 0..MaxSamples /\ now \in Nat /\ prevTs \in Nat \cup {None}
    <3>1. stopped \in BOOLEAN
      BY <1>1
    <3>2. /\ pc \in {"wait", "system", "process", "tasks", "task"}
          /\ samples \in 0..MaxSamples /\ now \in Nat /\ prevTs \in Nat \cup {None}
      BY <1>1, BoundsAssumption, SMT, SMTT(60)
    <3>. QED  BY <3>1, <3>2
  <2>3. /\ todo \subseteq Pids /\ current \in Pids \cup {None} /\ tids \subseteq Pids \cup Tids
        /\ threads \subseteq Pids \cup Tids
    BY <1>1
  <2>4. history \in Seq([at : Nat, elapsed : Nat, warmup : BOOLEAN])
    BY <1>1, SMT, SMTT(60)
  <2>. QED  BY <2>1, <2>2, <2>3, <2>4 DEF TypeOK
<1>5. HostOK
  <2>1. proc \in [Pids -> Processes \cup {None}] /\ used \in [Starts -> Nat] /\ total \in [Starts -> Nat]
    <3>1. proc \in [Pids -> Processes \cup {None}]
      BY DEF Init
    <3>2. used \in [Starts -> Nat] /\ total \in [Starts -> Nat]
      BY DEF Init
    <3>. QED  BY <3>1, <3>2
  <2>2. born \in 0..MaxStarts
    BY <1>1, BoundsAssumption, SMT, SMTT(60)
  <2>3. \A s \in Starts : used[s] = 0 /\ total[s] = 0
    BY DEF Init
  <2>. QED  BY <1>3, <2>1, <2>2, <2>3 DEF HostOK
<1>6. /\ \A s \in Starts : first[s] = None /\ charged[s] = 0 /\ threadCharged[s] = 0
      /\ first \in [Starts -> Nat \cup {None}] /\ charged \in [Starts -> Nat] /\ threadCharged \in [Starts -> Nat]
  BY DEF Init
<1>7. HistoriesOK /\ PhaseOK
  <2>1. HistoriesOK
    BY <1>6 DEF HistoriesOK
  <2>2. PhaseOK
    BY <1>1 DEF PhaseOK
  <2>. QED  BY <2>1, <2>2
<1>8. ClockOK /\ HistoryIsSeamless
  BY <1>1, BoundsAssumption, SMT, SMTT(60) DEF ClockOK, HistoryIsSeamless
<1>9. KeysOK /\ SeenOK /\ KernelOK /\ NextOK
  BY <1>2, <1>3 DEF KeysOK, SeenOK, KernelOK, NextOK, ProcessKeys
<1>10. PrevOK /\ ThreadsOK
  <2>1. \A s \in Starts : used[s] = 0 /\ total[s] = 0
    BY DEF Init
  <2>2. \A s \in Starts : Charging(s) = 0
    BY <1>2, <1>6, SMT, SMTT(60) DEF Charging
  <2>. QED  BY <1>2, <1>6, <2>1, <2>2, SMT, SMTT(60) DEF PrevOK, ThreadsOK
<1>. QED  BY <1>4, <1>5, <1>7, <1>8, <1>9, <1>10 DEF IInv

LEMMA NextHolds == IInv /\ [Next]_vars => IInv'
<1>. SUFFICES ASSUME IInv, [Next]_vars PROVE IInv'
  OBVIOUS
<1>1. CASE Begin
  BY <1>1, BeginKeeps
<1>2. CASE SamplerStep
  <2>1. CASE ReadSystem
    BY <2>1, ReadSystemKeeps
  <2>2. CASE ListTasks
    BY <2>2, ListTasksKeeps
  <2>3. CASE EndProcess
    BY <2>3, EndProcessKeeps
  <2>4. CASE Commit
    BY <2>4, CommitKeeps
  <2>5. CASE \E p \in Pids : ReadProcess(p)
    BY <2>5, ReadProcessKeeps
  <2>6. CASE \E t \in Pids \cup Tids : ReadTask(t)
    BY <2>6, ReadTaskKeeps
  <2>. QED  BY <1>2, <2>1, <2>2, <2>3, <2>4, <2>5, <2>6 DEF SamplerStep
<1>3. CASE HostStep
  BY <1>3, HostKeeps
<1>4. CASE Stop \/ UNCHANGED vars
  BY <1>4, StopKeeps
<1>. QED  BY <1>1, <1>2, <1>3, <1>4 DEF Next

LEMMA Invariance == Spec => []IInv
BY InitHolds, NextHolds, PTL DEF Spec

\* The types of the monitor's state: the times it keeps belong to processes and
\* threads that have existed.
THEOREM TypesCorrect == Spec => []TypeOK
<1>1. IInv => TypeOK
  BY DEF IInv
<1>. QED  BY <1>1, Invariance, PTL

\* _calculate_usage over all samples: no more CPU time is reported for a process
\* or a thread than it has used, although pids and tids are used again and
\* processes end and start between two reads of one sample.
THEOREM TicksReportedOnce == Spec => []NoTickTwice
<1>1. IInv => NoTickTwice
  <2>. SUFFICES ASSUME IInv, NEW s \in Starts
                PROVE  charged[s] <= total[s] /\ threadCharged[s] <= used[s]
    BY DEF NoTickTwice
  <2>1. charged[s] <= total[s]
    BY DEF IInv, PrevOK
  <2>. QED  BY <2>1, ChargingFacts, SMT, SMTT(60)
<1>. QED  BY <1>1, Invariance, PTL

\* collect_now replaces the previous times only when a whole sample has been
\* collected: all that a process used between its first and its last sample is
\* reported, whatever samples failed in between.
THEOREM UsageIsComplete == Spec => []NothingUnreported
<1>1. IInv => NothingUnreported
  BY DEF IInv, PrevOK, NothingUnreported
<1>. QED  BY <1>1, Invariance, PTL

\* _prev_ts and the bounded history: each sample reaches back to the one before
\* it, over failed samples and over the points that the deque has dropped.
THEOREM SamplesAreSeamless == Spec => []HistoryIsSeamless
<1>1. IInv => HistoryIsSeamless
  BY DEF IInv
<1>. QED  BY <1>1, Invariance, PTL
=============================================================================
