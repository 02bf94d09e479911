------------------------ MODULE ScheduledTraceProofs ------------------------
(***************************************************************************)
(* What ScheduledTrace promises, for any number of profiles, schedulers,   *)
(* requests and reloads.                                                   *)
(***************************************************************************)
EXTENDS ScheduledTrace, FiniteSetTheorems, TLAPS

\* The provers, in the order in which they try a leaf that names none.
USE Zenon, SMT, ZenonT(60), SMTT(60)

-----------------------------------------------------------------------------
(* The inductive invariant.                                                 *)

Working == {"wait", "begin", "resolve", "unresolved", "probe"}
SchedulerLabels == {"none", "created", "loop", "dead", "crashed"} \cup Working
WaiterLabels == {"idle", "check", "start", "launch", "join", "load", "off"}

PcOK ==
    /\ pc \in [Schedulers \cup Waiters -> SchedulerLabels \cup WaiterLabels]
    /\ \A s \in Schedulers : pc[s] \in SchedulerLabels
    /\ \A c \in Waiters : pc[c] \in WaiterLabels
    /\ pc[Main] # "load"

\* A list of profiles, by name.
IsList(states) == DOMAIN states \subseteq Names /\ \A n \in DOMAIN states : states[n] \in ProfileStates

ListsOK == DOMAIN profiles = Generations /\ \A g \in Generations : IsList(profiles[g])

\* The variables whose types do not depend on others.
PlainOK ==
    /\ enabled \in BOOLEAN /\ stopEvent \in BOOLEAN /\ survived \in BOOLEAN
    /\ gen \in Generations /\ clock \in Nat
    /\ thread \in Schedulers \cup {None}
    /\ handle \in [Waiters -> Schedulers \cup {None}]
    /\ lost \in [Generations -> [Names -> Nat]]
    /\ overtaken \in [Names -> [Names -> Nat]]

\* A scheduler at work holds an object of this load or of an earlier one.
Holds(s) ==
    /\ held[s] \in Objects /\ held[s].gen <= gen
    /\ held[s].name \in DOMAIN profiles[held[s].gen]

HeldOK ==
    /\ held \in [Schedulers -> Objects \cup {None}]
    /\ \A s \in Schedulers : IF pc[s] \in Working THEN Holds(s) ELSE held[s] = None

\* A thread object is started by the call of start() that created it.
LaunchOK ==
    \A c \in Waiters : pc[c] = "launch" =>
        /\ handle[c] \in Schedulers /\ pc[handle[c]] = "created"
        /\ \A d \in Waiters : pc[d] = "launch" /\ handle[d] = handle[c] => d = c

\* There is a generation for every reload that is under way.
Loading == {c \in Callers : pc[c] \in {"join", "load"}}
BoundOK == gen + Cardinality(Loading) <= MaxLoads

PlacesOK == PcOK /\ LaunchOK /\ BoundOK
IInv == PlainOK /\ ListsOK /\ PlacesOK /\ HeldOK /\ RunsAccounted

-----------------------------------------------------------------------------
(* Profile states.                                                          *)

LEMMA NewStateType ==
    ASSUME NEW config \in Config
    PROVE  /\ NewState(config) \in ProfileStates /\ Counted(NewState(config)) = 0
           /\ NewState(config).run_count = 0 /\ NewState(config).config = config
           /\ NewState(config).last_result = None
<1>. DEFINE z == [r \in Statuses |-> 0]
<1>1. z \in [Statuses -> Nat] /\ \A r \in Statuses : z[r] = 0
  OBVIOUS
<1>2. NewState(config).counts = z
  BY DEF NewState
<1>. HIDE DEF z
<1>3. Counted(NewState(config)) = 0
  BY <1>1, <1>2, SMT, SMTT(60) DEF Counted, Statuses
<1>4. NewState(config) \in ProfileStates
  <2>1. NewState(config) = [config |-> config, next_due |-> 0, mode |-> "none", last_status |-> "idle",
                            last_result |-> None, run_count |-> 0, counts |-> z]
    BY DEF NewState, z
  <2>. QED  BY <1>1, <2>1, SMT, SMTT(60) DEF ProfileStates
<1>. QED  BY <1>3, <1>4 DEF NewState

LEMMA CountedType ==
    ASSUME NEW state \in ProfileStates
    PROVE  Counted(state) \in Nat /\ state.run_count \in Nat /\ \A r \in Statuses : state.counts[r] \in Nat
<1>1. state.counts \in [Statuses -> Nat] /\ state.run_count \in Nat
  BY DEF ProfileStates
<1>2. \A r \in Statuses : state.counts[r] \in Nat
  BY <1>1
<1>3. "success" \in Statuses /\ "partial_success" \in Statuses /\ "timeout" \in Statuses /\ "failed" \in Statuses
  BY DEF Statuses
<1>. QED  BY <1>1, <1>2, <1>3, SMT, SMTT(60) DEF Counted

\* A result is counted once.
LEMMA CountUp ==
    ASSUME NEW state \in ProfileStates, NEW r \in Statuses, NEW counts, counts = [state.counts EXCEPT ![r] = @ + 1]
    PROVE  /\ counts \in [Statuses -> Nat]
           /\ counts["success"] + counts["partial_success"] + counts["timeout"] + counts["failed"] = Counted(state) + 1
           /\ \A q \in Statuses : counts[q] >= state.counts[q]
<1>. DEFINE old == state.counts
<1>1. old \in [Statuses -> Nat] /\ old[r] \in Nat
  BY DEF ProfileStates
<1>. HIDE DEF old
<1>2. counts = [old EXCEPT ![r] = old[r] + 1]
  BY DEF old
<1>6. old[r] + 1 \in Nat
  BY <1>1, SMT, SMTT(60)
<1>3. counts \in [Statuses -> Nat] /\ counts[r] = old[r] + 1 /\ \A q \in Statuses : q # r => counts[q] = old[q]
  BY <1>1, <1>2, <1>6
<1>4. \A q \in Statuses : counts[q] >= old[q] /\ old[q] \in Nat
  BY <1>1, <1>3, SMT, SMTT(60)
<1>5. counts["success"] + counts["partial_success"] + counts["timeout"] + counts["failed"]
      = old["success"] + old["partial_success"] + old["timeout"] + old["failed"] + 1
  <2>1. r \in {"success", "partial_success", "timeout", "failed"}
    BY DEF Statuses
  <2>2. CASE r = "success"
    BY <1>3, <1>4, <2>2, SMT, SMTT(60) DEF Statuses
  <2>3. CASE r = "partial_success"
    BY <1>3, <1>4, <2>3, SMT, SMTT(60) DEF Statuses
  <2>4. CASE r = "timeout"
    BY <1>3, <1>4, <2>4, SMT, SMTT(60) DEF Statuses
  <2>5. CASE r = "failed"
    BY <1>3, <1>4, <2>5, SMT, SMTT(60) DEF Statuses
  <2>. QED  BY <2>1, <2>2, <2>3, <2>4, <2>5
<1>. QED  BY <1>3, <1>4, <1>5 DEF Counted, old

LEMMA MaxOfTwo ==
    ASSUME NEW a \in Nat, NEW b \in Nat
    PROVE  Max({a, b}) \in {a, b} /\ Max({a, b}) >= b
<1>1. \E x \in {a, b} : \A y \in {a, b} : x >= y
  BY a >= b \/ b >= a, SMT, SMTT(60)
<1>2. Max({a, b}) \in {a, b} /\ \A y \in {a, b} : Max({a, b}) >= y
  BY <1>1 DEF Max
<1>. QED  BY <1>2

\* What a reload leaves of a state that it copies.
Copied(new, old) ==
    /\ new.run_count = old.run_count /\ new.counts = old.counts
    /\ new.mode = old.mode /\ new.last_status = old.last_status /\ new.last_result = old.last_result

\* What a load makes of the states before it.
Fits(new, load, previous) ==
    /\ DOMAIN new = DOMAIN load /\ IsList(new)
    /\ \A n \in DOMAIN load :
        /\ new[n].config = load[n]
        /\ IF n \in DOMAIN previous /\ previous[n].config.key = load[n].key
           THEN Copied(new[n], previous[n])
           ELSE new[n].run_count = 0 /\ Counted(new[n]) = 0 /\ new[n].last_result = None

\* _schedule_initial_runs changes the due times only.
LEMMA InitialRuns ==
    ASSUME NEW states, IsList(states), NEW now \in Nat, NEW new, new = ScheduleInitialRuns(states, now)
    PROVE  /\ DOMAIN new = DOMAIN states /\ IsList(new)
           /\ \A n \in DOMAIN states : Copied(new[n], states[n]) /\ new[n].config = states[n].config
<1>. DEFINE size == Max({Cardinality(DOMAIN states), 1})
            stagger == Max({Interval \div size, 1})
            index(n) == Cardinality({m \in DOMAIN states : m < n})
            due(n) == now + index(n) * stagger
<1>1. IsFiniteSet(DOMAIN states)
  BY ThreadsAssumption, FS_Subset DEF IsList
<1>2. Cardinality(DOMAIN states) \in Nat
  BY <1>1, FS_CardinalityType
<1>3. size \in Nat /\ size >= 1
  BY <1>2, MaxOfTwo, SMT, SMTT(60)
<1>. HIDE DEF size
<1>4. Interval \div size \in Nat
  BY <1>3, TimeAssumption, SMT, SMTT(60)
<1>5. stagger \in Nat
  BY <1>4, MaxOfTwo, SMT, SMTT(60)
<1>6. \A n \in DOMAIN states : index(n) \in Nat
  <2>. SUFFICES ASSUME NEW n \in DOMAIN states PROVE index(n) \in Nat
    OBVIOUS
  <2>1. {m \in DOMAIN states : m < n} \in SUBSET DOMAIN states
    OBVIOUS
  <2>2. IsFiniteSet({m \in DOMAIN states : m < n})
    BY <1>1, <2>1, FS_Subset
  <2>. QED  BY <2>2, FS_CardinalityType
<1>. HIDE DEF stagger, index
<1>7. \A n \in DOMAIN states : due(n) \in Nat
  BY <1>5, <1>6, SMT, SMTT(60)
<1>8. new = [n \in DOMAIN states |-> [states[n] EXCEPT !.next_due = due(n)]]
  BY DEF ScheduleInitialRuns, stagger, index, size
<1>. HIDE DEF due
<1>9. ASSUME NEW n \in DOMAIN states
      PROVE  new[n] \in ProfileStates /\ Copied(new[n], states[n]) /\ new[n].config = states[n].config
  <2>1. new[n] = [states[n] EXCEPT !.next_due = due(n)]
    BY <1>8
  <2>2. states[n] \in ProfileStates /\ due(n) \in Nat
    BY <1>7 DEF IsList
  <2>3. new[n] \in ProfileStates
    BY <2>1, <2>2 DEF ProfileStates
  <2>. QED  BY <2>1, <2>2, <2>3 DEF ProfileStates, Copied
<1>10. DOMAIN new = DOMAIN states
  BY <1>8
<1>11. IsList(new)
  BY <1>9, <1>10 DEF IsList
<1>. QED  BY <1>9, <1>10, <1>11

\* _build_profile_states: a state is kept but for the configuration, or new.
LEMMA BuiltStates ==
    ASSUME NEW load \in Loads, NEW previous, IsList(previous), NEW new, new = BuildProfileStates(load, previous)
    PROVE  Fits(new, load, previous)
<1>1. PICK S \in SUBSET Names : load \in [S -> Config]
  BY LoadsAssumption
<1>2. DOMAIN load \subseteq Names /\ \A n \in DOMAIN load : load[n] \in Config
  BY <1>1
<1>3. DOMAIN new = DOMAIN load /\ \A n \in DOMAIN load : new[n] =
        IF n \in DOMAIN previous /\ previous[n].config.key = load[n].key
        THEN [previous[n] EXCEPT !.config = load[n]] ELSE NewState(load[n])
  BY DEF BuildProfileStates
<1>4. ASSUME NEW n \in DOMAIN load
      PROVE  /\ new[n] \in ProfileStates /\ new[n].config = load[n]
             /\ IF n \in DOMAIN previous /\ previous[n].config.key = load[n].key
                THEN Copied(new[n], previous[n])
                ELSE new[n].run_count = 0 /\ Counted(new[n]) = 0 /\ new[n].last_result = None
  <2>1. CASE n \in DOMAIN previous /\ previous[n].config.key = load[n].key
    <3>1. previous[n] \in ProfileStates /\ load[n] \in Config
      BY <1>2, <2>1 DEF IsList
    <3>2. new[n] = [previous[n] EXCEPT !.config = load[n]]
      BY <1>3, <2>1
    <3>3. new[n] \in ProfileStates
      BY <3>1, <3>2 DEF ProfileStates
    <3>4. Copied(new[n], previous[n]) /\ new[n].config = load[n]
      BY <3>1, <3>2 DEF ProfileStates, Copied
    <3>. QED  BY <2>1, <3>3, <3>4
  <2>2. CASE ~ (n \in DOMAIN previous /\ previous[n].config.key = load[n].key)
    <3>1. new[n] = NewState(load[n]) /\ load[n] \in Config
      BY <1>2, <1>3, <2>2
    <3>. QED  BY <2>2, <3>1, NewStateType
  <2>. QED  BY <2>1, <2>2
<1>5. IsList(new)
  BY <1>2, <1>3, <1>4 DEF IsList
<1>. QED  BY <1>3, <1>4, <1>5 DEF Fits

LEMMA LoadedStates ==
    ASSUME NEW load \in Loads, NEW previous, IsList(previous), NEW now \in Nat,
           NEW new, new = ScheduleInitialRuns(BuildProfileStates(load, previous), now)
    PROVE  Fits(new, load, previous)
<1>1. PICK mid : mid = BuildProfileStates(load, previous)
  OBVIOUS
<1>2. Fits(mid, load, previous)
  BY <1>1, BuiltStates
<1>3. DOMAIN mid = DOMAIN load /\ IsList(mid) /\ new = ScheduleInitialRuns(mid, now)
  BY <1>1, <1>2 DEF Fits
<1>4. /\ DOMAIN new = DOMAIN mid /\ IsList(new)
      /\ \A n \in DOMAIN mid : Copied(new[n], mid[n]) /\ new[n].config = mid[n].config
  BY <1>3, InitialRuns
<1>5. ASSUME NEW n \in DOMAIN load
      PROVE  /\ new[n].config = load[n]
             /\ IF n \in DOMAIN previous /\ previous[n].config.key = load[n].key
                THEN Copied(new[n], previous[n])
                ELSE new[n].run_count = 0 /\ Counted(new[n]) = 0 /\ new[n].last_result = None
  <2>1. Copied(new[n], mid[n]) /\ new[n].config = mid[n].config
    BY <1>3, <1>4
  <2>2. /\ mid[n].config = load[n]
        /\ IF n \in DOMAIN previous /\ previous[n].config.key = load[n].key
           THEN Copied(mid[n], previous[n])
           ELSE mid[n].run_count = 0 /\ Counted(mid[n]) = 0 /\ mid[n].last_result = None
    BY <1>2 DEF Fits
  <2>. QED  BY <2>1, <2>2 DEF Copied, Counted
<1>. QED  BY <1>3, <1>4, <1>5 DEF Fits

-----------------------------------------------------------------------------
(* Places of the threads.                                                   *)

LEMMA PcAfter ==
    ASSUME PcOK, NEW t \in Schedulers \cup Waiters, NEW l \in SchedulerLabels \cup WaiterLabels, Goto(t, l)
    PROVE  /\ pc'[t] = l /\ \A x \in Schedulers \cup Waiters : x # t => pc'[x] = pc[x]
           /\ pc' \in [Schedulers \cup Waiters -> SchedulerLabels \cup WaiterLabels]
BY DEF PcOK, Goto

LEMMA Apart == /\ Main \in Waiters /\ \A c \in Callers : c \in Waiters /\ c # Main
               /\ \A c \in Waiters : c \notin Schedulers /\ (c \in Callers \/ c = Main)
BY ThreadsAssumption DEF Waiters

LEMMA WaiterPc ==
    ASSUME PcOK, NEW c \in Waiters, NEW l \in WaiterLabels, c = Main => l # "load", Goto(c, l)
    PROVE  /\ PcOK' /\ pc'[c] = l
           /\ \A d \in Waiters : d # c => pc'[d] = pc[d]
           /\ \A s \in Schedulers : pc'[s] = pc[s]
<1>1. /\ pc'[c] = l /\ \A x \in Schedulers \cup Waiters : x # c => pc'[x] = pc[x]
      /\ pc' \in [Schedulers \cup Waiters -> SchedulerLabels \cup WaiterLabels]
  BY PcAfter
<1>2. (\A d \in Waiters : d # c => pc'[d] = pc[d]) /\ (\A s \in Schedulers : pc'[s] = pc[s])
  BY <1>1, Apart
<1>3. PcOK'
  BY <1>1, <1>2, Apart DEF PcOK
<1>. QED  BY <1>1, <1>2, <1>3

\* A scheduler that has been started moves.
LEMMA SchedulerPlaces ==
    ASSUME PlacesOK, NEW s \in Schedulers, pc[s] # "created", NEW l \in SchedulerLabels, Goto(s, l),
           gen' = gen, handle' = handle
    PROVE  /\ PlacesOK' /\ pc'[s] = l
           /\ \A x \in Schedulers : x # s => pc'[x] = pc[x]
           /\ \A c \in Waiters : pc'[c] = pc[c]
<1>0. PcOK /\ LaunchOK /\ BoundOK
  BY DEF PlacesOK
<1>1. /\ pc'[s] = l /\ \A x \in Schedulers \cup Waiters : x # s => pc'[x] = pc[x]
      /\ pc' \in [Schedulers \cup Waiters -> SchedulerLabels \cup WaiterLabels]
  BY <1>0, PcAfter
<1>2. (\A x \in Schedulers : x # s => pc'[x] = pc[x]) /\ (\A c \in Waiters : pc'[c] = pc[c])
  BY <1>1, Apart
<1>3. PcOK'
  BY <1>0, <1>1, <1>2, Apart DEF PcOK
<1>4. LaunchOK'
  <2>1. ASSUME NEW c \in Waiters, pc'[c] = "launch"
        PROVE  pc[c] = "launch" /\ handle'[c] \in Schedulers /\ pc'[handle'[c]] = "created"
    BY <1>0, <1>2, <2>1 DEF LaunchOK
  <2>. QED  BY <1>0, <2>1 DEF LaunchOK
<1>5. Loading' = Loading
  BY <1>2, Apart DEF Loading
<1>6. BoundOK'
  BY <1>0, <1>5 DEF BoundOK
<1>. QED  BY <1>1, <1>2, <1>3, <1>4, <1>6 DEF PlacesOK

\* The reloads under way, after a step of one of them.
LEMMA LoadingSize ==
    ASSUME NEW S \in SUBSET Callers
    PROVE  /\ IsFiniteSet(S) /\ Cardinality(S) \in Nat
           /\ \A T \in SUBSET S : Cardinality(T) \in Nat /\ Cardinality(T) <= Cardinality(S)
           /\ \A c \in S : Cardinality(S \ {c}) = Cardinality(S) - 1
<1>1. IsFiniteSet(S)
  BY ThreadsAssumption, FS_Subset
<1>2. Cardinality(S) \in Nat
  BY <1>1, FS_CardinalityType
<1>3. ASSUME NEW T \in SUBSET S PROVE Cardinality(T) \in Nat /\ Cardinality(T) <= Cardinality(S)
  BY <1>1, FS_Subset, FS_CardinalityType
<1>4. ASSUME NEW c \in S PROVE Cardinality(S \ {c}) = Cardinality(S) - 1
  BY <1>1, FS_RemoveElement
<1>. QED  BY <1>1, <1>2, <1>3, <1>4

\* A waiter moves, but not to create a thread or to begin a reload.
LEMMA WaiterPlaces ==
    ASSUME PlacesOK, PlainOK, NEW c \in Waiters, NEW l \in WaiterLabels, l # "launch", c = Main => l # "load", Goto(c, l),
           gen' = gen, \A d \in Waiters : d # c => handle'[d] = handle[d]
    PROVE  /\ PcOK' /\ LaunchOK' /\ pc'[c] = l
           /\ \A d \in Waiters : d # c => pc'[d] = pc[d]
           /\ \A s \in Schedulers : pc'[s] = pc[s]
           /\ (l \in {"join", "load"} => pc[c] \in {"join", "load"}) => BoundOK'
<1>0. PcOK /\ LaunchOK /\ BoundOK
  BY DEF PlacesOK
<1>1. /\ PcOK' /\ pc'[c] = l /\ \A d \in Waiters : d # c => pc'[d] = pc[d]
      /\ \A s \in Schedulers : pc'[s] = pc[s]
  BY <1>0, WaiterPc
<1>2. LaunchOK'
  <2>1. ASSUME NEW d \in Waiters, pc'[d] = "launch"
        PROVE  pc[d] = "launch" /\ handle'[d] = handle[d] /\ handle[d] \in Schedulers /\ pc'[handle[d]] = "created"
    BY <1>0, <1>1, <2>1 DEF LaunchOK
  <2>2. ASSUME NEW d \in Waiters, NEW e \in Waiters, pc'[d] = "launch", pc'[e] = "launch", handle'[e] = handle'[d]
        PROVE  e = d
    <3>1. pc[d] = "launch" /\ pc[e] = "launch" /\ handle[e] = handle[d]
      BY <2>1, <2>2
    <3>. QED  BY <1>0, <3>1 DEF LaunchOK
  <2>3. ASSUME NEW d \in Waiters, pc'[d] = "launch" PROVE handle'[d] \in Schedulers /\ pc'[handle'[d]] = "created"
    BY <2>1, <2>3
  <2>. QED  BY <2>2, <2>3 DEF LaunchOK
<1>3. ASSUME l \in {"join", "load"} => pc[c] \in {"join", "load"} PROVE BoundOK'
  <2>1. Loading' \in SUBSET Loading
    BY <1>1, <1>3, Apart DEF Loading
  <2>2. Loading \in SUBSET Callers
    BY DEF Loading
  <2>3. Cardinality(Loading) \in Nat /\ Cardinality(Loading') \in Nat /\ Cardinality(Loading') <= Cardinality(Loading)
    BY <2>1, <2>2, LoadingSize
  <2>4. gen \in Nat /\ MaxLoads \in Nat
    BY TimeAssumption, SMT, SMTT(60) DEF PlainOK, Generations
  <2>. HIDE DEF Loading
  <2>. QED  BY <1>0, <2>3, <2>4, SMT, SMTT(60) DEF BoundOK
<1>. QED  BY <1>1, <1>2, <1>3

-----------------------------------------------------------------------------
(* Runs in flight.                                                          *)

Flying(g, n) == {s \in Schedulers : Executing(s) /\ held[s] = [gen |-> g, name |-> n]}

LEMMA Counting ==
    ASSUME NEW S \in SUBSET Schedulers
    PROVE  /\ IsFiniteSet(S) /\ Cardinality(S) \in Nat
           /\ \A s \in S : Cardinality(S \ {s}) = Cardinality(S) - 1
           /\ \A s : s \notin S => Cardinality(S \cup {s}) = Cardinality(S) + 1
<1>1. IsFiniteSet(S)
  BY ThreadsAssumption, FS_Subset
<1>2. Cardinality(S) \in Nat
  BY <1>1, FS_CardinalityType
<1>. QED  BY <1>1, <1>2, FS_AddElement, FS_RemoveElement

LEMMA InFlightType == \A g, n : InFlight(g, n) \in Nat
<1>. SUFFICES ASSUME NEW g, NEW n PROVE InFlight(g, n) \in Nat
  OBVIOUS
<1>1. Flying(g, n) \in SUBSET Schedulers
  BY DEF Flying
<1>. QED  BY <1>1, Counting DEF InFlight, Flying

\* A run starts.
LEMMA Enters ==
    ASSUME NEW s \in Schedulers, NEW g, NEW n, held[s] = [gen |-> g, name |-> n],
           ~ Executing(s), Executing(s)', held' = held, \A x \in Schedulers : x # s => pc'[x] = pc[x]
    PROVE  /\ InFlight(g, n)' = InFlight(g, n) + 1
           /\ \A h, m : h # g \/ m # n => InFlight(h, m)' = InFlight(h, m)
<1>1. Flying(g, n) \in SUBSET Schedulers /\ s \notin Flying(g, n) /\ Flying(g, n)' = Flying(g, n) \cup {s}
  BY DEF Flying, Executing
<1>2. ASSUME NEW h, NEW m, h # g \/ m # n PROVE Flying(h, m)' = Flying(h, m)
  <2>1. [gen |-> g, name |-> n] # [gen |-> h, name |-> m]
    BY <1>2
  <2>. QED  BY <2>1 DEF Flying, Executing
<1>3. InFlight(g, n)' = InFlight(g, n) + 1
  <2>1. InFlight(g, n) = Cardinality(Flying(g, n)) /\ InFlight(g, n)' = Cardinality(Flying(g, n)')
    BY DEF InFlight, Flying
  <2>2. Cardinality(Flying(g, n) \cup {s}) = Cardinality(Flying(g, n)) + 1
    BY <1>1, Counting
  <2>. QED  BY <1>1, <2>1, <2>2
<1>4. ASSUME NEW h, NEW m, h # g \/ m # n PROVE InFlight(h, m)' = InFlight(h, m)
  <2>1. Flying(h, m)' = Flying(h, m)
    BY <1>2, <1>4
  <2>. QED  BY <2>1 DEF InFlight, Flying
<1>. QED  BY <1>3, <1>4

\* A run ends.
LEMMA Leaves ==
    ASSUME NEW s \in Schedulers, NEW g, NEW n, held[s] = [gen |-> g, name |-> n], Executing(s), ~ Executing(s)',
           \A x \in Schedulers : x # s => pc'[x] = pc[x] /\ held'[x] = held[x]
    PROVE  /\ InFlight(g, n)' = InFlight(g, n) - 1
           /\ \A h, m : h # g \/ m # n => InFlight(h, m)' = InFlight(h, m)
<1>1. Flying(g, n) \in SUBSET Schedulers /\ s \in Flying(g, n) /\ Flying(g, n)' = Flying(g, n) \ {s}
  BY DEF Flying, Executing
<1>2. ASSUME NEW h, NEW m, h # g \/ m # n PROVE Flying(h, m)' = Flying(h, m)
  <2>1. [gen |-> g, name |-> n] # [gen |-> h, name |-> m]
    BY <1>2
  <2>. QED  BY <2>1 DEF Flying, Executing
<1>3. InFlight(g, n)' = InFlight(g, n) - 1
  <2>1. InFlight(g, n) = Cardinality(Flying(g, n)) /\ InFlight(g, n)' = Cardinality(Flying(g, n)')
    BY DEF InFlight, Flying
  <2>2. Cardinality(Flying(g, n) \ {s}) = Cardinality(Flying(g, n)) - 1
    BY <1>1, Counting
  <2>. QED  BY <1>1, <2>1, <2>2
<1>4. ASSUME NEW h, NEW m, h # g \/ m # n PROVE InFlight(h, m)' = InFlight(h, m)
  <2>1. Flying(h, m)' = Flying(h, m)
    BY <1>2, <1>4
  <2>. QED  BY <2>1 DEF InFlight, Flying
<1>. QED  BY <1>3, <1>4

\* No run starts or ends.
LEMMA SameFlight ==
    ASSUME \A x \in Schedulers : /\ Executing(x)' <=> Executing(x)
                                 /\ Executing(x) => held'[x] = held[x]
    PROVE  \A g, n : InFlight(g, n)' = InFlight(g, n)
<1>. SUFFICES ASSUME NEW g, NEW n PROVE InFlight(g, n)' = InFlight(g, n)
  OBVIOUS
<1>1. Flying(g, n)' = Flying(g, n)
  BY DEF Flying
<1>. QED  BY <1>1 DEF InFlight, Flying

LEMMA SameAccounts ==
    ASSUME RunsAccounted, profiles' = profiles, lost' = lost,
           \A x \in Schedulers : /\ Executing(x)' <=> Executing(x)
                                 /\ Executing(x) => held'[x] = held[x]
    PROVE  RunsAccounted'
<1>1. \A g, n : InFlight(g, n)' = InFlight(g, n)
  BY SameFlight
<1>. SUFFICES ASSUME NEW g \in Generations, NEW n \in DOMAIN profiles'[g]
              PROVE  profiles'[g][n].run_count = Counted(profiles'[g][n]) + InFlight(g, n)' + lost'[g][n]
  BY DEF RunsAccounted, Counted
<1>2. profiles[g][n].run_count = Counted(profiles[g][n]) + InFlight(g, n) + lost[g][n]
  BY DEF RunsAccounted
<1>. QED  BY <1>1, <1>2

\* The step changes one object only.
Touches(g, n) ==
    \A h \in Generations :
        /\ DOMAIN profiles'[h] = DOMAIN profiles[h]
        /\ \A m \in DOMAIN profiles[h] : h # g \/ m # n => profiles'[h][m] = profiles[h][m]

\* The step writes one object, and a scheduler lets go of its object.
Puts(g, n, state) == profiles' = [profiles EXCEPT ![g][n] = state]
Drops(s) == held' = [held EXCEPT ![s] = None]

LEMMA ObjectUpdated ==
    ASSUME ListsOK, NEW g \in Generations, NEW n \in DOMAIN profiles[g], NEW state \in ProfileStates,
           Puts(g, n, state)
    PROVE  ListsOK' /\ Touches(g, n) /\ profiles'[g][n] = state
<1>1. DOMAIN profiles = Generations /\ \A h \in Generations : IsList(profiles[h])
  BY DEF ListsOK
<1>2. profiles'[g] = [profiles[g] EXCEPT ![n] = state] /\ DOMAIN profiles' = Generations
      /\ \A h \in Generations : h # g => profiles'[h] = profiles[h]
  BY <1>1 DEF Puts
<1>3. DOMAIN profiles'[g] = DOMAIN profiles[g] /\ profiles'[g][n] = state
      /\ \A m \in DOMAIN profiles[g] : m # n => profiles'[g][m] = profiles[g][m]
  BY <1>2
<1>4. Touches(g, n)
  BY <1>2, <1>3 DEF Touches
<1>5. IsList(profiles'[g])
  BY <1>1, <1>3 DEF IsList
<1>6. ListsOK'
  BY <1>1, <1>2, <1>5 DEF ListsOK
<1>. QED  BY <1>3, <1>4, <1>6

LEMMA ObjectAccounted ==
    ASSUME RunsAccounted, NEW g \in Generations, NEW n \in DOMAIN profiles[g], Touches(g, n),
           \A h, m : h # g \/ m # n => InFlight(h, m)' = InFlight(h, m),
           \A h \in Generations : \A m \in Names : h # g \/ m # n => lost'[h][m] = lost[h][m],
           \A h \in Generations : DOMAIN profiles[h] \subseteq Names,
           profiles'[g][n].run_count = Counted(profiles'[g][n]) + InFlight(g, n)' + lost'[g][n]
    PROVE  RunsAccounted'
<1>. SUFFICES ASSUME NEW h \in Generations, NEW m \in DOMAIN profiles'[h]
              PROVE  profiles'[h][m].run_count = Counted(profiles'[h][m]) + InFlight(h, m)' + lost'[h][m]
  BY DEF RunsAccounted, Counted
<1>1. m \in DOMAIN profiles[h] /\ m \in Names
  BY DEF Touches
<1>2. CASE h = g /\ m = n
  BY <1>2
<1>3. CASE h # g \/ m # n
  <2>1. profiles'[h][m] = profiles[h][m] /\ InFlight(h, m)' = InFlight(h, m) /\ lost'[h][m] = lost[h][m]
    BY <1>1, <1>3 DEF Touches
  <2>2. profiles[h][m].run_count = Counted(profiles[h][m]) + InFlight(h, m) + lost[h][m]
    BY <1>1 DEF RunsAccounted
  <2>. QED  BY <2>1, <2>2
<1>. QED  BY <1>2, <1>3

-----------------------------------------------------------------------------
(* The invariant, action by action.                                         *)

\* A step that leaves the objects alone, and the schedulers at work.
LEMMA QuietStep ==
    ASSUME IInv, PlainOK', PlacesOK', profiles' = profiles, gen' = gen, lost' = lost, held' = held,
           \A s \in Schedulers : pc'[s] = pc[s] \/ (pc[s] \notin Working /\ pc'[s] \notin Working)
    PROVE  IInv'
<1>1. HeldOK'
  <2>1. HeldOK
    BY DEF IInv
  <2>2. ASSUME NEW s \in Schedulers PROVE Holds(s)' <=> Holds(s)
    BY DEF Holds
  <2>. QED  BY <2>1, <2>2 DEF HeldOK
<1>2. ListsOK'
  BY DEF IInv, ListsOK
<1>3. \A x \in Schedulers : Executing(x)' <=> Executing(x)
  BY DEF Executing, Working
<1>4. RunsAccounted'
  <2>1. RunsAccounted
    BY DEF IInv
  <2>. QED  BY <1>3, <2>1, SameAccounts
<1>. QED  BY <1>1, <1>2, <1>4 DEF IInv

LEMMA StopInvariant == ASSUME IInv, NEW c \in Waiters, Stop(c) PROVE IInv'
<1>0. PlainOK /\ PlacesOK
  BY DEF IInv
<1>1. /\ pc[c] = "idle" /\ Goto(c, "join") /\ handle' = [handle EXCEPT ![c] = thread] /\ thread' = None /\ stopEvent' = TRUE
      /\ UNCHANGED <<profiles, gen, lost, overtaken, enabled, held, clock, survived>>
      /\ c # Main => gen + Cardinality({d \in Callers : pc[d] # "idle"}) < MaxLoads
  BY DEF Stop, objectVars
<1>2. PlainOK' /\ \A d \in Waiters : d # c => handle'[d] = handle[d]
  BY <1>0, <1>1 DEF PlainOK
<1>3. "join" \in WaiterLabels /\ "join" # "launch" /\ "join" # "load"
  BY DEF WaiterLabels
<1>4. /\ PcOK' /\ LaunchOK' /\ pc'[c] = "join" /\ \A d \in Waiters : d # c => pc'[d] = pc[d]
      /\ \A s \in Schedulers : pc'[s] = pc[s]
  BY <1>0, <1>1, <1>2, <1>3, WaiterPlaces
<1>5. BoundOK'
  <2>1. CASE c = Main
    <3>1. Loading' = Loading
      BY <1>4, <2>1, Apart DEF Loading
    <3>. QED  BY <1>0, <1>1, <3>1 DEF PlacesOK, BoundOK
  <2>2. CASE c # Main
    <3>. DEFINE S == {d \in Callers : pc[d] # "idle"}
                T == S \cup {c}
    <3>1. c \in Callers /\ S \in SUBSET Callers /\ T \in SUBSET Callers /\ c \notin S /\ c \in T /\ T \ {c} = S
      BY <1>1, <2>2, Apart
    <3>2. Loading' \in SUBSET T
      BY <1>4, Apart DEF Loading
    <3>3. gen + Cardinality(S) < MaxLoads
      BY <1>1, <2>2
    <3>. HIDE DEF S, T
    <3>4. Cardinality(S) \in Nat /\ Cardinality(T) \in Nat /\ Cardinality(S) = Cardinality(T) - 1
          /\ Cardinality(Loading') \in Nat /\ Cardinality(Loading') <= Cardinality(T)
      BY <3>1, <3>2, LoadingSize
    <3>5. gen \in Nat /\ MaxLoads \in Nat /\ gen' = gen
      BY <1>0, <1>1, TimeAssumption, SMT, SMTT(60) DEF PlainOK, Generations
    <3>. HIDE DEF Loading
    <3>. QED  BY <3>3, <3>4, <3>5, SMT, SMTT(60) DEF BoundOK
  <2>. QED  BY <2>1, <2>2
<1>6. PlacesOK'
  BY <1>4, <1>5 DEF PlacesOK
<1>. QED  BY <1>1, <1>2, <1>4, <1>6, QuietStep

\* The other steps of a waiter that create or load nothing.
LEMMA WaiterInvariant ==
    ASSUME IInv, NEW c \in Waiters, NEW l \in WaiterLabels, l # "launch", c = Main => l # "load", Goto(c, l),
           l \in {"join", "load"} => pc[c] \in {"join", "load"}, PlainOK',
           profiles' = profiles, gen' = gen, lost' = lost, held' = held,
           \A d \in Waiters : d # c => handle'[d] = handle[d]
    PROVE  IInv'
<1>0. PlainOK /\ PlacesOK
  BY DEF IInv
<1>1. PcOK' /\ LaunchOK' /\ BoundOK' /\ \A s \in Schedulers : pc'[s] = pc[s]
  BY <1>0, WaiterPlaces
<1>2. PlacesOK'
  BY <1>1 DEF PlacesOK
<1>. QED  BY <1>1, <1>2, QuietStep

LEMMA JoinInvariant == ASSUME IInv, NEW c \in Waiters, Join(c) PROVE IInv'
<1>0. PlainOK
  BY DEF IInv
<1>1. /\ pc[c] = "join" /\ handle' = [handle EXCEPT ![c] = None] /\ survived' \in {survived, TRUE}
      /\ UNCHANGED <<profiles, gen, lost, overtaken, enabled, thread, stopEvent, held, clock>>
  BY DEF Join, objectVars, serviceVars
<1>2. PICK l \in {"off", "load", "idle"} : Goto(c, l) /\ (c = Main => l # "load")
  BY DEF Join
<1>3. PlainOK' /\ \A d \in Waiters : d # c => handle'[d] = handle[d]
  BY <1>0, <1>1 DEF PlainOK
<1>4. l \in WaiterLabels /\ l # "launch"
  BY DEF WaiterLabels
<1>. QED  BY <1>1, <1>2, <1>3, <1>4, WaiterInvariant

LEMMA CheckInvariant == ASSUME IInv, NEW c \in Waiters, CheckEnabled(c) PROVE IInv'
<1>0. PlainOK
  BY DEF IInv
<1>1. UNCHANGED <<profiles, gen, lost, overtaken, enabled, thread, stopEvent, held, handle, clock, survived>>
  BY DEF CheckEnabled, objectVars, serviceVars
<1>2. PICK l \in {"start", "idle"} : Goto(c, l)
  BY DEF CheckEnabled
<1>3. PlainOK' /\ \A d \in Waiters : d # c => handle'[d] = handle[d]
  BY <1>0, <1>1 DEF PlainOK
<1>4. l \in WaiterLabels /\ l # "launch" /\ l \notin {"join", "load"}
  BY DEF WaiterLabels
<1>. QED  BY <1>1, <1>2, <1>3, <1>4, WaiterInvariant

\* A waiter and the thread object in its hands move together.
GotoBoth(c, l, s, k) == pc' = [pc EXCEPT ![c] = l, ![s] = k]

LEMMA PairPc ==
    ASSUME PcOK, NEW c \in Waiters, NEW s \in Schedulers, NEW l \in WaiterLabels, l # "load", NEW k \in SchedulerLabels,
           GotoBoth(c, l, s, k)
    PROVE  /\ PcOK' /\ pc'[c] = l /\ pc'[s] = k
           /\ \A d \in Waiters : d # c => pc'[d] = pc[d]
           /\ \A x \in Schedulers : x # s => pc'[x] = pc[x]
<1>1. c # s /\ c \in Schedulers \cup Waiters /\ s \in Schedulers \cup Waiters
  BY Apart
<1>2. pc \in [Schedulers \cup Waiters -> SchedulerLabels \cup WaiterLabels]
  BY DEF PcOK
<1>3. pc' \in [Schedulers \cup Waiters -> SchedulerLabels \cup WaiterLabels]
  BY <1>2 DEF GotoBoth
<1>4. pc'[c] = l /\ pc'[s] = k /\ \A x \in Schedulers \cup Waiters : x # s /\ x # c => pc'[x] = pc[x]
  BY <1>1, <1>2 DEF GotoBoth
<1>5. (\A d \in Waiters : d # c => pc'[d] = pc[d]) /\ (\A x \in Schedulers : x # s => pc'[x] = pc[x])
  BY <1>4, Apart
<1>6. PcOK'
  BY <1>3, <1>4, <1>5, Apart DEF PcOK
<1>. QED  BY <1>4, <1>5, <1>6

\* Such a waiter is not loading, before or after.
LEMMA PairBound ==
    ASSUME BoundOK, NEW c \in Waiters, pc[c] \notin {"join", "load"}, pc'[c] \notin {"join", "load"}, gen' = gen,
           \A d \in Waiters : d # c => pc'[d] = pc[d]
    PROVE  BoundOK'
<1>1. Loading' = Loading
  BY Apart DEF Loading
<1>. QED  BY <1>1 DEF BoundOK

LEMMA StartInvariant == ASSUME IInv, NEW c \in Waiters, Start(c) PROVE IInv'
<1>0. PlainOK /\ PlacesOK
  BY DEF IInv
<1>1. pc[c] = "start" /\ UNCHANGED <<profiles, gen, lost, overtaken, enabled, held, clock, survived>>
  BY DEF Start, objectVars
<1>2. CASE Goto(c, "idle") /\ UNCHANGED <<handle, thread, stopEvent>>
  <2>1. PlainOK' /\ \A d \in Waiters : d # c => handle'[d] = handle[d]
    BY <1>0, <1>1, <1>2 DEF PlainOK
  <2>2. "idle" \in WaiterLabels /\ "idle" # "launch" /\ "idle" \notin {"join", "load"}
    BY DEF WaiterLabels
  <2>. QED  BY <1>1, <1>2, <2>1, <2>2, WaiterInvariant
<1>3. ASSUME NEW s \in Schedulers, pc[s] = "none", stopEvent' = FALSE, thread' = s,
             handle' = [handle EXCEPT ![c] = s], GotoBoth(c, "launch", s, "created")
      PROVE  IInv'
  <2>1. PlainOK' /\ handle'[c] = s /\ \A d \in Waiters : d # c => handle'[d] = handle[d]
    BY <1>0, <1>1, <1>3 DEF PlainOK
  <2>2. PcOK /\ LaunchOK /\ BoundOK
    BY <1>0 DEF PlacesOK
  <2>3. "launch" \in WaiterLabels /\ "launch" # "load" /\ "created" \in SchedulerLabels
    BY DEF WaiterLabels, SchedulerLabels
  <2>4. /\ PcOK' /\ pc'[c] = "launch" /\ pc'[s] = "created"
        /\ \A d \in Waiters : d # c => pc'[d] = pc[d]
        /\ \A x \in Schedulers : x # s => pc'[x] = pc[x]
    BY <1>3, <2>2, <2>3, PairPc
  <2>5. BoundOK'
    BY <1>1, <2>2, <2>4, PairBound
  <2>6. LaunchOK'
    <3>1. ASSUME NEW d \in Waiters, d # c, pc'[d] = "launch"
          PROVE  handle'[d] \in Schedulers /\ handle'[d] # s /\ pc'[handle'[d]] = "created" /\ handle'[d] = handle[d] /\ pc[d] = "launch"
      <4>1. pc[d] = "launch" /\ handle'[d] = handle[d]
        BY <2>1, <2>4, <3>1
      <4>2. handle[d] \in Schedulers /\ pc[handle[d]] = "created"
        BY <2>2, <4>1 DEF LaunchOK
      <4>3. handle[d] # s
        BY <1>3, <4>2
      <4>. QED  BY <2>4, <4>1, <4>2, <4>3
    <3>2. ASSUME NEW d \in Waiters, pc'[d] = "launch" PROVE handle'[d] \in Schedulers /\ pc'[handle'[d]] = "created"
      BY <2>1, <2>4, <3>1, <3>2
    <3>3. ASSUME NEW d \in Waiters, NEW e \in Waiters, pc'[d] = "launch", pc'[e] = "launch", handle'[e] = handle'[d]
          PROVE  e = d
      <4>1. CASE d = c
        BY <2>1, <3>1, <3>3, <4>1
      <4>2. CASE e = c
        BY <2>1, <3>1, <3>3, <4>2
      <4>3. CASE d # c /\ e # c
        <5>1. pc[d] = "launch" /\ pc[e] = "launch" /\ handle[e] = handle[d]
          BY <3>1, <3>3, <4>3
        <5>. QED  BY <2>2, <5>1 DEF LaunchOK
      <4>. QED  BY <4>1, <4>2, <4>3
    <3>. QED  BY <3>2, <3>3 DEF LaunchOK
  <2>7. PlacesOK'
    BY <2>4, <2>5, <2>6 DEF PlacesOK
  <2>8. \A x \in Schedulers : pc'[x] = pc[x] \/ (pc[x] \notin Working /\ pc'[x] \notin Working)
    BY <1>3, <2>4 DEF Working
  <2>. QED  BY <1>1, <2>1, <2>7, <2>8, QuietStep
<1>. QED  BY <1>2, <1>3 DEF Start, GotoBoth

LEMMA LaunchInvariant == ASSUME IInv, NEW c \in Waiters, Launch(c) PROVE IInv'
<1>0. PlainOK /\ PlacesOK /\ PcOK /\ LaunchOK /\ BoundOK
  BY DEF IInv, PlacesOK
<1>. DEFINE s == handle[c]
<1>1. /\ pc[c] = "launch" /\ GotoBoth(c, "idle", s, "loop") /\ handle' = [handle EXCEPT ![c] = None]
      /\ UNCHANGED <<profiles, gen, lost, overtaken, enabled, thread, stopEvent, held, clock, survived>>
  BY DEF Launch, GotoBoth, objectVars, serviceVars
<1>2. s \in Schedulers /\ pc[s] = "created" /\ \A d \in Waiters : pc[d] = "launch" /\ handle[d] = s => d = c
  BY <1>0, <1>1 DEF LaunchOK
<1>3. PlainOK' /\ \A d \in Waiters : d # c => handle'[d] = handle[d]
  BY <1>0, <1>1 DEF PlainOK
<1>4. "idle" \in WaiterLabels /\ "idle" # "load" /\ "idle" # "launch" /\ "loop" \in SchedulerLabels
  BY DEF WaiterLabels, SchedulerLabels
<1>. HIDE DEF s
<1>5. /\ PcOK' /\ pc'[c] = "idle" /\ pc'[s] = "loop"
      /\ \A d \in Waiters : d # c => pc'[d] = pc[d]
      /\ \A x \in Schedulers : x # s => pc'[x] = pc[x]
  BY <1>0, <1>1, <1>2, <1>4, PairPc
<1>6. BoundOK'
  BY <1>0, <1>1, <1>5, PairBound
<1>7. LaunchOK'
  <2>1. ASSUME NEW d \in Waiters, pc'[d] = "launch"
        PROVE  d # c /\ pc[d] = "launch" /\ handle'[d] = handle[d] /\ handle[d] # s
               /\ handle'[d] \in Schedulers /\ pc'[handle'[d]] = "created"
    <3>1. d # c
      BY <1>4, <1>5, <2>1
    <3>2. pc[d] = "launch" /\ handle'[d] = handle[d]
      BY <1>3, <1>5, <2>1, <3>1
    <3>3. handle[d] # s
      BY <1>2, <3>1, <3>2
    <3>4. handle[d] \in Schedulers /\ pc[handle[d]] = "created"
      BY <1>0, <3>2 DEF LaunchOK
    <3>5. pc'[handle[d]] = pc[handle[d]]
      BY <1>5, <3>3, <3>4
    <3>. QED  BY <3>1, <3>2, <3>3, <3>4, <3>5
  <2>2. ASSUME NEW d \in Waiters, NEW e \in Waiters, pc'[d] = "launch", pc'[e] = "launch", handle'[e] = handle'[d]
        PROVE  e = d
    <3>1. pc[d] = "launch" /\ pc[e] = "launch" /\ handle[e] = handle[d]
      BY <2>1, <2>2
    <3>. QED  BY <1>0, <3>1 DEF LaunchOK
  <2>. QED  BY <2>1, <2>2 DEF LaunchOK
<1>8. PlacesOK'
  BY <1>5, <1>6, <1>7 DEF PlacesOK
<1>9. \A x \in Schedulers : pc'[x] = pc[x] \/ (pc[x] \notin Working /\ pc'[x] \notin Working)
  BY <1>2, <1>5 DEF Working
<1>. QED  BY <1>1, <1>3, <1>8, <1>9, QuietStep

\* A reload takes the next generation for its list, which nobody holds yet.
NewList(c, load) ==
    /\ gen \in Generations /\ gen + 1 \in Generations /\ gen' = gen + 1 /\ Goto(c, "check") /\ c \in Callers
    /\ DOMAIN profiles' = Generations /\ \A g \in Generations : g # gen + 1 => profiles'[g] = profiles[g]
    /\ IsList(Current) /\ Fits(Current', load, Current)
    /\ lost' = [lost EXCEPT ![gen + 1] = [n \in Names |->
          IF n \in DOMAIN Current' /\ Current'[n].run_count > 0 THEN lost[gen][n] + InFlight(gen, n) ELSE 0]]
    /\ overtaken' = [n \in Names |-> [m \in Names |-> 0]]

LEMMA LoadCases ==
    ASSUME IInv, NEW c \in Waiters, Load(c)
    PROVE  /\ pc[c] = "load" /\ enabled' \in BOOLEAN /\ UNCHANGED <<thread, stopEvent, held, handle, clock, survived>>
           /\ \/ Goto(c, "idle") /\ UNCHANGED <<profiles, gen, lost, overtaken>>
              \/ \E load \in Loads : NewList(c, load)
<1>0. PlainOK /\ ListsOK /\ PcOK /\ BoundOK
  BY DEF IInv, PlacesOK
<1>1. pc[c] = "load" /\ enabled' \in BOOLEAN /\ UNCHANGED <<thread, stopEvent, held, handle, clock, survived>>
  BY DEF Load
<1>2. c \in Callers /\ c \in Loading /\ Loading \in SUBSET Callers
  BY <1>0, <1>1, Apart DEF PcOK, Loading
<1>3. gen \in Nat /\ gen <= MaxLoads /\ clock \in Nat
  BY <1>0, SMT, SMTT(60) DEF PlainOK, Generations
<1>4. Cardinality(Loading) \in Nat /\ Cardinality(Loading \ {c}) = Cardinality(Loading) - 1 /\ Cardinality(Loading \ {c}) \in Nat
  BY <1>2, LoadingSize
<1>5. gen + 1 \in Generations /\ gen \in Generations
  <2>. HIDE DEF Loading
  <2>. QED  BY <1>0, <1>3, <1>4, TimeAssumption, SMT, SMTT(60) DEF BoundOK, Generations
<1>6. ASSUME NEW load \in Loads, NEW states, states = ScheduleInitialRuns(BuildProfileStates(load, Current), clock),
             gen' = gen + 1, profiles' = [profiles EXCEPT ![gen + 1] = states],
             lost' = [lost EXCEPT ![gen + 1] = [n \in Names |->
                 IF n \in DOMAIN states /\ states[n].run_count > 0 THEN lost[gen][n] + InFlight(gen, n) ELSE 0]],
             overtaken' = [n \in Names |-> [m \in Names |-> 0]], Goto(c, "check")
      PROVE  NewList(c, load)
  <2>1. IsList(Current)
    BY <1>0, <1>5 DEF ListsOK, Current
  <2>2. Fits(states, load, Current)
    BY <1>3, <1>6, <2>1, LoadedStates
  <2>3. /\ DOMAIN profiles' = Generations /\ profiles'[gen + 1] = states
        /\ \A g \in Generations : g # gen + 1 => profiles'[g] = profiles[g]
    BY <1>0, <1>5, <1>6 DEF ListsOK
  <2>4. Current' = states
    BY <1>6, <2>3 DEF Current
  <2>. QED  BY <1>2, <1>5, <1>6, <2>1, <2>2, <2>3, <2>4 DEF NewList
<1>7. PICK load \in LoadOutcomes :
        IF load = None THEN Goto(c, "idle") /\ UNCHANGED objectVars
        ELSE LET states == ScheduleInitialRuns(BuildProfileStates(load, Current), clock)
             IN  /\ gen' = gen + 1
                 /\ profiles' = [profiles EXCEPT ![gen + 1] = states]
                 /\ lost' = [lost EXCEPT ![gen + 1] = [n \in Names |->
                        IF n \in DOMAIN states /\ states[n].run_count > 0 THEN lost[gen][n] + InFlight(gen, n) ELSE 0]]
                 /\ overtaken' = [n \in Names |-> [m \in Names |-> 0]]
                 /\ Goto(c, "check")
  BY DEF Load
<1>8. CASE load = None
  BY <1>1, <1>7, <1>8 DEF objectVars
<1>9. CASE load # None
  <2>1. load \in Loads
    BY <1>9 DEF LoadOutcomes
  <2>2. NewList(c, load)
    BY <1>6, <1>7, <1>9, <2>1
  <2>. QED  BY <1>1, <2>1, <2>2
<1>. QED  BY <1>8, <1>9

LEMMA LoadInvariant == ASSUME IInv, NEW c \in Waiters, Load(c) PROVE IInv'
<1>0. PlainOK /\ ListsOK /\ PlacesOK /\ HeldOK /\ RunsAccounted
  BY DEF IInv
<1>1. pc[c] = "load" /\ enabled' \in BOOLEAN /\ UNCHANGED <<thread, stopEvent, held, handle, clock, survived>>
  BY LoadCases
<1>2. CASE Goto(c, "idle") /\ UNCHANGED <<profiles, gen, lost, overtaken>>
  <2>1. PlainOK'
    BY <1>0, <1>1, <1>2 DEF PlainOK
  <2>2. "idle" \in WaiterLabels /\ "idle" # "launch" /\ "idle" # "load" /\ "idle" \notin {"join", "load"}
    BY DEF WaiterLabels
  <2>. QED  BY <1>1, <1>2, <2>1, <2>2, WaiterInvariant
<1>3. ASSUME NEW load \in Loads, NewList(c, load) PROVE IInv'
  <2>. DEFINE states == Current'
  <2>1. PcOK /\ LaunchOK /\ BoundOK
    BY <1>0 DEF PlacesOK
  <2>2. c \in Callers /\ c \in Loading /\ Loading \in SUBSET Callers
    BY <1>1, <1>3 DEF NewList, Loading
  <2>3. gen \in Nat /\ MaxLoads \in Nat
    BY <1>0, TimeAssumption, SMT, SMTT(60) DEF PlainOK, Generations
  <2>4. Cardinality(Loading) \in Nat /\ Cardinality(Loading \ {c}) = Cardinality(Loading) - 1 /\ Cardinality(Loading \ {c}) \in Nat
    BY <2>2, LoadingSize
  <2>5. gen + 1 \in Generations /\ gen \in Generations /\ gen' = gen + 1 /\ Goto(c, "check")
    BY <1>3 DEF NewList
  <2>6. "check" \in WaiterLabels /\ "check" # "load"
    BY DEF WaiterLabels
  <2>7. /\ PcOK' /\ pc'[c] = "check" /\ \A d \in Waiters : d # c => pc'[d] = pc[d]
        /\ \A s \in Schedulers : pc'[s] = pc[s]
    BY <2>1, <2>5, <2>6, WaiterPc
  <2>8. LaunchOK'
    BY <1>1, <2>1, <2>7 DEF LaunchOK
  <2>9. BoundOK'
    <3>1. Loading' = Loading \ {c}
      BY <2>7, Apart DEF Loading
    <3>. HIDE DEF Loading
    <3>. QED  BY <2>1, <2>3, <2>4, <2>5, <3>1, SMT, SMTT(60) DEF BoundOK
  <2>10. PlacesOK'
    BY <2>7, <2>8, <2>9 DEF PlacesOK
  <2>12. /\ DOMAIN states = DOMAIN load /\ IsList(states)
         /\ \A n \in DOMAIN load :
             IF n \in DOMAIN Current /\ Current[n].config.key = load[n].key
             THEN Copied(states[n], Current[n])
             ELSE states[n].run_count = 0 /\ Counted(states[n]) = 0
    BY <1>3 DEF NewList, Fits
  <2>13. /\ DOMAIN profiles' = Generations /\ profiles'[gen + 1] = states
         /\ \A g \in Generations : g # gen + 1 => profiles'[g] = profiles[g]
    BY <1>3, <2>5 DEF NewList, Current
  <2>14. ListsOK'
    BY <1>0, <2>12, <2>13 DEF ListsOK
  <2>11. lost' = [lost EXCEPT ![gen + 1] = [n \in Names |->
               IF n \in DOMAIN states /\ states[n].run_count > 0 THEN lost[gen][n] + InFlight(gen, n) ELSE 0]]
         /\ overtaken' = [n \in Names |-> [m \in Names |-> 0]]
    BY <1>3 DEF NewList
  <2>. HIDE DEF states
  <2>15. \A n \in Names : lost[gen][n] \in Nat /\ InFlight(gen, n) \in Nat
    BY <1>0, <2>5, InFlightType DEF PlainOK
  <2>16. [n \in Names |-> IF n \in DOMAIN states /\ states[n].run_count > 0 THEN lost[gen][n] + InFlight(gen, n) ELSE 0]
         \in [Names -> Nat]
    BY <2>15, SMT, SMTT(60)
  <2>17. lost' \in [Generations -> [Names -> Nat]] /\ \A g \in Generations : g # gen + 1 => lost'[g] = lost[g]
    <3>1. lost \in [Generations -> [Names -> Nat]]
      BY <1>0 DEF PlainOK
    <3>. QED  BY <2>5, <2>11, <2>16, <3>1
  <2>18. \A n \in Names : lost'[gen + 1][n] =
             IF n \in DOMAIN states /\ states[n].run_count > 0 THEN lost[gen][n] + InFlight(gen, n) ELSE 0
    <3>1. lost \in [Generations -> [Names -> Nat]]
      BY <1>0 DEF PlainOK
    <3>. QED  BY <2>5, <2>11, <3>1
  <2>19. overtaken' \in [Names -> [Names -> Nat]]
    BY <2>11
  <2>20. PlainOK'
    BY <1>0, <1>1, <2>5, <2>17, <2>19 DEF PlainOK
  <2>21. ASSUME NEW s \in Schedulers, Holds(s) PROVE Holds(s)' /\ held[s].gen # gen + 1
    <3>1. held[s] \in Objects /\ held[s].gen <= gen /\ held[s].name \in DOMAIN profiles[held[s].gen]
      BY <2>21 DEF Holds
    <3>2. held[s].gen \in Generations
      BY <3>1 DEF Objects
    <3>3. held[s].gen \in Nat
      BY <3>2, SMT, SMTT(60) DEF Generations
    <3>4. held[s].gen # gen + 1 /\ held[s].gen <= gen + 1
      BY <2>3, <3>1, <3>3, SMT, SMTT(60)
    <3>. QED  BY <1>1, <2>5, <2>13, <3>1, <3>2, <3>4 DEF Holds
  <2>22. HeldOK'
    BY <1>0, <1>1, <2>7, <2>21 DEF HeldOK
  <2>23. \A g, n : InFlight(g, n)' = InFlight(g, n)
    <3>1. \A x \in Schedulers : (Executing(x)' <=> Executing(x)) /\ held'[x] = held[x]
      BY <1>1, <2>7 DEF Executing
    <3>. QED  BY <3>1, SameFlight
  <2>24. \A n : InFlight(gen + 1, n) = 0
    <3>. SUFFICES ASSUME NEW n PROVE InFlight(gen + 1, n) = 0
      OBVIOUS
    <3>1. ASSUME NEW s \in Schedulers, Executing(s) PROVE held[s].gen # gen + 1
      BY <1>0, <2>21, <3>1 DEF HeldOK, Executing, Working
    <3>2. Flying(gen + 1, n) = {}
      BY <3>1, SMT, SMTT(60) DEF Flying
    <3>. QED  BY <3>2, FS_EmptySet DEF InFlight, Flying
  <2>25. ASSUME NEW g \in Generations, NEW n \in DOMAIN profiles'[g]
         PROVE  profiles'[g][n].run_count = Counted(profiles'[g][n]) + InFlight(g, n)' + lost'[g][n]
    <3>1. CASE g # gen + 1
      BY <1>0, <2>13, <2>17, <2>23, <2>25, <3>1 DEF RunsAccounted
    <3>2. CASE g = gen + 1
      <4>1. profiles'[g][n] = states[n] /\ n \in DOMAIN load /\ n \in DOMAIN states /\ n \in Names /\ InFlight(g, n)' = 0
        BY <2>12, <2>13, <2>23, <2>24, <2>25, <3>2 DEF IsList
      <4>2. states[n] \in ProfileStates
        BY <2>12, <4>1 DEF IsList
      <4>3. Counted(states[n]) \in Nat /\ states[n].run_count \in Nat
        BY <4>2, CountedType
      <4>4. lost'[g][n] = IF states[n].run_count > 0 THEN lost[gen][n] + InFlight(gen, n) ELSE 0
        BY <2>18, <3>2, <4>1
      <4>5. lost[gen][n] \in Nat /\ InFlight(gen, n) \in Nat
        BY <2>15, <4>1
      <4>6. CASE n \in DOMAIN Current /\ Current[n].config.key = load[n].key
        <5>1. states[n].run_count = Current[n].run_count /\ Counted(states[n]) = Counted(Current[n])
          BY <2>12, <4>1, <4>6 DEF Copied, Counted
        <5>2. Current[n].run_count = Counted(Current[n]) + InFlight(gen, n) + lost[gen][n]
          BY <1>0, <2>5, <4>6 DEF RunsAccounted, Current
        <5>. QED  BY <4>1, <4>3, <4>4, <4>5, <5>1, <5>2, SMT, SMTT(60)
      <4>7. CASE ~ (n \in DOMAIN Current /\ Current[n].config.key = load[n].key)
        <5>1. states[n].run_count = 0 /\ Counted(states[n]) = 0
          BY <2>12, <4>1, <4>7
        <5>. QED  BY <4>1, <4>4, <5>1, SMT, SMTT(60)
      <4>. QED  BY <4>6, <4>7
    <3>. QED  BY <3>1, <3>2
  <2>26. RunsAccounted'
    BY <2>25 DEF RunsAccounted, Counted
  <2>. QED  BY <2>10, <2>14, <2>20, <2>22, <2>26 DEF IInv
<1>. QED  BY <1>2, <1>3, LoadCases

-----------------------------------------------------------------------------
(* The schedulers.                                                          *)

\* What a scheduler at work has in hand.
LEMMA HeldObject ==
    ASSUME IInv, NEW s \in Schedulers, pc[s] \in Working
    PROVE  /\ held[s].gen \in Generations /\ held[s].name \in DOMAIN profiles[held[s].gen] /\ held[s].name \in Names
           /\ held[s] = [gen |-> held[s].gen, name |-> held[s].name]
           /\ Held(s) \in ProfileStates
           /\ Held(s).run_count = Counted(Held(s)) + InFlight(held[s].gen, held[s].name) + lost[held[s].gen][held[s].name]
<1>0. ListsOK /\ HeldOK /\ RunsAccounted
  BY DEF IInv
<1>1. held[s] \in Objects /\ held[s].name \in DOMAIN profiles[held[s].gen]
  BY <1>0 DEF HeldOK, Holds
<1>2. held[s].gen \in Generations /\ held[s].name \in Names /\ held[s] = [gen |-> held[s].gen, name |-> held[s].name]
  BY <1>1 DEF Objects
<1>3. Held(s) \in ProfileStates
  BY <1>0, <1>1, <1>2 DEF ListsOK, IsList, Held
<1>. QED  BY <1>0, <1>1, <1>2, <1>3 DEF RunsAccounted, Held

\* A scheduler moves; it keeps what it holds, or drops it.
LEMMA SchedulerHeld ==
    ASSUME HeldOK, NEW s \in Schedulers, gen' = gen, \A g \in Generations : DOMAIN profiles'[g] = DOMAIN profiles[g],
           \A x \in Schedulers : x # s => pc'[x] = pc[x],
           \/ held' = held /\ (pc'[s] \in Working <=> pc[s] \in Working)
           \/ Drops(s) /\ pc'[s] \notin Working
    PROVE  HeldOK'
<1>1. /\ held \in [Schedulers -> Objects \cup {None}] /\ held' \in [Schedulers -> Objects \cup {None}]
      /\ \A x \in Schedulers : x # s => held'[x] = held[x]
  BY DEF HeldOK, Drops
<1>2. ASSUME NEW x \in Schedulers, held'[x] = held[x], Holds(x) PROVE Holds(x)'
  <2>1. held[x].gen \in Generations
    BY <1>2 DEF Holds, Objects
  <2>. QED  BY <1>2, <2>1 DEF Holds
<1>3. ASSUME NEW x \in Schedulers PROVE IF pc'[x] \in Working THEN Holds(x)' ELSE held'[x] = None
  <2>1. CASE x # s
    BY <1>1, <1>2, <2>1 DEF HeldOK
  <2>2. CASE x = s /\ held' = held /\ (pc'[s] \in Working <=> pc[s] \in Working)
    <3>1. IF pc[x] \in Working THEN Holds(x) ELSE held[x] = None
      BY DEF HeldOK
    <3>. QED  BY <1>2, <2>2, <3>1
  <2>3. CASE x = s /\ Drops(s) /\ pc'[s] \notin Working
    BY <1>1, <1>2, <2>3 DEF HeldOK, Drops
  <2>. QED  BY <2>1, <2>2, <2>3
<1>. QED  BY <1>1, <1>3 DEF HeldOK

\* A scheduler that is not executing moves to where it is not executing.
LEMMA IdleStep ==
    ASSUME IInv, NEW s \in Schedulers, pc[s] \in {"loop", "wait"}, NEW l \in {"loop", "wait", "begin", "dead"}, Goto(s, l), HeldOK',
           UNCHANGED <<profiles, gen, lost, overtaken, enabled, thread, stopEvent, handle, clock, survived>>,
           \A x \in Schedulers : x # s => held'[x] = held[x]
    PROVE  IInv'
<1>0. PlainOK /\ ListsOK /\ PlacesOK /\ RunsAccounted
  BY DEF IInv
<1>1. l \in SchedulerLabels /\ pc[s] # "created"
  BY DEF SchedulerLabels, Working
<1>2. PlacesOK' /\ pc'[s] = l /\ \A x \in Schedulers : x # s => pc'[x] = pc[x]
  BY <1>0, <1>1, SchedulerPlaces
<1>3. PlainOK' /\ ListsOK'
  BY <1>0 DEF PlainOK, ListsOK
<1>4. ~ Executing(s) /\ ~ Executing(s)'
  BY <1>2 DEF Executing
<1>5. \A x \in Schedulers : (Executing(x)' <=> Executing(x)) /\ (Executing(x) => held'[x] = held[x])
  BY <1>2, <1>4 DEF Executing
<1>6. RunsAccounted'
  BY <1>0, <1>5, SameAccounts
<1>. QED  BY <1>2, <1>3, <1>6 DEF IInv

LEMMA LoopInvariant == ASSUME IInv, NEW s \in Schedulers, Loop(s) PROVE IInv'
<1>0. PlacesOK /\ HeldOK /\ PlainOK /\ ListsOK
  BY DEF IInv
<1>1. pc[s] = "loop" /\ UNCHANGED <<profiles, gen, lost, overtaken, enabled, thread, stopEvent, handle, clock, survived>>
  BY DEF Loop, objectVars, serviceVars
<1>2. "dead" \in SchedulerLabels /\ "wait" \in SchedulerLabels /\ pc[s] # "created" /\ pc[s] \notin Working
      /\ "dead" \notin Working /\ "wait" \in Working
  BY <1>1 DEF SchedulerLabels, Working
<1>3. CASE Goto(s, "dead") /\ held' = held
  <2>1. pc'[s] = "dead" /\ \A x \in Schedulers : x # s => pc'[x] = pc[x]
    BY <1>0, <1>1, <1>2, <1>3, SchedulerPlaces
  <2>2. HeldOK'
    BY <1>0, <1>1, <1>2, <1>3, <2>1, SchedulerHeld DEF Drops
  <2>. QED  BY <1>1, <1>3, <2>2, IdleStep
<1>4. ASSUME NEW n \in Names, DueFirst(n, Current), held' = [held EXCEPT ![s] = [gen |-> gen, name |-> n]], Goto(s, "wait")
      PROVE  IInv'
  <2>1. pc'[s] = "wait" /\ \A x \in Schedulers : x # s => pc'[x] = pc[x]
    BY <1>0, <1>1, <1>2, <1>4, SchedulerPlaces
  <2>2. gen \in Generations /\ gen \in Nat
    BY <1>0, SMT, SMTT(60) DEF PlainOK, Generations
  <2>. DEFINE o == [gen |-> gen, name |-> n]
  <2>3. o \in Objects /\ o.gen = gen /\ o.name = n
    BY <2>2 DEF Objects
  <2>4. n \in DOMAIN profiles[gen]
    BY <1>4 DEF DueFirst, Current
  <2>. HIDE DEF o
  <2>5. /\ held' \in [Schedulers -> Objects \cup {None}] /\ held'[s] = o
        /\ \A x \in Schedulers : x # s => held'[x] = held[x]
    BY <1>0, <1>4, <2>3 DEF HeldOK, o
  <2>6. Holds(s)'
    <3>1. gen <= gen
      BY <2>2, SMT, SMTT(60)
    <3>. QED  BY <1>1, <2>3, <2>4, <2>5, <3>1 DEF Holds
  <2>7. ASSUME NEW x \in Schedulers, x # s PROVE Holds(x)' <=> Holds(x)
    BY <1>1, <2>5, <2>7 DEF Holds
  <2>8. HeldOK'
    BY <1>0, <1>2, <2>1, <2>5, <2>6, <2>7 DEF HeldOK
  <2>. QED  BY <1>1, <1>4, <2>5, <2>8, IdleStep
<1>. QED  BY <1>3, <1>4 DEF Loop

LEMMA WaitInvariant == ASSUME IInv, NEW s \in Schedulers, Wait(s) PROVE IInv'
<1>0. PlacesOK /\ HeldOK
  BY DEF IInv
<1>1. pc[s] = "wait" /\ UNCHANGED <<profiles, gen, lost, overtaken, enabled, thread, stopEvent, handle, clock, survived>>
  BY DEF Wait, objectVars, serviceVars
<1>2. PICK l \in {"loop", "begin", "dead"} :
        Goto(s, l) /\ IF l = "begin" THEN held' = held ELSE held' = [held EXCEPT ![s] = None]
  BY DEF Wait, Leave
<1>3. l \in SchedulerLabels /\ pc[s] # "created" /\ pc[s] \in Working /\ (l \in Working <=> l = "begin")
  BY <1>1 DEF SchedulerLabels, Working
<1>4. pc'[s] = l /\ \A x \in Schedulers : x # s => pc'[x] = pc[x]
  BY <1>0, <1>1, <1>2, <1>3, SchedulerPlaces
<1>5. HeldOK'
  BY <1>0, <1>1, <1>2, <1>3, <1>4, SchedulerHeld DEF Drops
<1>6. \A x \in Schedulers : x # s => held'[x] = held[x]
  BY <1>0, <1>2 DEF HeldOK
<1>. QED  BY <1>1, <1>2, <1>5, <1>6, IdleStep

\* What becomes of an object: a run starts, has its target, or has its result.
IsBegun(state, old, due) == state = [old EXCEPT !.run_count = @ + 1, !.next_due = due]

IsResolved(state, old, mode) == state = [old EXCEPT !.mode = mode]

IsResult(state, old, r, result) ==
    \/ state = [old EXCEPT !.last_status = r, !.last_result = result, !.counts[r] = @ + 1]
    \/ state = [old EXCEPT !.last_status = r, !.counts[r] = @ + 1] /\ result = old.last_result

Reported(state, old, r, result) ==
    /\ state \in ProfileStates /\ state.run_count = old.run_count /\ state.next_due = old.next_due
    /\ Counted(state) = Counted(old) + 1 /\ \A q \in Statuses : state.counts[q] >= old.counts[q]
    /\ state.config = old.config /\ state.mode = old.mode
    /\ state.last_status = r /\ state.last_result = result

LEMMA BegunState ==
    ASSUME NEW old \in ProfileStates, NEW due \in Nat, NEW state, IsBegun(state, old, due)
    PROVE  /\ state \in ProfileStates /\ state.run_count = old.run_count + 1 /\ state.next_due = due
           /\ state.counts = old.counts /\ Counted(state) = Counted(old) /\ state.config = old.config
           /\ state.mode = old.mode /\ state.last_status = old.last_status /\ state.last_result = old.last_result
<1>1. old.run_count + 1 \in Nat
  BY SMT, SMTT(60) DEF ProfileStates
<1>2. /\ state.run_count = old.run_count + 1 /\ state.next_due = due
      /\ state.counts = old.counts /\ state.config = old.config
      /\ state.mode = old.mode /\ state.last_status = old.last_status /\ state.last_result = old.last_result
  BY DEF ProfileStates, IsBegun
<1>3. state \in ProfileStates
  BY <1>1 DEF ProfileStates, IsBegun
<1>. QED  BY <1>2, <1>3 DEF Counted

LEMMA ResolvedState ==
    ASSUME NEW old \in ProfileStates, NEW mode \in {"auto", "fixed", "unresolved"}, NEW state,
           IsResolved(state, old, mode)
    PROVE  /\ state \in ProfileStates /\ state.run_count = old.run_count /\ state.next_due = old.next_due
           /\ state.counts = old.counts /\ Counted(state) = Counted(old) /\ state.config = old.config
           /\ state.mode = mode /\ state.last_status = old.last_status /\ state.last_result = old.last_result
<1>1. /\ state.run_count = old.run_count /\ state.next_due = old.next_due
      /\ state.counts = old.counts /\ state.config = old.config
      /\ state.mode = mode /\ state.last_status = old.last_status /\ state.last_result = old.last_result
  BY DEF ProfileStates, IsResolved
<1>2. state \in ProfileStates
  BY DEF ProfileStates, IsResolved
<1>. QED  BY <1>1, <1>2 DEF Counted

\* The result of a run, with or without the phases of a probe.
LEMMA ResultState ==
    ASSUME NEW old \in ProfileStates, NEW r \in Statuses, NEW result \in Statuses \cup {None}, NEW state,
           IsResult(state, old, r, result)
    PROVE  Reported(state, old, r, result)
<1>. DEFINE counts == [old.counts EXCEPT ![r] = @ + 1]
<1>1. /\ counts \in [Statuses -> Nat]
      /\ counts["success"] + counts["partial_success"] + counts["timeout"] + counts["failed"] = Counted(old) + 1
      /\ \A q \in Statuses : counts[q] >= old.counts[q]
  BY CountUp
<1>2. /\ state.run_count = old.run_count /\ state.next_due = old.next_due
      /\ state.counts = counts /\ state.config = old.config /\ state.mode = old.mode
      /\ state.last_status = r /\ state.last_result = result
  BY DEF ProfileStates, IsResult
<1>. HIDE DEF counts
<1>3. state \in ProfileStates
  <2>1. state = [old EXCEPT !.last_status = r, !.last_result = result, !.counts = counts]
        \/ state = [old EXCEPT !.last_status = r, !.counts = counts]
    BY DEF counts, ProfileStates, IsResult
  <2>. QED  BY <1>1, <2>1 DEF ProfileStates
<1>. QED  BY <1>1, <1>2, <1>3 DEF Counted, Reported

\* A scheduler changes the object that it holds.
LEMMA ObjectStep ==
    ASSUME IInv, NEW s \in Schedulers, pc[s] \in Working, NEW l \in SchedulerLabels, Goto(s, l),
           NEW state \in ProfileStates, Update(s, state), overtaken' \in [Names -> [Names -> Nat]],
           UNCHANGED <<gen, lost, enabled, thread, stopEvent, handle, clock, survived>>,
           \/ held' = held /\ l \in Working
           \/ Drops(s) /\ l \notin Working,
           NEW g, NEW n, g = held[s].gen, n = held[s].name,
           \A h, m : h # g \/ m # n => InFlight(h, m)' = InFlight(h, m),
           state.run_count = Counted(state) + InFlight(g, n)' + lost[g][n]
    PROVE  IInv'
<1>0. PlainOK /\ ListsOK /\ PlacesOK /\ HeldOK /\ RunsAccounted
  BY DEF IInv
<1>1. g \in Generations /\ n \in DOMAIN profiles[g] /\ Puts(g, n, state)
  BY HeldObject DEF Update, Puts
<1>2. pc[s] # "created"
  BY DEF Working
<1>3. PlacesOK' /\ pc'[s] = l /\ \A x \in Schedulers : x # s => pc'[x] = pc[x]
  BY <1>0, <1>2, SchedulerPlaces
<1>4. PlainOK'
  BY <1>0 DEF PlainOK
<1>5. ListsOK' /\ Touches(g, n) /\ profiles'[g][n] = state
  BY <1>0, <1>1, ObjectUpdated
<1>6. HeldOK'
  <2>1. \A h \in Generations : DOMAIN profiles'[h] = DOMAIN profiles[h]
    BY <1>5 DEF Touches
  <2>2. \/ held' = held /\ (pc'[s] \in Working <=> pc[s] \in Working)
        \/ Drops(s) /\ pc'[s] \notin Working
    BY <1>3
  <2>3. HeldOK /\ gen' = gen /\ \A x \in Schedulers : x # s => pc'[x] = pc[x]
    BY <1>0, <1>3
  <2>. QED  BY <2>1, <2>2, <2>3, SchedulerHeld
<1>7. \A h \in Generations : DOMAIN profiles[h] \subseteq Names
  BY <1>0 DEF ListsOK, IsList
<1>8. profiles'[g][n].run_count = Counted(profiles'[g][n]) + InFlight(g, n)' + lost'[g][n]
  BY <1>5
<1>10. RunsAccounted'
  <2>1. RunsAccounted /\ g \in Generations /\ n \in DOMAIN profiles[g] /\ Touches(g, n)
    BY <1>0, <1>1, <1>5
  <2>2. \A h \in Generations : \A m \in Names : h # g \/ m # n => lost'[h][m] = lost[h][m]
    OBVIOUS
  <2>. QED  BY <1>7, <1>8, <2>1, <2>2, ObjectAccounted
<1>. QED  BY <1>3, <1>4, <1>5, <1>6, <1>10 DEF IInv

LEMMA OvertakingType ==
    ASSUME IInv, NEW s \in Schedulers
    PROVE  Overtaking(s) \in [Names -> [Names -> Nat]]
<1>1. overtaken \in [Names -> [Names -> Nat]]
  BY DEF IInv, PlainOK
<1>2. ASSUME NEW n \in Names, NEW m PROVE [overtaken[n] EXCEPT ![m] = @ + 1] \in [Names -> Nat]
  <2>. DEFINE f == overtaken[n]
  <2>1. f \in [Names -> Nat]
    BY <1>1
  <2>. HIDE DEF f
  <2>2. [f EXCEPT ![m] = @ + 1] \in [Names -> Nat]
    <3>1. m \in Names => f[m] + 1 \in Nat
      BY <2>1, SMT, SMTT(60)
    <3>. QED  BY <2>1, <3>1
  <2>. QED  BY <2>2 DEF f
<1>3. [m \in Names |-> 0] \in [Names -> Nat]
  OBVIOUS
<1>. QED  BY <1>1, <1>2, <1>3 DEF Overtaking

LEMMA BeginInvariant == ASSUME IInv, NEW s \in Schedulers, Begin(s) PROVE IInv'
<1>0. PlacesOK /\ PlainOK
  BY DEF IInv
<1>. DEFINE state == [Held(s) EXCEPT !.run_count = @ + 1, !.next_due = clock + Interval]
<1>1. /\ pc[s] = "begin" /\ Update(s, state) /\ overtaken' = Overtaking(s) /\ Goto(s, "resolve")
      /\ UNCHANGED <<gen, lost, enabled, thread, stopEvent, held, handle, clock, survived>>
  BY DEF Begin, serviceVars
<1>2. pc[s] \in Working /\ "resolve" \in Working /\ "resolve" \in SchedulerLabels /\ pc[s] # "created"
  BY <1>1 DEF Working, SchedulerLabels
<1>a. PICK g, n : g = held[s].gen /\ n = held[s].name
  OBVIOUS
<1>3. clock + Interval \in Nat
  BY <1>0, TimeAssumption, SMT, SMTT(60) DEF PlainOK
<1>4. Held(s) \in ProfileStates /\ held[s] = [gen |-> g, name |-> n] /\ lost[g][n] \in Nat
      /\ Held(s).run_count = Counted(Held(s)) + InFlight(g, n) + lost[g][n]
  BY <1>a, <1>0, <1>2, HeldObject DEF PlainOK
<1>5. state \in ProfileStates /\ state.run_count = Held(s).run_count + 1 /\ Counted(state) = Counted(Held(s))
  <2>1. IsBegun(state, Held(s), clock + Interval)
    BY DEF IsBegun
  <2>. HIDE DEF state
  <2>. QED  BY <1>3, <1>4, <2>1, BegunState, SMT, SMTT(60)
<1>6. pc'[s] = "resolve" /\ \A x \in Schedulers : x # s => pc'[x] = pc[x]
  BY <1>0, <1>1, <1>2, SchedulerPlaces
<1>7. ~ Executing(s) /\ Executing(s)'
  BY <1>1, <1>6 DEF Executing
<1>8. /\ InFlight(g, n)' = InFlight(g, n) + 1
      /\ \A h, m : h # g \/ m # n => InFlight(h, m)' = InFlight(h, m)
  <2>1. held[s] = [gen |-> g, name |-> n] /\ held' = held
    BY <1>1, <1>4
  <2>. QED  BY <1>6, <1>7, <2>1, Enters, SMT, SMTT(60)
<1>9. InFlight(g, n) \in Nat /\ Counted(Held(s)) \in Nat
  BY <1>4, InFlightType, CountedType
<1>. HIDE DEF state
<1>10. state.run_count = Counted(state) + InFlight(g, n)' + lost[g][n]
  BY <1>4, <1>5, <1>8, <1>9, SMT, SMTT(60)
<1>11. overtaken' \in [Names -> [Names -> Nat]]
  BY <1>1, OvertakingType
<1>. QED  BY <1>1, <1>2, <1>5, <1>8, <1>10, <1>11, <1>a, ObjectStep, SMT, SMTT(60)

LEMMA ResolveInvariant == ASSUME IInv, NEW s \in Schedulers, Resolve(s) PROVE IInv'
<1>0. PlacesOK /\ PlainOK /\ ListsOK /\ HeldOK /\ RunsAccounted
  BY DEF IInv
<1>a. PICK g, n : g = held[s].gen /\ n = held[s].name
  OBVIOUS
<1>1. pc[s] = "resolve" /\ UNCHANGED <<gen, overtaken, enabled, thread, stopEvent, handle, clock, survived>>
  BY DEF Resolve, serviceVars
<1>2. pc[s] \in Working /\ pc[s] # "created" /\ Executing(s)
  BY <1>1 DEF Working, Executing
<1>3. /\ Held(s) \in ProfileStates /\ held[s] = [gen |-> g, name |-> n] /\ lost[g][n] \in Nat
      /\ Held(s).run_count = Counted(Held(s)) + InFlight(g, n) + lost[g][n]
      /\ g \in Generations /\ n \in Names /\ n \in DOMAIN profiles[g]
  BY <1>a, <1>0, <1>2, HeldObject DEF PlainOK
<1>4. CASE /\ Goto(s, "crashed") /\ held' = [held EXCEPT ![s] = None] /\ profiles' = profiles
           /\ lost' = [lost EXCEPT ![held[s].gen][held[s].name] = @ + 1]
  <2>1. "crashed" \in SchedulerLabels /\ "crashed" \notin Working
    BY DEF SchedulerLabels, Working
  <2>2. PlacesOK' /\ pc'[s] = "crashed" /\ \A x \in Schedulers : x # s => pc'[x] = pc[x]
    BY <1>0, <1>1, <1>2, <1>4, <2>1, SchedulerPlaces
  <2>3. HeldOK' /\ \A x \in Schedulers : x # s => held'[x] = held[x]
    <3>1. HeldOK'
      BY <1>0, <1>1, <1>4, <2>1, <2>2, SchedulerHeld DEF Drops
    <3>. QED  BY <1>0, <1>4, <3>1 DEF HeldOK
  <2>4. ~ Executing(s)'
    BY <2>2 DEF Executing
  <2>5. /\ InFlight(g, n)' = InFlight(g, n) - 1
        /\ \A h, m : h # g \/ m # n => InFlight(h, m)' = InFlight(h, m)
    <3>1. held[s] = [gen |-> g, name |-> n] /\ Executing(s)
      BY <1>2, <1>3
    <3>2. \A x \in Schedulers : x # s => pc'[x] = pc[x] /\ held'[x] = held[x]
      BY <2>2, <2>3
    <3>. QED  BY <2>4, <3>1, <3>2, Leaves, SMT, SMTT(60)
  <2>6. /\ lost' \in [Generations -> [Names -> Nat]] /\ lost'[g][n] = lost[g][n] + 1
        /\ \A h \in Generations : \A m \in Names : h # g \/ m # n => lost'[h][m] = lost[h][m]
    <3>1. lost \in [Generations -> [Names -> Nat]] /\ lost' = [lost EXCEPT ![g][n] = lost[g][n] + 1]
      BY <1>a, <1>0, <1>4 DEF PlainOK
    <3>2. lost[g][n] + 1 \in Nat
      BY <1>3, SMT, SMTT(60)
    <3>. QED  BY <1>3, <3>1, <3>2
  <2>7. PlainOK'
    BY <1>0, <1>1, <2>6 DEF PlainOK
  <2>8. ListsOK' /\ Touches(g, n)
    BY <1>0, <1>4 DEF ListsOK, Touches
  <2>9. Held(s) = profiles'[g][n] /\ InFlight(g, n) \in Nat /\ Counted(Held(s)) \in Nat
    BY <1>a, <1>3, <1>4, InFlightType, CountedType DEF Held
  <2>10. profiles'[g][n].run_count = Counted(profiles'[g][n]) + InFlight(g, n)' + lost'[g][n]
    BY <1>3, <2>5, <2>6, <2>9, SMT, SMTT(60)
  <2>11. \A h \in Generations : DOMAIN profiles[h] \subseteq Names
    BY <1>0 DEF ListsOK, IsList
  <2>12. RunsAccounted'
    <3>1. RunsAccounted /\ g \in Generations /\ n \in DOMAIN profiles[g] /\ Touches(g, n)
      BY <1>0, <1>3, <2>8
    <3>. QED  BY <2>5, <2>6, <2>10, <2>11, <3>1, ObjectAccounted
  <2>. QED  BY <2>2, <2>3, <2>7, <2>8, <2>12 DEF IInv
<1>5. ASSUME NEW mode \in {"auto", "fixed", "unresolved"}, Goto(s, IF mode = "unresolved" THEN "unresolved" ELSE "probe"),
             Update(s, [Held(s) EXCEPT !.mode = mode]), lost' = lost, held' = held
      PROVE  IInv'
  <2>. DEFINE state == [Held(s) EXCEPT !.mode = mode]
              l == IF mode = "unresolved" THEN "unresolved" ELSE "probe"
  <2>1. l \in SchedulerLabels /\ l \in Working /\ l \in {"unresolved", "probe"}
    BY DEF SchedulerLabels, Working
  <2>2. state \in ProfileStates /\ state.run_count = Held(s).run_count /\ Counted(state) = Counted(Held(s))
    <3>1. IsResolved(state, Held(s), mode)
      BY DEF IsResolved
    <3>. HIDE DEF state
    <3>. QED  BY <1>3, <3>1, ResolvedState, SMT, SMTT(60)
  <2>. HIDE DEF state, l
  <2>3. Goto(s, l) /\ Update(s, state)
    BY <1>5 DEF l, state
  <2>4. pc'[s] = l /\ \A x \in Schedulers : x # s => pc'[x] = pc[x]
    BY <1>0, <1>1, <1>2, <2>1, <2>3, SchedulerPlaces
  <2>5. \A x \in Schedulers : (Executing(x)' <=> Executing(x)) /\ held'[x] = held[x]
    BY <1>1, <1>5, <2>1, <2>4 DEF Executing
  <2>6. \A h, m : InFlight(h, m)' = InFlight(h, m)
    BY <2>5, SameFlight
  <2>7. state.run_count = Counted(state) + InFlight(g, n)' + lost[g][n]
    <3>1. Held(s).run_count = Counted(Held(s)) + InFlight(g, n) + lost[g][n]
      BY <1>3
    <3>. QED  BY <2>2, <2>6, <3>1
  <2>8. overtaken' \in [Names -> [Names -> Nat]]
    BY <1>0, <1>1 DEF PlainOK
  <2>. QED  BY <1>1, <1>2, <1>5, <2>1, <2>2, <2>3, <2>6, <2>7, <2>8, <1>a, ObjectStep
<1>6. PICK mode \in Resolutions(Held(s).config) :
        IF mode = "raised"
        THEN /\ Leave(s, "crashed")
             /\ lost' = [lost EXCEPT ![held[s].gen][held[s].name] = @ + 1]
             /\ UNCHANGED profiles
        ELSE /\ Goto(s, IF mode = "unresolved" THEN "unresolved" ELSE "probe")
             /\ Update(s, [Held(s) EXCEPT !.mode = mode])
             /\ UNCHANGED <<lost, held>>
  BY DEF Resolve
<1>7. mode = "raised" \/ mode \in {"auto", "fixed", "unresolved"}
  BY DEF Resolutions
<1>8. CASE mode = "raised"
  BY <1>4, <1>6, <1>8 DEF Leave
<1>9. CASE mode # "raised"
  <2>1. mode \in {"auto", "fixed", "unresolved"}
    BY <1>7, <1>9
  <2>2. /\ Goto(s, IF mode = "unresolved" THEN "unresolved" ELSE "probe")
        /\ Update(s, [Held(s) EXCEPT !.mode = mode]) /\ lost' = lost /\ held' = held
    BY <1>6, <1>9
  <2>. QED  BY <1>5, <2>1, <2>2
<1>. QED  BY <1>8, <1>9

\* A run ends with a result.
LEMMA ResultInvariant ==
    ASSUME IInv, NEW s \in Schedulers, pc[s] \in {"unresolved", "probe"}, Leave(s, "loop"),
           UNCHANGED <<gen, lost, overtaken, enabled, thread, stopEvent, handle, clock, survived>>,
           NEW state \in ProfileStates, Update(s, state), state.run_count = Held(s).run_count, Counted(state) = Counted(Held(s)) + 1
    PROVE  IInv'
<1>0. PlacesOK /\ PlainOK /\ HeldOK
  BY DEF IInv
<1>a. PICK g, n : g = held[s].gen /\ n = held[s].name
  OBVIOUS
<1>1. Goto(s, "loop") /\ Drops(s)
  BY DEF Leave, Drops
<1>2. pc[s] \in Working /\ pc[s] # "created" /\ Executing(s) /\ "loop" \in SchedulerLabels /\ "loop" \notin Working
  BY DEF Working, Executing, SchedulerLabels
<1>3. /\ Held(s) \in ProfileStates /\ held[s] = [gen |-> g, name |-> n] /\ lost[g][n] \in Nat
      /\ Held(s).run_count = Counted(Held(s)) + InFlight(g, n) + lost[g][n]
  BY <1>a, <1>0, <1>2, HeldObject DEF PlainOK
<1>4. pc'[s] = "loop" /\ \A x \in Schedulers : x # s => pc'[x] = pc[x]
  BY <1>0, <1>1, <1>2, SchedulerPlaces
<1>5. \A x \in Schedulers : x # s => held'[x] = held[x]
  BY <1>0, <1>1 DEF HeldOK, Drops
<1>6. ~ Executing(s)'
  BY <1>4 DEF Executing
<1>7. /\ InFlight(g, n)' = InFlight(g, n) - 1
      /\ \A h, m : h # g \/ m # n => InFlight(h, m)' = InFlight(h, m)
  <2>1. held[s] = [gen |-> g, name |-> n] /\ Executing(s)
    BY <1>2, <1>3
  <2>2. \A x \in Schedulers : x # s => pc'[x] = pc[x] /\ held'[x] = held[x]
    BY <1>4, <1>5
  <2>. QED  BY <1>6, <2>1, <2>2, Leaves, SMT, SMTT(60)
<1>8. InFlight(g, n) \in Nat /\ Counted(Held(s)) \in Nat
  BY <1>3, InFlightType, CountedType
<1>9. state.run_count = Counted(state) + InFlight(g, n)' + lost[g][n]
  BY <1>3, <1>7, <1>8, SMT, SMTT(60)
<1>10. overtaken' \in [Names -> [Names -> Nat]]
  BY <1>0 DEF PlainOK
<1>11. \A h, m : h # g \/ m # n => InFlight(h, m)' = InFlight(h, m)
  BY <1>7
<1>. QED  BY <1>1, <1>2, <1>9, <1>10, <1>11, <1>a, ObjectStep

\* The object after the end of a run.
Finished(s, state) ==
    /\ Leave(s, "loop") /\ Update(s, state) /\ state \in ProfileStates
    /\ UNCHANGED <<gen, lost, overtaken, enabled, thread, stopEvent, handle, clock, survived>>
    /\ state.run_count = Held(s).run_count /\ Counted(state) = Counted(Held(s)) + 1
    /\ \A q \in Statuses : state.counts[q] >= Held(s).counts[q]
    /\ state.config = Held(s).config /\ state.next_due = Held(s).next_due /\ state.mode = Held(s).mode

LEMMA UnresolvedEnds ==
    ASSUME IInv, NEW s \in Schedulers, Unresolved(s)
    PROVE  pc[s] = "unresolved" /\ \E state : Finished(s, state) /\ state.last_status = "failed"
<1>. DEFINE state == [Held(s) EXCEPT !.last_status = "failed", !.counts["failed"] = @ + 1]
<1>1. /\ pc[s] = "unresolved" /\ Leave(s, "loop") /\ Update(s, state)
      /\ UNCHANGED <<gen, lost, overtaken, enabled, thread, stopEvent, handle, clock, survived>>
  BY DEF Unresolved, serviceVars
<1>2. pc[s] \in Working /\ "failed" \in Statuses
  BY <1>1 DEF Working, Statuses
<1>3. Held(s) \in ProfileStates
  BY <1>2, HeldObject
<1>4. Held(s).last_result \in Statuses \cup {None}
  BY <1>3 DEF ProfileStates
<1>5. /\ state \in ProfileStates /\ state.run_count = Held(s).run_count /\ state.next_due = Held(s).next_due
      /\ Counted(state) = Counted(Held(s)) + 1 /\ \A q \in Statuses : state.counts[q] >= Held(s).counts[q]
      /\ state.config = Held(s).config /\ state.mode = Held(s).mode /\ state.last_status = "failed"
  <2>1. IsResult(state, Held(s), "failed", Held(s).last_result)
    BY DEF IsResult
  <2>. HIDE DEF state
  <2>2. Reported(state, Held(s), "failed", Held(s).last_result)
    BY <1>2, <1>3, <1>4, <2>1, ResultState
  <2>. QED  BY <2>2 DEF Reported
<1>. HIDE DEF state
<1>6. Finished(s, state)
  BY <1>1, <1>5 DEF Finished
<1>. QED  BY <1>1, <1>5, <1>6

LEMMA ProbeEnds ==
    ASSUME IInv, NEW s \in Schedulers, Probe(s)
    PROVE  pc[s] = "probe" /\ \E state : Finished(s, state) /\ state.last_result \in {None, state.last_status}
<1>1. /\ pc[s] = "probe" /\ Leave(s, "loop")
      /\ UNCHANGED <<gen, lost, overtaken, enabled, thread, stopEvent, handle, clock, survived>>
  BY DEF Probe, serviceVars
<1>2. pc[s] \in Working /\ "failed" \in Statuses
  BY <1>1 DEF Working, Statuses
<1>3. Held(s) \in ProfileStates
  BY <1>2, HeldObject
<1>4. ASSUME NEW r \in Statuses, NEW result \in {None, r},
             Update(s, [Held(s) EXCEPT !.last_status = r, !.last_result = result, !.counts[r] = @ + 1])
      PROVE  \E state : Finished(s, state) /\ state.last_result \in {None, state.last_status}
  <2>. DEFINE state == [Held(s) EXCEPT !.last_status = r, !.last_result = result, !.counts[r] = @ + 1]
  <2>1. result \in Statuses \cup {None}
    OBVIOUS
  <2>2. /\ state \in ProfileStates /\ state.run_count = Held(s).run_count /\ state.next_due = Held(s).next_due
        /\ Counted(state) = Counted(Held(s)) + 1 /\ \A q \in Statuses : state.counts[q] >= Held(s).counts[q]
        /\ state.config = Held(s).config /\ state.mode = Held(s).mode /\ state.last_status = r /\ state.last_result = result
    <3>1. IsResult(state, Held(s), r, result)
      BY DEF IsResult
    <3>. HIDE DEF state
    <3>2. Reported(state, Held(s), r, result)
      BY <1>3, <2>1, <3>1, ResultState
    <3>. QED  BY <3>2 DEF Reported
  <2>3. Update(s, state)
    BY <1>4
  <2>. HIDE DEF state
  <2>4. Finished(s, state)
    BY <1>1, <2>2, <2>3 DEF Finished
  <2>. QED  BY <2>2, <2>4
<1>5. \/ \E r \in Results : Update(s, [Held(s) EXCEPT !.last_status = r, !.last_result = r, !.counts[r] = @ + 1])
      \/ Update(s, [Held(s) EXCEPT !.last_status = "failed", !.last_result = None, !.counts["failed"] = @ + 1])
  BY DEF Probe
<1>6. \A r \in Results : r \in Statuses
  BY ThreadsAssumption
<1>. QED  BY <1>1, <1>2, <1>4, <1>5, <1>6

LEMMA FinishedInvariant ==
    ASSUME IInv, NEW s \in Schedulers, pc[s] \in {"unresolved", "probe"}, NEW state, Finished(s, state)
    PROVE  IInv'
BY ResultInvariant DEF Finished

LEMMA TickInvariant == ASSUME IInv, Tick PROVE IInv'
<1>1. clock' = clock + 1 /\ UNCHANGED <<profiles, gen, lost, overtaken, enabled, thread, stopEvent, pc, held, handle, survived>>
  BY DEF Tick, objectVars, serviceVars
<1>2. clock' \in Nat
  BY <1>1, SMT, SMTT(60) DEF IInv, PlainOK
<1>3. PlainOK'
  BY <1>1, <1>2 DEF IInv, PlainOK
<1>4. PlacesOK'
  BY <1>1 DEF IInv, PlacesOK, PcOK, LaunchOK, BoundOK, Loading
<1>. QED  BY <1>1, <1>3, <1>4, QuietStep

LEMMA EmptyList == DOMAIN NoStates = {} /\ IsList(NoStates)
BY DEF NoStates, IsList

LEMMA FirstList ==
    ASSUME NEW states, states = ScheduleInitialRuns(BuildProfileStates(FirstLoad, NoStates), 0)
    PROVE  /\ IsList(states)
           /\ \A n \in DOMAIN states : states[n].run_count = 0 /\ Counted(states[n]) = 0 /\ states[n].last_result = None
<1>1. 0 \in Nat
  OBVIOUS
<1>2. Fits(states, FirstLoad, NoStates)
  BY <1>1, LoadsAssumption, EmptyList, LoadedStates
<1>. QED  BY <1>2, EmptyList DEF Fits

LEMMA InitInvariant == ASSUME Init PROVE IInv
<1>. DEFINE states == ScheduleInitialRuns(BuildProfileStates(FirstLoad, NoStates), 0)
<1>1. /\ enabled \in BOOLEAN /\ gen = 0 /\ clock = 0 /\ thread = None /\ stopEvent = FALSE /\ survived = FALSE
      /\ profiles = [g \in Generations |-> IF g = 0 THEN states ELSE NoStates]
      /\ pc = [t \in Schedulers \cup Waiters |->
                  IF t \in Schedulers THEN "none" ELSE IF t = Main THEN "check" ELSE "idle"]
      /\ held = [s \in Schedulers |-> None] /\ handle = [c \in Waiters |-> None]
      /\ lost = [g \in Generations |-> [n \in Names |-> 0]]
      /\ overtaken = [n \in Names |-> [m \in Names |-> 0]]
  BY DEF Init
<1>2. IsList(states) /\ \A n \in DOMAIN states : states[n].run_count = 0 /\ Counted(states[n]) = 0
  <2>1. states = ScheduleInitialRuns(BuildProfileStates(FirstLoad, NoStates), 0)
    OBVIOUS
  <2>. HIDE DEF states
  <2>. QED  BY <2>1, FirstList
<1>. HIDE DEF states
<1>3. 0 \in Generations /\ MaxLoads \in Nat
  BY TimeAssumption, SMT, SMTT(60) DEF Generations
<1>4. PlainOK
  <2>1. [n \in Names |-> 0] \in [Names -> Nat]
    OBVIOUS
  <2>2. 0 \in Nat /\ TRUE \in BOOLEAN /\ FALSE \in BOOLEAN
    OBVIOUS
  <2>. QED  BY <1>1, <1>3, <2>1, <2>2 DEF PlainOK
<1>5. ListsOK
  BY <1>1, <1>2, EmptyList DEF ListsOK
<1>6. /\ \A s \in Schedulers : pc[s] = "none"
      /\ \A c \in Waiters : pc[c] = IF c = Main THEN "check" ELSE "idle"
  BY <1>1, Apart
<1>7. PcOK
  <2>1. pc \in [Schedulers \cup Waiters -> SchedulerLabels \cup WaiterLabels]
    BY <1>1 DEF SchedulerLabels, WaiterLabels
  <2>. QED  BY <1>6, <2>1, Apart DEF PcOK, SchedulerLabels, WaiterLabels
<1>8. LaunchOK
  BY <1>6 DEF LaunchOK
<1>9. BoundOK
  <2>1. Loading = {}
    BY <1>6, Apart DEF Loading
  <2>2. Cardinality(Loading) = 0
    BY <2>1, FS_EmptySet
  <2>. QED  BY <1>1, <1>3, <2>2, SMT, SMTT(60) DEF BoundOK
<1>10. HeldOK
  BY <1>1, <1>6 DEF HeldOK, Working
<1>11. \A g, n : InFlight(g, n) = 0
  <2>. SUFFICES ASSUME NEW g, NEW n PROVE InFlight(g, n) = 0
    OBVIOUS
  <2>1. Flying(g, n) = {}
    BY <1>6 DEF Flying, Executing
  <2>. QED  BY <2>1, FS_EmptySet DEF InFlight, Flying
<1>12. ASSUME NEW g \in Generations, NEW n \in DOMAIN profiles[g]
       PROVE  profiles[g][n].run_count = Counted(profiles[g][n]) + InFlight(g, n) + lost[g][n]
  <2>1. g = 0 /\ profiles[g] = states
    BY <1>1, <1>12, EmptyList
  <2>2. n \in Names
    BY <1>2, <1>12, <2>1 DEF IsList
  <2>3. lost[g][n] = 0
    BY <1>1, <2>2
  <2>4. profiles[g][n].run_count = 0 /\ Counted(profiles[g][n]) = 0
    BY <1>2, <1>12, <2>1
  <2>. QED  BY <1>11, <2>3, <2>4, SMT, SMTT(60)
<1>13. RunsAccounted
  BY <1>12 DEF RunsAccounted
<1>. QED  BY <1>4, <1>5, <1>7, <1>8, <1>9, <1>10, <1>13 DEF IInv, PlacesOK

LEMMA NextInvariant == ASSUME IInv, [Next]_vars PROVE IInv'
<1>1. ASSUME NEW c \in Waiters, Stop(c) \/ CallerStep(c) PROVE IInv'
  BY <1>1, StopInvariant, JoinInvariant, LoadInvariant, CheckInvariant, StartInvariant, LaunchInvariant DEF CallerStep
<1>2. ASSUME NEW s \in Schedulers, SchedulerStep(s) \/ CommandStep(s) PROVE IInv'
  <2>1. CASE Unresolved(s)
    BY <2>1, UnresolvedEnds, FinishedInvariant
  <2>2. CASE Probe(s)
    BY <2>2, ProbeEnds, FinishedInvariant
  <2>. QED  BY <1>2, <2>1, <2>2, LoopInvariant, WaitInvariant, BeginInvariant, ResolveInvariant DEF SchedulerStep, CommandStep
<1>3. CASE UNCHANGED vars
  <2>1. UNCHANGED <<profiles, gen, lost, overtaken, enabled, thread, stopEvent, pc, held, handle, clock, survived>>
    BY <1>3 DEF vars, objectVars, serviceVars
  <2>2. PlainOK'
    BY <2>1 DEF IInv, PlainOK
  <2>3. PlacesOK'
    BY <2>1 DEF IInv, PlacesOK, PcOK, LaunchOK, BoundOK, Loading
  <2>. QED  BY <2>1, <2>2, <2>3, QuietStep
<1>. QED  BY <1>1, <1>2, <1>3, TickInvariant DEF Next

LEMMA Inductive == Spec => []IInv
<1>1. Init => IInv
  BY InitInvariant
<1>2. IInv /\ [Next]_vars => IInv'
  BY NextInvariant
<1>. QED  BY <1>1, <1>2, PTL DEF Spec

\* The types of the service's state, and that a scheduler at work holds an
\* object that exists.
THEOREM TypesCorrect == Spec => []TypeOK
<1>1. ASSUME IInv PROVE TypeOK
  <2>1. PlainOK /\ ListsOK /\ HeldOK
    BY <1>1 DEF IInv
  <2>2. \A s \in Schedulers : held[s] # None => held[s].name \in DOMAIN profiles[held[s].gen]
    BY <2>1 DEF HeldOK, Holds
  <2>. QED  BY <2>1, <2>2 DEF TypeOK, PlainOK, ListsOK, IsList, HeldOK
<1>. QED  BY <1>1, Inductive, PTL

\* _execute_profile and reload(): every run that was counted when it started has
\* been counted by its result, is in flight, or was lost with its scheduler or by
\* a reload that copied the counters, for any number of schedulers and reloads.
THEOREM RunsAreAccounted == Spec => []RunsAccounted
<1>1. IInv => RunsAccounted
  BY DEF IInv
<1>. QED  BY <1>1, Inductive, PTL



\* The current list after a change of one object.
LEMMA CurrentAfter ==
    ASSUME IInv, NEW s \in Schedulers, pc[s] \in Working, NEW state \in ProfileStates, Update(s, state), gen' = gen
    PROVE  /\ DOMAIN Current' = DOMAIN Current /\ profiles'[held[s].gen][held[s].name] = state
           /\ \A n \in DOMAIN Current :
               /\ Current[n] \in ProfileStates
               /\ IF held[s] = [gen |-> gen, name |-> n]
                  THEN Current'[n] = state /\ Held(s) = Current[n] ELSE Current'[n] = Current[n]
<1>. DEFINE g == held[s].gen
            m == held[s].name
<1>0. gen \in Generations /\ ListsOK
  BY DEF IInv, PlainOK
<1>1. /\ g \in Generations /\ m \in DOMAIN profiles[g] /\ Puts(g, m, state)
      /\ held[s] = [gen |-> g, name |-> m] /\ Held(s) = profiles[g][m]
  BY HeldObject DEF Update, Held, Puts
<1>. HIDE DEF g, m
<1>2. Touches(g, m) /\ profiles'[g][m] = state
  BY <1>0, <1>1, ObjectUpdated
<1>3. DOMAIN Current' = DOMAIN Current
  BY <1>0, <1>2 DEF Touches, Current
<1>4. ASSUME NEW n \in DOMAIN Current
      PROVE  /\ Current[n] \in ProfileStates
             /\ IF held[s] = [gen |-> gen, name |-> n]
                THEN Current'[n] = state /\ Held(s) = Current[n] ELSE Current'[n] = Current[n]
  <2>1. Current[n] \in ProfileStates
    BY <1>0 DEF ListsOK, IsList, Current
  <2>2. held[s] = [gen |-> gen, name |-> n] <=> g = gen /\ m = n
    BY <1>1, SMT, SMTT(60)
  <2>3. CASE g = gen /\ m = n
    BY <1>1, <1>2, <2>1, <2>2, <2>3 DEF Current
  <2>4. CASE g # gen \/ m # n
    BY <1>0, <1>2, <2>1, <2>2, <2>4 DEF Current, Touches
  <2>. QED  BY <2>3, <2>4
<1>. QED  BY <1>2, <1>3, <1>4 DEF g, m

-----------------------------------------------------------------------------
(* Counters.                                                                *)

Grows(new, old) == new.run_count >= old.run_count /\ \A r \in Statuses : new.counts[r] >= old.counts[r]

LEMMA GrowsReflexive == ASSUME NEW state \in ProfileStates, NEW new, new.run_count = state.run_count, new.counts = state.counts
                        PROVE  Grows(new, state)
<1>1. state.run_count \in Nat /\ \A r \in Statuses : state.counts[r] \in Nat
  BY CountedType
<1>. QED  BY <1>1, SMT, SMTT(60) DEF Grows

\* What a step does to the objects: nothing, or a new list, or a scheduler counts
\* in the one that it holds.
CountsIn(s) ==
    /\ pc[s] \in Working /\ gen' = gen
    /\ \E state \in ProfileStates : Update(s, state) /\ Grows(state, Held(s))

LEMMA ObjectEffects ==
    ASSUME IInv, [Next]_vars
    PROVE  \/ profiles' = profiles /\ gen' = gen
           \/ \E c \in Waiters, load \in Loads : NewList(c, load)
           \/ \E s \in Schedulers : CountsIn(s)
<1>1. ASSUME NEW c \in Waiters, Load(c)
      PROVE  (profiles' = profiles /\ gen' = gen) \/ \E load \in Loads : NewList(c, load)
  BY <1>1, LoadCases
<1>2. ASSUME NEW c \in Waiters, Stop(c) \/ Join(c) \/ CheckEnabled(c) \/ Start(c) \/ Launch(c)
      PROVE  profiles' = profiles /\ gen' = gen
  BY <1>2 DEF Stop, Join, CheckEnabled, Start, Launch, objectVars
<1>3. ASSUME NEW s \in Schedulers, Loop(s) \/ Wait(s) PROVE profiles' = profiles /\ gen' = gen
  BY <1>3 DEF Loop, Wait, objectVars
<1>4. ASSUME NEW s \in Schedulers, Begin(s) PROVE CountsIn(s)
  <2>. DEFINE state == [Held(s) EXCEPT !.run_count = @ + 1, !.next_due = clock + Interval]
  <2>1. pc[s] \in Working /\ gen' = gen /\ Update(s, state)
    BY <1>4 DEF Begin, Working
  <2>2. Held(s) \in ProfileStates
    BY <2>1, HeldObject
  <2>3. clock + Interval \in Nat
    BY TimeAssumption, SMT, SMTT(60) DEF IInv, PlainOK
  <2>4. state \in ProfileStates /\ state.run_count = Held(s).run_count + 1 /\ state.counts = Held(s).counts
    <3>1. IsBegun(state, Held(s), clock + Interval)
      BY DEF IsBegun
    <3>. HIDE DEF state
    <3>. QED  BY <2>2, <2>3, <3>1, BegunState, SMT, SMTT(60)
  <2>. HIDE DEF state
  <2>5. Held(s).run_count \in Nat /\ \A r \in Statuses : Held(s).counts[r] \in Nat
    BY <2>2, CountedType
  <2>6. Grows(state, Held(s))
    BY <2>4, <2>5, SMT, SMTT(60) DEF Grows
  <2>. QED  BY <2>1, <2>4, <2>6 DEF CountsIn
<1>5. ASSUME NEW s \in Schedulers, Resolve(s) PROVE (profiles' = profiles /\ gen' = gen) \/ CountsIn(s)
  <2>1. pc[s] \in Working /\ gen' = gen
    BY <1>5 DEF Resolve, Working
  <2>2. Held(s) \in ProfileStates
    BY <2>1, HeldObject
  <2>3. ASSUME NEW mode \in {"auto", "fixed", "unresolved"}, Update(s, [Held(s) EXCEPT !.mode = mode]) PROVE CountsIn(s)
    <3>. DEFINE state == [Held(s) EXCEPT !.mode = mode]
    <3>1. state \in ProfileStates /\ state.run_count = Held(s).run_count /\ state.counts = Held(s).counts
      <4>1. IsResolved(state, Held(s), mode)
        BY DEF IsResolved
      <4>. HIDE DEF state
      <4>. QED  BY <2>2, <4>1, ResolvedState, SMT, SMTT(60)
    <3>2. Update(s, state)
      BY <2>3
    <3>. HIDE DEF state
    <3>3. Grows(state, Held(s))
      BY <2>2, <3>1, GrowsReflexive
    <3>. QED  BY <2>1, <3>1, <3>2, <3>3 DEF CountsIn
  <2>4. profiles' = profiles \/ \E mode \in {"auto", "fixed", "unresolved"} : Update(s, [Held(s) EXCEPT !.mode = mode])
    BY <1>5 DEF Resolve, Resolutions
  <2>. QED  BY <2>1, <2>3, <2>4
<1>6. ASSUME NEW s \in Schedulers, pc[s] \in {"unresolved", "probe"}, NEW state, Finished(s, state) PROVE CountsIn(s)
  <2>1. pc[s] \in Working /\ gen' = gen /\ Update(s, state) /\ state \in ProfileStates
    BY <1>6 DEF Finished, Working
  <2>2. Held(s) \in ProfileStates
    BY <2>1, HeldObject
  <2>3. Held(s).run_count \in Nat /\ state.run_count = Held(s).run_count
    BY <1>6, <2>2, CountedType DEF Finished
  <2>4. state.run_count >= Held(s).run_count
    BY <2>3, SMT, SMTT(60)
  <2>5. Grows(state, Held(s))
    BY <1>6, <2>4 DEF Grows, Finished
  <2>. QED  BY <2>1, <2>5 DEF CountsIn
<1>7. ASSUME NEW s \in Schedulers, Unresolved(s) \/ Probe(s) PROVE CountsIn(s)
  BY <1>6, <1>7, UnresolvedEnds, ProbeEnds
<1>8. ASSUME Tick \/ UNCHANGED vars PROVE profiles' = profiles /\ gen' = gen
  BY <1>8 DEF Tick, vars, objectVars
<1>9. ASSUME Next
      PROVE  \/ \E c \in Waiters : Load(c)
             \/ \E c \in Waiters : Stop(c) \/ Join(c) \/ CheckEnabled(c) \/ Start(c) \/ Launch(c)
             \/ \E s \in Schedulers : Loop(s) \/ Wait(s)
             \/ \E s \in Schedulers : Begin(s)
             \/ \E s \in Schedulers : Resolve(s)
             \/ \E s \in Schedulers : Unresolved(s) \/ Probe(s)
             \/ Tick
  BY <1>9 DEF Next, CallerStep, SchedulerStep, CommandStep
<1>. QED  BY <1>1, <1>2, <1>3, <1>4, <1>5, <1>7, <1>8, <1>9

\* reload() and _execute_profile: neither a reload nor a late result of an old
\* scheduler takes back what has been counted for a profile that still probes the
\* same thing, whatever overlaps.
THEOREM CountersGrow == Spec => CountersOnlyGrow
<1>. DEFINE Kept == \A n \in DOMAIN Current \cap DOMAIN Current' :
                        Current[n].config.key = Current'[n].config.key =>
                            /\ Current'[n].run_count >= Current[n].run_count
                            /\ \A r \in Statuses : Current'[n].counts[r] >= Current[n].counts[r]
<1>1. ASSUME IInv, [Next]_vars PROVE Kept
  <2>. SUFFICES ASSUME NEW n \in DOMAIN Current \cap DOMAIN Current', Current[n].config.key = Current'[n].config.key
                PROVE  Grows(Current'[n], Current[n])
    BY DEF Grows
  <2>1. gen \in Generations /\ ListsOK
    BY <1>1 DEF IInv, PlainOK
  <2>2. Current[n] \in ProfileStates
    BY <2>1 DEF ListsOK, IsList, Current
  <2>3. CASE profiles' = profiles /\ gen' = gen
    <3>1. Current'[n] = Current[n]
      BY <2>3 DEF Current
    <3>. QED  BY <2>2, <3>1, GrowsReflexive
  <2>4. ASSUME NEW c \in Waiters, NEW load \in Loads, NewList(c, load) PROVE Grows(Current'[n], Current[n])
    <3>1. n \in DOMAIN load /\ Current'[n].config = load[n]
      BY <2>4 DEF NewList, Fits
    <3>2. Copied(Current'[n], Current[n])
      BY <2>4, <3>1 DEF NewList, Fits
    <3>. QED  BY <2>2, <3>2, GrowsReflexive DEF Copied
  <2>5. ASSUME NEW s \in Schedulers, CountsIn(s) PROVE Grows(Current'[n], Current[n])
    <3>1. PICK state \in ProfileStates : Update(s, state) /\ Grows(state, Held(s))
      BY <2>5 DEF CountsIn
    <3>2. pc[s] \in Working /\ gen' = gen
      BY <2>5 DEF CountsIn
    <3>3. Current'[n] = Current[n] \/ (Current'[n] = state /\ Held(s) = Current[n])
      <4>1. IInv /\ n \in DOMAIN Current
        BY <1>1
      <4>2. IF held[s] = [gen |-> gen, name |-> n]
            THEN Current'[n] = state /\ Held(s) = Current[n] ELSE Current'[n] = Current[n]
        BY <3>1, <3>2, <4>1, CurrentAfter, SMT, SMTT(60)
      <4>. QED  BY <4>2
    <3>. QED  BY <2>2, <3>1, <3>3, GrowsReflexive
  <2>. QED  BY <1>1, <2>3, <2>4, <2>5, ObjectEffects
<1>2. IInv /\ [Next]_vars => [Kept]_vars
  BY <1>1
<1>. QED  BY <1>2, Inductive, PTL DEF Spec, CountersOnlyGrow

-----------------------------------------------------------------------------
(* One request thread: reloads come one after the other.  As long as no join *)
(* has given up on a scheduler, there is one scheduler at most, and this is  *)
(* what the order of runs and the exported phases rest on.                   *)

OneCaller == \A c, d \in Callers : c = d

OneWaiter == \A c, d \in Waiters : pc[c] # "idle" /\ pc[d] # "idle" => c = d

\* A scheduler that runs is the service's, or stop() is waiting for it.
Sole ==
    /\ \A s \in Alive : s = thread \/ \E c \in Waiters : pc[c] = "join" /\ s = handle[c]
    /\ \A c \in Waiters : pc[c] \in {"join", "load", "check", "start", "off"} => thread = None
    /\ \A c \in Waiters : pc[c] = "launch" => thread = handle[c]

\* The phases of a profile that no scheduler is about to change.
Matching(state) ==
    state.last_result \notin {None, state.last_status} => state.last_status = "failed" /\ state.mode = "unresolved"

Ending(s, n) == pc[s] \in {"unresolved", "probe"} /\ held[s] = [gen |-> gen, name |-> n]

PhasesOK ==
    /\ \A n \in DOMAIN Current : Matching(Current[n]) \/ \E s \in Schedulers : Ending(s, n)
    /\ \A s \in Schedulers : pc[s] = "unresolved" => Held(s).mode = "unresolved"

\* A profile that has overtaken another is due after it, and not about to start.
OvertakenOK ==
    \A n, m \in Names : overtaken[n][m] # 0 =>
        /\ overtaken[n][m] = 1
        /\ n \in DOMAIN Current /\ m \in DOMAIN Current /\ Current[n].config.enabled
        /\ Current[n].next_due < Current[m].next_due
        /\ \A s \in Schedulers : pc[s] \in {"wait", "begin"} => held[s] # [gen |-> gen, name |-> m]

Settled == Sole /\ PhasesOK /\ OvertakenOK
SoleInv == OneWaiter /\ (survived \/ Settled)

LEMMA AliveOnce == ASSUME PlainOK, OneWaiter, Sole PROVE \A s, t \in Alive : s = t
<1>. SUFFICES ASSUME NEW s \in Alive, NEW t \in Alive PROVE s = t
  OBVIOUS
<1>1. s \in Schedulers /\ t \in Schedulers
  BY DEF Alive
<1>2. s # None /\ t # None
  BY <1>1, ThreadsAssumption
<1>3. ASSUME NEW c \in Waiters, pc[c] = "join" PROVE thread = None
  BY <1>3 DEF Sole
<1>4. ASSUME NEW c \in Waiters, NEW d \in Waiters, pc[c] = "join", pc[d] = "join" PROVE c = d
  <2>1. pc[c] # "idle" /\ pc[d] # "idle"
    BY <1>4
  <2>. QED  BY <2>1 DEF OneWaiter
<1>. QED  BY <1>2, <1>3, <1>4 DEF Sole

LEMMA NoneAlive ==
    ASSUME PlacesOK, OneWaiter, Sole, NEW c \in Waiters, pc[c] \in {"load", "check", "start", "launch", "off"}
    PROVE  Alive = {} /\ \A d \in Waiters : d # c => pc[d] = "idle"
<1>1. \A d \in Waiters : d # c => pc[d] = "idle"
  BY DEF OneWaiter
<1>2. ASSUME NEW s \in Alive PROVE FALSE
  <2>1. s \in Schedulers /\ s # None /\ pc[s] # "created"
    BY ThreadsAssumption DEF Alive, IsAlive
  <2>2. s = thread
    BY <1>1 DEF Sole
  <2>3. CASE pc[c] = "launch"
    BY <2>1, <2>2, <2>3 DEF Sole, PlacesOK, LaunchOK
  <2>4. CASE pc[c] # "launch"
    BY <2>1, <2>2, <2>4 DEF Sole
  <2>. QED  BY <2>3, <2>4
<1>. QED  BY <1>1, <1>2

\* A scheduler that works is the only one that runs.
LEMMA NoOther ==
    ASSUME PlainOK, OneWaiter, Sole, NEW s \in Schedulers, pc[s] \in Working \cup {"loop"}
    PROVE  \A x \in Schedulers : x # s => pc[x] \notin Working
<1>. SUFFICES ASSUME NEW x \in Schedulers, x # s, pc[x] \in Working PROVE FALSE
  OBVIOUS
<1>1. s \in Alive /\ x \in Alive
  BY DEF Alive, IsAlive, Working
<1>. QED  BY <1>1, AliveOnce

\* Steps of the schedulers.
LEMMA SoleKept ==
    ASSUME Sole, thread' = thread, handle' = handle, \A c \in Waiters : pc'[c] = pc[c],
           \A s \in Schedulers : IsAlive(s)' => IsAlive(s)
    PROVE  Sole'
<1>1. \A s \in Alive' : s \in Alive
  BY DEF Alive
<1>. QED  BY <1>1 DEF Sole

\* Steps of a waiter after which nothing runs.
LEMMA SoleIdle ==
    ASSUME \A s \in Schedulers : ~ IsAlive(s)', NEW c \in Waiters, \A d \in Waiters : d # c => pc'[d] = "idle",
           pc'[c] \in {"join", "load", "check", "start", "off"} => thread' = None,
           pc'[c] = "launch" => thread' = handle'[c]
    PROVE  Sole'
<1>1. \A s \in Alive' : FALSE
  BY DEF Alive
<1>2. \A d \in Waiters : pc'[d] \in {"join", "load", "check", "start", "off"} => thread' = None
  OBVIOUS
<1>3. \A d \in Waiters : pc'[d] = "launch" => thread' = handle'[d]
  OBVIOUS
<1>. QED  BY <1>1, <1>2, <1>3 DEF Sole

LEMMA PhasesQuiet ==
    ASSUME PhasesOK, profiles' = profiles, gen' = gen,
           \A s \in Schedulers : \/ pc'[s] = pc[s] /\ held'[s] = held[s]
                                 \/ pc[s] \notin {"unresolved", "probe"} /\ pc'[s] \notin {"unresolved", "probe"}
    PROVE  PhasesOK'
<1>1. Current' = Current
  BY DEF Current
<1>2. ASSUME NEW n, NEW s \in Schedulers, Ending(s, n) PROVE Ending(s, n)'
  BY <1>2 DEF Ending
<1>3. ASSUME NEW s \in Schedulers, pc'[s] = "unresolved" PROVE pc[s] = "unresolved" /\ Held(s)' = Held(s)
  BY <1>3 DEF Held
<1>4. \A n \in DOMAIN Current' : Matching(Current'[n]) \/ \E s \in Schedulers : Ending(s, n)'
  BY <1>1, <1>2 DEF PhasesOK
<1>5. \A s \in Schedulers : pc'[s] = "unresolved" => Held(s)'.mode = "unresolved"
  BY <1>3 DEF PhasesOK
<1>. QED  BY <1>4, <1>5 DEF PhasesOK, Matching

LEMMA OvertakenQuiet ==
    ASSUME OvertakenOK, overtaken' = overtaken, gen' = gen, DOMAIN Current' = DOMAIN Current,
           \A n \in DOMAIN Current : Current'[n].config = Current[n].config /\ Current'[n].next_due = Current[n].next_due,
           \A s \in Schedulers : pc'[s] \in {"wait", "begin"} => pc[s] \in {"wait", "begin"} /\ held'[s] = held[s]
    PROVE  OvertakenOK'
<1>. SUFFICES ASSUME NEW n \in Names, NEW m \in Names, overtaken'[n][m] # 0
              PROVE  /\ overtaken'[n][m] = 1
                     /\ n \in DOMAIN Current' /\ m \in DOMAIN Current' /\ Current'[n].config.enabled
                     /\ Current'[n].next_due < Current'[m].next_due
                     /\ \A s \in Schedulers : pc'[s] \in {"wait", "begin"} => held'[s] # [gen |-> gen', name |-> m]
  BY DEF OvertakenOK
<1>1. overtaken[n][m] # 0 /\ overtaken'[n][m] = overtaken[n][m]
  OBVIOUS
<1>2. /\ overtaken[n][m] = 1
      /\ n \in DOMAIN Current /\ m \in DOMAIN Current /\ Current[n].config.enabled
      /\ Current[n].next_due < Current[m].next_due
      /\ \A s \in Schedulers : pc[s] \in {"wait", "begin"} => held[s] # [gen |-> gen, name |-> m]
  BY <1>1 DEF OvertakenOK
<1>3. /\ Current'[n].config = Current[n].config
      /\ Current'[n].next_due = Current[n].next_due /\ Current'[m].next_due = Current[m].next_due
  BY <1>2
<1>4. \A s \in Schedulers : pc'[s] \in {"wait", "begin"} => held'[s] # [gen |-> gen', name |-> m]
  BY <1>2
<1>. QED  BY <1>1, <1>2, <1>3, <1>4

LEMMA WorkQuiet ==
    ASSUME PhasesOK, OvertakenOK, profiles' = profiles, gen' = gen, overtaken' = overtaken, held' = held,
           \A s \in Schedulers : pc'[s] = pc[s] \/ (pc[s] \notin Working /\ pc'[s] \notin Working)
    PROVE  PhasesOK' /\ OvertakenOK'
<1>1. \A s \in Schedulers : \/ pc'[s] = pc[s] /\ held'[s] = held[s]
                            \/ pc[s] \notin {"unresolved", "probe"} /\ pc'[s] \notin {"unresolved", "probe"}
  BY DEF Working
<1>2. \A s \in Schedulers : pc'[s] \in {"wait", "begin"} => pc[s] \in {"wait", "begin"} /\ held'[s] = held[s]
  BY DEF Working
<1>3. Current' = Current
  BY DEF Current
<1>4. PhasesOK'
  BY <1>1, PhasesQuiet
<1>. QED  BY <1>2, <1>3, <1>4, OvertakenQuiet

LEMMA WaiterTurn ==
    ASSUME OneWaiter, NEW c \in Waiters, pc[c] # "idle", \A d \in Waiters : d # c => pc'[d] = pc[d]
    PROVE  OneWaiter' /\ \A d \in Waiters : d # c => pc'[d] = "idle"
<1>1. \A d \in Waiters : d # c => pc'[d] = "idle"
  BY DEF OneWaiter
<1>. QED  BY <1>1 DEF OneWaiter

\* stop(): the thread is in the hands of its caller.
LEMMA StopSole == ASSUME OneCaller, IInv, SoleInv, NEW c \in Waiters, Stop(c) PROVE SoleInv'
<1>0. PlainOK /\ PcOK /\ OneWaiter
  BY DEF IInv, PlacesOK, SoleInv
<1>1. /\ pc[c] = "idle" /\ Goto(c, "join") /\ handle' = [handle EXCEPT ![c] = thread] /\ thread' = None
      /\ UNCHANGED <<profiles, gen, overtaken, held, survived>>
      /\ IF c = Main THEN \A d \in Callers : pc[d] = "idle" ELSE pc[Main] = "idle"
  BY DEF Stop, objectVars
<1>2. "join" \in WaiterLabels /\ "join" # "load"
  BY DEF WaiterLabels
<1>3. /\ pc'[c] = "join" /\ \A d \in Waiters : d # c => pc'[d] = pc[d]
      /\ \A s \in Schedulers : pc'[s] = pc[s]
  BY <1>0, <1>1, <1>2, WaiterPc
<1>4. \A d \in Waiters : pc[d] = "idle"
  <2>1. CASE c = Main
    BY <1>1, <2>1, Apart
  <2>2. CASE c # Main
    BY <1>1, <2>2, Apart DEF OneCaller
  <2>. QED  BY <2>1, <2>2
<1>5. OneWaiter'
  BY <1>3, <1>4 DEF OneWaiter
<1>6. ASSUME ~ survived' PROVE Settled'
  <2>1. Sole /\ PhasesOK /\ OvertakenOK
    BY <1>1, <1>6 DEF SoleInv, Settled
  <2>2. PhasesOK' /\ OvertakenOK'
    BY <1>1, <1>3, <2>1, WorkQuiet
  <2>3. handle'[c] = thread
    BY <1>0, <1>1 DEF PlainOK
  <2>4. ASSUME NEW s \in Alive' PROVE s = handle'[c]
    <3>1. s \in Alive
      BY <1>3 DEF Alive, IsAlive
    <3>2. ~ \E d \in Waiters : pc[d] = "join" /\ s = handle[d]
      BY <1>4
    <3>. QED  BY <2>1, <2>3, <3>1, <3>2 DEF Sole
  <2>5. Sole'
    BY <1>1, <1>3, <1>4, <2>4 DEF Sole
  <2>. QED  BY <2>2, <2>5 DEF Settled
<1>. QED  BY <1>5, <1>6 DEF SoleInv

\* A join that does not give up finds that the scheduler has ended.
LEMMA JoinSole == ASSUME IInv, SoleInv, NEW c \in Waiters, Join(c) PROVE SoleInv'
<1>0. PlainOK /\ PcOK /\ OneWaiter
  BY DEF IInv, PlacesOK, SoleInv
<1>1. /\ pc[c] = "join" /\ survived' \in {survived, TRUE}
      /\ UNCHANGED <<profiles, gen, overtaken, thread, held>>
  BY DEF Join, objectVars, serviceVars
<1>2. PICK l \in {"off", "load", "idle"} : Goto(c, l) /\ (c = Main => l # "load")
  BY DEF Join
<1>3. l \in WaiterLabels /\ pc[c] # "idle"
  BY <1>1 DEF WaiterLabels
<1>4. /\ pc'[c] = l /\ \A d \in Waiters : d # c => pc'[d] = pc[d]
      /\ \A s \in Schedulers : pc'[s] = pc[s]
  BY <1>0, <1>2, <1>3, WaiterPc
<1>5. OneWaiter' /\ \A d \in Waiters : d # c => pc'[d] = "idle" /\ pc[d] = "idle"
  BY <1>0, <1>3, <1>4, WaiterTurn
<1>6. ASSUME ~ survived' PROVE Settled'
  <2>1. Sole /\ PhasesOK /\ OvertakenOK
    <3>1. survived' = survived
      BY <1>1, <1>6
    <3>2. ~ survived
      BY <1>6, <3>1
    <3>. QED  BY <3>2 DEF SoleInv, Settled
  <2>2. PhasesOK' /\ OvertakenOK'
    BY <1>1, <1>4, <2>1, WorkQuiet
  <2>3. handle[c] = None \/ ~ IsAlive(handle[c])
    BY <1>6 DEF Join, IsAlive
  <2>4. thread = None
    BY <1>1, <2>1 DEF Sole
  <2>5. ASSUME NEW s \in Schedulers, IsAlive(s) PROVE FALSE
    <3>1. s \in Alive /\ s # None
      BY <2>5, ThreadsAssumption DEF Alive
    <3>2. PICK d \in Waiters : pc[d] = "join" /\ s = handle[d]
      BY <2>1, <2>4, <3>1 DEF Sole
    <3>3. d = c
      BY <1>5, <3>2
    <3>. QED  BY <2>3, <2>5, <3>1, <3>2, <3>3
  <2>6. \A s \in Schedulers : ~ IsAlive(s)'
    BY <1>4, <2>5 DEF IsAlive
  <2>7. Sole'
    BY <1>1, <1>2, <1>4, <1>5, <2>4, <2>6, SoleIdle
  <2>. QED  BY <2>2, <2>7 DEF Settled
<1>. QED  BY <1>5, <1>6 DEF SoleInv

LEMMA CheckSole == ASSUME IInv, SoleInv, NEW c \in Waiters, CheckEnabled(c) PROVE SoleInv'
<1>0. PlainOK /\ PcOK /\ PlacesOK /\ OneWaiter
  BY DEF IInv, PlacesOK, SoleInv
<1>1. pc[c] = "check" /\ UNCHANGED <<profiles, gen, overtaken, thread, held, handle, survived>>
  BY DEF CheckEnabled, objectVars, serviceVars
<1>2. PICK l \in {"start", "idle"} : Goto(c, l)
  BY DEF CheckEnabled
<1>3. l \in WaiterLabels /\ l # "load" /\ pc[c] # "idle"
  BY <1>1 DEF WaiterLabels
<1>4. /\ pc'[c] = l /\ \A d \in Waiters : d # c => pc'[d] = pc[d]
      /\ \A s \in Schedulers : pc'[s] = pc[s]
  BY <1>0, <1>2, <1>3, WaiterPc
<1>5. OneWaiter' /\ \A d \in Waiters : d # c => pc'[d] = "idle"
  BY <1>0, <1>3, <1>4, WaiterTurn
<1>6. ASSUME ~ survived' PROVE Settled'
  <2>1. Sole /\ PhasesOK /\ OvertakenOK
    BY <1>1, <1>6 DEF SoleInv, Settled
  <2>2. PhasesOK' /\ OvertakenOK'
    BY <1>1, <1>4, <2>1, WorkQuiet
  <2>3. Alive = {} /\ thread = None
    BY <1>0, <1>1, <2>1, NoneAlive DEF Sole
  <2>4. \A s \in Schedulers : ~ IsAlive(s)'
    BY <1>4, <2>3 DEF Alive, IsAlive
  <2>5. Sole'
    BY <1>1, <1>2, <1>4, <1>5, <2>3, <2>4, SoleIdle
  <2>. QED  BY <2>2, <2>5 DEF Settled
<1>. QED  BY <1>5, <1>6 DEF SoleInv

LEMMA StartSole == ASSUME IInv, SoleInv, NEW c \in Waiters, Start(c) PROVE SoleInv'
<1>0. PlainOK /\ PcOK /\ PlacesOK /\ OneWaiter
  BY DEF IInv, PlacesOK, SoleInv
<1>1. pc[c] = "start" /\ UNCHANGED <<profiles, gen, overtaken, held, survived>>
  BY DEF Start, objectVars
<1>2. /\ pc'[c] \in {"idle", "launch"} /\ (pc'[c] = "launch" => thread' = handle'[c])
      /\ \A d \in Waiters : d # c => pc'[d] = pc[d]
      /\ \A s \in Schedulers : pc'[s] = pc[s] \/ (pc[s] = "none" /\ pc'[s] = "created")
  <2>1. CASE Goto(c, "idle")
    <3>1. "idle" \in WaiterLabels /\ "idle" # "load" /\ "idle" # "launch"
      BY DEF WaiterLabels
    <3>. QED  BY <1>0, <2>1, <3>1, WaiterPc
  <2>2. ASSUME NEW s \in Schedulers, pc[s] = "none", thread' = s, handle' = [handle EXCEPT ![c] = s],
               GotoBoth(c, "launch", s, "created")
        PROVE  /\ pc'[c] = "launch" /\ thread' = handle'[c] /\ \A d \in Waiters : d # c => pc'[d] = pc[d]
               /\ \A x \in Schedulers : pc'[x] = pc[x] \/ (pc[x] = "none" /\ pc'[x] = "created")
    <3>1. "launch" \in WaiterLabels /\ "launch" # "load" /\ "created" \in SchedulerLabels
      BY DEF WaiterLabels, SchedulerLabels
    <3>2. /\ pc'[c] = "launch" /\ pc'[s] = "created" /\ \A d \in Waiters : d # c => pc'[d] = pc[d]
          /\ \A x \in Schedulers : x # s => pc'[x] = pc[x]
      BY <1>0, <2>2, <3>1, PairPc
    <3>3. handle'[c] = s
      BY <1>0, <2>2 DEF PlainOK
    <3>. QED  BY <2>2, <3>2, <3>3
  <2>. QED  BY <2>1, <2>2 DEF Start, GotoBoth
<1>3. OneWaiter' /\ \A d \in Waiters : d # c => pc'[d] = "idle"
  BY <1>0, <1>1, <1>2, WaiterTurn
<1>4. ASSUME ~ survived' PROVE Settled'
  <2>1. Sole /\ PhasesOK /\ OvertakenOK
    BY <1>1, <1>4 DEF SoleInv, Settled
  <2>2. \A s \in Schedulers : pc'[s] = pc[s] \/ (pc[s] \notin Working /\ pc'[s] \notin Working)
    BY <1>2 DEF Working
  <2>3. PhasesOK' /\ OvertakenOK'
    BY <1>1, <2>1, <2>2, WorkQuiet
  <2>4. Alive = {}
    BY <1>0, <1>1, <2>1, NoneAlive
  <2>5. \A s \in Schedulers : ~ IsAlive(s)'
    BY <1>2, <2>4 DEF Alive, IsAlive
  <2>6. Sole'
    BY <1>2, <1>3, <2>5, SoleIdle
  <2>. QED  BY <2>3, <2>6 DEF Settled
<1>. QED  BY <1>3, <1>4 DEF SoleInv

LEMMA LaunchSole == ASSUME IInv, SoleInv, NEW c \in Waiters, Launch(c) PROVE SoleInv'
<1>0. PlainOK /\ PcOK /\ PlacesOK /\ LaunchOK /\ OneWaiter
  BY DEF IInv, PlacesOK, SoleInv
<1>. DEFINE s == handle[c]
<1>1. /\ pc[c] = "launch" /\ GotoBoth(c, "idle", s, "loop")
      /\ UNCHANGED <<profiles, gen, overtaken, thread, held, survived>>
  BY DEF Launch, GotoBoth, objectVars, serviceVars
<1>2. s \in Schedulers /\ pc[s] = "created"
  BY <1>0, <1>1 DEF LaunchOK
<1>3. "idle" \in WaiterLabels /\ "idle" # "load" /\ "loop" \in SchedulerLabels
  BY DEF WaiterLabels, SchedulerLabels
<1>. HIDE DEF s
<1>4. /\ pc'[c] = "idle" /\ pc'[s] = "loop"
      /\ \A d \in Waiters : d # c => pc'[d] = pc[d]
      /\ \A x \in Schedulers : x # s => pc'[x] = pc[x]
  BY <1>0, <1>1, <1>2, <1>3, PairPc
<1>5. OneWaiter' /\ \A d \in Waiters : pc'[d] = "idle"
  BY <1>0, <1>1, <1>4, WaiterTurn
<1>6. ASSUME ~ survived' PROVE Settled'
  <2>1. Sole /\ PhasesOK /\ OvertakenOK
    BY <1>1, <1>6 DEF SoleInv, Settled
  <2>2. \A x \in Schedulers : pc'[x] = pc[x] \/ (pc[x] \notin Working /\ pc'[x] \notin Working)
    BY <1>2, <1>4 DEF Working
  <2>3. PhasesOK' /\ OvertakenOK'
    BY <1>1, <2>1, <2>2, WorkQuiet
  <2>4. Alive = {} /\ thread = s
    BY <1>0, <1>1, <2>1, NoneAlive DEF Sole, s
  <2>5. \A x \in Alive' : x = s
    BY <1>4, <2>4 DEF Alive, IsAlive
  <2>6. Sole'
    BY <1>1, <1>5, <2>4, <2>5 DEF Sole
  <2>. QED  BY <2>3, <2>6 DEF Settled
<1>. QED  BY <1>5, <1>6 DEF SoleInv

LEMMA NobodyWorks == ASSUME Alive = {} PROVE \A s \in Schedulers : pc[s] \notin Working
<1>. SUFFICES ASSUME NEW s \in Schedulers, pc[s] \in Working PROVE FALSE
  OBVIOUS
<1>1. IsAlive(s)
  BY DEF IsAlive, Working
<1>. QED  BY <1>1 DEF Alive

\* A reload copies the phases while nothing runs.
LEMMA LoadSole == ASSUME IInv, SoleInv, NEW c \in Waiters, Load(c) PROVE SoleInv'
<1>0. PlainOK /\ PcOK /\ PlacesOK /\ OneWaiter
  BY DEF IInv, PlacesOK, SoleInv
<1>1. pc[c] = "load" /\ UNCHANGED <<thread, held, handle, survived>>
  BY LoadCases
<1>2. PICK l \in {"idle", "check"} : Goto(c, l)
  BY LoadCases DEF NewList
<1>3. l \in WaiterLabels /\ l # "load" /\ pc[c] # "idle"
  BY <1>1 DEF WaiterLabels
<1>4. /\ pc'[c] = l /\ \A d \in Waiters : d # c => pc'[d] = pc[d]
      /\ \A s \in Schedulers : pc'[s] = pc[s]
  BY <1>0, <1>2, <1>3, WaiterPc
<1>5. OneWaiter' /\ \A d \in Waiters : d # c => pc'[d] = "idle"
  BY <1>0, <1>3, <1>4, WaiterTurn
<1>6. ASSUME ~ survived' PROVE Settled'
  <2>1. Sole /\ PhasesOK /\ OvertakenOK
    BY <1>1, <1>6 DEF SoleInv, Settled
  <2>2. Alive = {} /\ thread = None
    BY <1>0, <1>1, <2>1, NoneAlive DEF Sole
  <2>3. \A s \in Schedulers : ~ IsAlive(s)'
    BY <1>4, <2>2 DEF Alive, IsAlive
  <2>4. Sole'
    BY <1>1, <1>2, <1>4, <1>5, <2>2, <2>3, SoleIdle
  <2>5. \A s \in Schedulers : pc[s] \notin Working
    BY <2>2, NobodyWorks
  <2>6. CASE UNCHANGED <<profiles, gen, lost, overtaken>>
    <3>1. PhasesOK' /\ OvertakenOK'
      BY <1>1, <1>4, <2>1, <2>6, WorkQuiet
    <3>. QED  BY <2>4, <3>1 DEF Settled
  <2>7. ASSUME NEW load \in Loads, NewList(c, load) PROVE Settled'
    <3>1. \A n \in DOMAIN Current : Matching(Current[n])
      BY <2>1, <2>5 DEF PhasesOK, Ending, Working
    <3>2. ASSUME NEW n \in DOMAIN Current' PROVE Matching(Current'[n])
      <4>1. CASE n \in DOMAIN Current /\ Current[n].config.key = load[n].key
        <5>1. Copied(Current'[n], Current[n])
          BY <2>7, <3>2, <4>1 DEF NewList, Fits
        <5>. QED  BY <3>1, <4>1, <5>1 DEF Copied, Matching
      <4>2. CASE ~ (n \in DOMAIN Current /\ Current[n].config.key = load[n].key)
        <5>1. Current'[n].last_result = None
          BY <2>7, <3>2, <4>2 DEF NewList, Fits
        <5>. QED  BY <5>1 DEF Matching
      <4>. QED  BY <4>1, <4>2
    <3>3. \A s \in Schedulers : pc'[s] # "unresolved"
      BY <1>4, <2>5 DEF Working
    <3>4. PhasesOK'
      BY <3>2, <3>3 DEF PhasesOK, Matching
    <3>5. \A n, m \in Names : overtaken'[n][m] = 0
      BY <2>7 DEF NewList, Fits
    <3>6. OvertakenOK'
      BY <3>5 DEF OvertakenOK
    <3>. QED  BY <2>4, <3>4, <3>6 DEF Settled
  <2>. QED  BY <2>6, <2>7, LoadCases
<1>. QED  BY <1>5, <1>6 DEF SoleInv

\* A step of a scheduler that runs: no other one works.
LEMMA SchedulerSole ==
    ASSUME IInv, SoleInv, NEW s \in Schedulers, pc[s] \in Working \cup {"loop"}, NEW l \in SchedulerLabels, Goto(s, l),
           UNCHANGED <<gen, handle, thread, survived>>
    PROVE  /\ OneWaiter' /\ pc'[s] = l /\ \A x \in Schedulers : x # s => pc'[x] = pc[x]
           /\ ~ survived' => /\ Sole' /\ PhasesOK /\ OvertakenOK
                             /\ \A x \in Schedulers : x # s => pc[x] \notin Working /\ pc'[x] \notin Working
<1>0. PlainOK /\ PlacesOK /\ OneWaiter
  BY DEF IInv, SoleInv
<1>1. pc[s] # "created" /\ IsAlive(s)
  BY DEF Working, IsAlive
<1>2. /\ pc'[s] = l /\ \A x \in Schedulers : x # s => pc'[x] = pc[x]
      /\ \A c \in Waiters : pc'[c] = pc[c]
  BY <1>0, <1>1, SchedulerPlaces
<1>3. OneWaiter'
  BY <1>0, <1>2 DEF OneWaiter
<1>4. ASSUME ~ survived'
      PROVE  /\ Sole' /\ PhasesOK /\ OvertakenOK
             /\ \A x \in Schedulers : x # s => pc[x] \notin Working /\ pc'[x] \notin Working
  <2>1. Sole /\ PhasesOK /\ OvertakenOK
    BY <1>4 DEF SoleInv, Settled
  <2>2. \A x \in Schedulers : x # s => pc[x] \notin Working
    BY <1>0, <2>1, NoOther
  <2>3. \A x \in Schedulers : IsAlive(x)' => IsAlive(x)
    BY <1>1, <1>2 DEF IsAlive
  <2>4. Sole'
    BY <1>2, <2>1, <2>3, SoleKept
  <2>. QED  BY <1>2, <2>1, <2>2, <2>4
<1>. QED  BY <1>2, <1>3, <1>4

LEMMA LoopSole == ASSUME IInv, SoleInv, NEW s \in Schedulers, Loop(s) PROVE SoleInv'
<1>0. HeldOK /\ PlainOK /\ ListsOK
  BY DEF IInv
<1>1. pc[s] = "loop" /\ UNCHANGED <<profiles, gen, overtaken, thread, handle, survived>>
  BY DEF Loop, objectVars, serviceVars
<1>2. PICK l \in {"dead", "wait"} :
        /\ Goto(s, l) /\ (l = "dead" => held' = held)
        /\ l = "wait" => \E n \in Names : DueFirst(n, Current) /\ held' = [held EXCEPT ![s] = [gen |-> gen, name |-> n]]
  BY DEF Loop
<1>3. l \in SchedulerLabels /\ pc[s] \in Working \cup {"loop"}
  BY <1>1 DEF SchedulerLabels, Working
<1>4. /\ OneWaiter' /\ pc'[s] = l /\ \A x \in Schedulers : x # s => pc'[x] = pc[x]
      /\ ~ survived' => /\ Sole' /\ PhasesOK /\ OvertakenOK
                        /\ \A x \in Schedulers : x # s => pc[x] \notin Working /\ pc'[x] \notin Working
  BY <1>1, <1>2, <1>3, SchedulerSole
<1>5. Current' = Current
  BY <1>1 DEF Current
<1>6. ASSUME ~ survived' PROVE PhasesOK' /\ OvertakenOK'
  <2>1. \A x \in Schedulers : pc[x] \notin {"unresolved", "probe"} /\ pc'[x] \notin {"unresolved", "probe"}
    BY <1>1, <1>2, <1>4, <1>6 DEF Working
  <2>2. PhasesOK'
    BY <1>1, <1>4, <1>6, <2>1, PhasesQuiet
  <2>3. CASE l = "dead"
    <3>1. \A x \in Schedulers : pc'[x] \in {"wait", "begin"} => pc[x] \in {"wait", "begin"} /\ held'[x] = held[x]
      BY <1>2, <1>4, <2>3
    <3>2. OvertakenOK'
      BY <1>1, <1>4, <1>5, <1>6, <3>1, OvertakenQuiet
    <3>. QED  BY <2>2, <3>2
  <2>4. ASSUME NEW k \in Names, DueFirst(k, Current), held' = [held EXCEPT ![s] = [gen |-> gen, name |-> k]], l = "wait"
        PROVE  OvertakenOK'
    <3>1. held'[s] = [gen |-> gen, name |-> k]
      BY <1>0, <2>4 DEF HeldOK
    <3>2. ASSUME NEW n \in Names, overtaken[n][k] # 0 PROVE FALSE
      <4>1. n \in DOMAIN Current /\ Current[n].config.enabled /\ Current[n].next_due < Current[k].next_due
        BY <1>4, <1>6, <3>2 DEF OvertakenOK
      <4>2. Current[k].next_due < Current[n].next_due \/ Current[k].next_due = Current[n].next_due
        BY <2>4, <4>1 DEF DueFirst
      <4>3. Current[k] \in ProfileStates /\ Current[n] \in ProfileStates
        BY <1>0, <2>4, <4>1 DEF PlainOK, ListsOK, IsList, Current, DueFirst
      <4>4. Current[k].next_due \in Nat /\ Current[n].next_due \in Nat
        BY <4>3 DEF ProfileStates
      <4>. QED  BY <4>1, <4>2, <4>4, SMT, SMTT(60)
    <3>3. ASSUME NEW n \in Names, NEW m \in Names, overtaken[n][m] # 0, NEW x \in Schedulers, pc'[x] \in {"wait", "begin"}
          PROVE  held'[x] # [gen |-> gen', name |-> m]
      <4>1. m # k
        BY <3>2, <3>3
      <4>2. x = s
        BY <1>4, <1>6, <3>3 DEF Working
      <4>3. [gen |-> gen, name |-> k] # [gen |-> gen, name |-> m]
        BY <4>1
      <4>. QED  BY <1>1, <3>1, <4>2, <4>3
    <3>4. \A n, m \in Names : overtaken[n][m] # 0 =>
            /\ overtaken[n][m] = 1
            /\ n \in DOMAIN Current /\ m \in DOMAIN Current /\ Current[n].config.enabled
            /\ Current[n].next_due < Current[m].next_due
      BY <1>4, <1>6 DEF OvertakenOK
    <3>. QED  BY <1>1, <1>5, <3>3, <3>4 DEF OvertakenOK
  <2>. QED  BY <1>2, <2>2, <2>3, <2>4
<1>. QED  BY <1>4, <1>6 DEF SoleInv, Settled

LEMMA WaitSole == ASSUME IInv, SoleInv, NEW s \in Schedulers, Wait(s) PROVE SoleInv'
<1>0. HeldOK
  BY DEF IInv
<1>1. pc[s] = "wait" /\ UNCHANGED <<profiles, gen, overtaken, thread, handle, survived>>
  BY DEF Wait, objectVars, serviceVars
<1>2. PICK l \in {"loop", "begin", "dead"} : Goto(s, l) /\ (l = "begin" => held' = held)
  BY DEF Wait, Leave
<1>3. l \in SchedulerLabels /\ pc[s] \in Working \cup {"loop"}
  BY <1>1 DEF SchedulerLabels, Working
<1>4. /\ OneWaiter' /\ pc'[s] = l /\ \A x \in Schedulers : x # s => pc'[x] = pc[x]
      /\ ~ survived' => /\ Sole' /\ PhasesOK /\ OvertakenOK
                        /\ \A x \in Schedulers : x # s => pc[x] \notin Working /\ pc'[x] \notin Working
  BY <1>1, <1>2, <1>3, SchedulerSole
<1>5. Current' = Current
  BY <1>1 DEF Current
<1>6. ASSUME ~ survived' PROVE PhasesOK' /\ OvertakenOK'
  <2>1. \A x \in Schedulers : pc[x] \notin {"unresolved", "probe"} /\ pc'[x] \notin {"unresolved", "probe"}
    BY <1>1, <1>2, <1>4, <1>6 DEF Working
  <2>2. PhasesOK'
    BY <1>1, <1>4, <1>6, <2>1, PhasesQuiet
  <2>3. \A x \in Schedulers : pc'[x] \in {"wait", "begin"} => pc[x] \in {"wait", "begin"} /\ held'[x] = held[x]
    BY <1>1, <1>2, <1>4, <1>6 DEF Working
  <2>4. OvertakenOK'
    BY <1>1, <1>4, <1>5, <1>6, <2>3, OvertakenQuiet
  <2>. QED  BY <2>2, <2>4
<1>. QED  BY <1>4, <1>6 DEF SoleInv, Settled



\* What is held, for the only scheduler that works.
LEMMA HeldNow ==
    ASSUME IInv, NEW s \in Schedulers, pc[s] \in Working, held[s].gen = gen
    PROVE  /\ held[s].name \in DOMAIN Current /\ held[s].name \in Names
           /\ \A n : held[s] = [gen |-> gen, name |-> n] <=> n = held[s].name
<1>1. held[s].name \in DOMAIN profiles[held[s].gen] /\ held[s].name \in Names
      /\ held[s] = [gen |-> held[s].gen, name |-> held[s].name]
  BY HeldObject
<1>2. held[s].name \in DOMAIN Current
  BY <1>1 DEF Current
<1>3. ASSUME NEW n PROVE held[s] = [gen |-> gen, name |-> n] <=> n = held[s].name
  BY <1>1, SMT, SMTT(60)
<1>. QED  BY <1>1, <1>2, <1>3

\* A run starts: the profile is due later than those it has overtaken.
LEMMA BeginOvertakes ==
    ASSUME IInv, NEW s \in Schedulers, Begin(s), OvertakenOK, \A x \in Schedulers : pc'[x] \notin {"wait", "begin"}
    PROVE  OvertakenOK'
<1>0. PlainOK
  BY DEF IInv
<1>. DEFINE state == [Held(s) EXCEPT !.run_count = @ + 1, !.next_due = clock + Interval]
            k == held[s].name
<1>1. pc[s] = "begin" /\ Update(s, state) /\ overtaken' = Overtaking(s) /\ gen' = gen
  BY DEF Begin
<1>2. pc[s] \in Working
  BY <1>1 DEF Working
<1>3. clock \in Nat /\ clock + Interval \in Nat /\ clock < clock + Interval
  BY <1>0, TimeAssumption, SMT, SMTT(60) DEF PlainOK
<1>4. Held(s) \in ProfileStates
  BY <1>2, HeldObject
<1>5. state \in ProfileStates /\ state.next_due = clock + Interval /\ state.config = Held(s).config
  <2>1. IsBegun(state, Held(s), clock + Interval)
    BY DEF IsBegun
  <2>. HIDE DEF state
  <2>. QED  BY <1>3, <1>4, <2>1, BegunState, SMT, SMTT(60)
<1>. HIDE DEF state
<1>6. /\ DOMAIN Current' = DOMAIN Current
      /\ \A n \in DOMAIN Current :
          /\ Current[n] \in ProfileStates
          /\ IF held[s] = [gen |-> gen, name |-> n]
             THEN Current'[n] = state /\ Held(s) = Current[n] ELSE Current'[n] = Current[n]
  <2>1. Update(s, state) /\ pc[s] \in Working /\ state \in ProfileStates /\ gen' = gen
    BY <1>1, <1>2, <1>5
  <2>. QED  BY <2>1, CurrentAfter
<1>7. CASE held[s].gen # gen
  <2>1. \A n : held[s] # [gen |-> gen, name |-> n]
    BY <1>7, SMT, SMTT(60)
  <2>2. overtaken' = overtaken
    BY <1>1, <1>7 DEF Overtaking
  <2>. QED  BY <1>1, <1>6, <2>1, <2>2, OvertakenQuiet
<1>8. CASE held[s].gen = gen
  <2>1. k \in DOMAIN Current /\ k \in Names /\ \A n : held[s] = [gen |-> gen, name |-> n] <=> n = k
    BY <1>2, <1>8, HeldNow
  <2>2. overtaken' = [n \in Names |->
            IF n = k THEN [m \in Names |-> 0]
            ELSE IF Due(n) THEN [overtaken[n] EXCEPT ![k] = @ + 1] ELSE overtaken[n]]
    BY <1>1, <1>8 DEF Overtaking
  <2>. HIDE DEF k
  <2>3. overtaken \in [Names -> [Names -> Nat]]
    BY <1>0 DEF PlainOK
  <2>4. \A n \in DOMAIN Current : n # k => Current'[n] = Current[n]
    BY <1>6, <2>1
  <2>5. Current'[k].next_due = clock + Interval
    BY <1>5, <1>6, <2>1
  <2>6. \A n \in Names : overtaken[n][k] = 0
    <3>1. held[s] = [gen |-> gen, name |-> k]
      BY <2>1
    <3>2. ASSUME NEW n \in Names, overtaken[n][k] # 0 PROVE FALSE
      <4>1. \A x \in Schedulers : pc[x] \in {"wait", "begin"} => held[x] # [gen |-> gen, name |-> k]
        BY <2>1, <3>2 DEF OvertakenOK
      <4>. QED  BY <1>1, <3>1, <4>1
    <3>. QED  BY <3>2
  <2>7. ASSUME NEW n \in Names, NEW m \in Names, overtaken'[n][m] # 0
        PROVE  /\ overtaken'[n][m] = 1
               /\ n \in DOMAIN Current' /\ m \in DOMAIN Current' /\ Current'[n].config.enabled
               /\ Current'[n].next_due < Current'[m].next_due
    <3>1. n # k
      BY <2>2, <2>7
    <3>2. CASE m # k
      <4>. DEFINE f == overtaken[n]
      <4>1. f \in [Names -> Nat]
        BY <2>3
      <4>2. overtaken'[n] = [f EXCEPT ![k] = @ + 1] \/ overtaken'[n] = f
        BY <2>2, <3>1
      <4>. HIDE DEF f
      <4>3. overtaken'[n][m] = f[m]
        BY <3>2, <4>1, <4>2
      <4>4. overtaken'[n][m] = overtaken[n][m]
        BY <4>3 DEF f
      <4>5. overtaken[n][m] # 0
        BY <2>7, <4>4
      <4>6. /\ overtaken[n][m] = 1
            /\ n \in DOMAIN Current /\ m \in DOMAIN Current /\ Current[n].config.enabled
            /\ Current[n].next_due < Current[m].next_due
        BY <4>5 DEF OvertakenOK
      <4>7. Current'[n] = Current[n] /\ Current'[m] = Current[m] /\ DOMAIN Current' = DOMAIN Current
        BY <1>6, <2>4, <3>1, <3>2, <4>6
      <4>. QED  BY <4>4, <4>6, <4>7
    <3>3. CASE m = k
      <4>1. Due(n)
        BY <2>2, <2>6, <2>7, <3>1, <3>3
      <4>2. n \in DOMAIN Current /\ Current[n].config.enabled /\ Current[n].next_due <= clock
        BY <4>1 DEF Due
      <4>. DEFINE f == overtaken[n]
      <4>3. f \in [Names -> Nat] /\ f[k] = 0 /\ overtaken'[n] = [f EXCEPT ![k] = f[k] + 1]
        BY <2>2, <2>3, <2>6, <3>1, <4>1
      <4>. HIDE DEF f
      <4>4. overtaken'[n][m] = 1
        BY <2>1, <3>3, <4>3, SMT, SMTT(60)
      <4>5. Current'[n] = Current[n] /\ Current[n] \in ProfileStates
        BY <1>6, <2>4, <3>1, <4>2
      <4>6. Current[n].next_due \in Nat
        BY <4>5 DEF ProfileStates
      <4>7. Current[n].next_due < clock + Interval
        BY <1>3, <4>2, <4>6, SMT, SMTT(60)
      <4>. QED  BY <1>6, <2>1, <2>5, <3>3, <4>2, <4>4, <4>5, <4>7
    <3>. QED  BY <3>2, <3>3
  <2>. QED  BY <2>7 DEF OvertakenOK
<1>. QED  BY <1>7, <1>8

LEMMA BeginSole == ASSUME IInv, SoleInv, NEW s \in Schedulers, Begin(s) PROVE SoleInv'
<1>. DEFINE state == [Held(s) EXCEPT !.run_count = @ + 1, !.next_due = clock + Interval]
<1>1. /\ pc[s] = "begin" /\ Update(s, state) /\ Goto(s, "resolve")
      /\ UNCHANGED <<gen, thread, handle, survived, held>>
  BY DEF Begin, serviceVars
<1>2. pc[s] \in Working /\ "resolve" \in SchedulerLabels
  BY <1>1 DEF Working, SchedulerLabels
<1>3. /\ OneWaiter' /\ pc'[s] = "resolve" /\ \A x \in Schedulers : x # s => pc'[x] = pc[x]
      /\ ~ survived' => /\ Sole' /\ PhasesOK /\ OvertakenOK
                        /\ \A x \in Schedulers : x # s => pc[x] \notin Working /\ pc'[x] \notin Working
  BY <1>1, <1>2, SchedulerSole
<1>4. Held(s) \in ProfileStates
  BY <1>2, HeldObject
<1>5. clock + Interval \in Nat
  BY TimeAssumption, SMT, SMTT(60) DEF IInv, PlainOK
<1>6. /\ state \in ProfileStates /\ state.mode = Held(s).mode
      /\ state.last_status = Held(s).last_status /\ state.last_result = Held(s).last_result
  <2>1. IsBegun(state, Held(s), clock + Interval)
    BY DEF IsBegun
  <2>. HIDE DEF state
  <2>. QED  BY <1>4, <1>5, <2>1, BegunState, SMT, SMTT(60)
<1>. HIDE DEF state
<1>7. /\ DOMAIN Current' = DOMAIN Current
      /\ \A n \in DOMAIN Current : Current'[n] = Current[n] \/ (Current'[n] = state /\ Held(s) = Current[n])
  <2>1. Update(s, state) /\ pc[s] \in Working /\ state \in ProfileStates /\ gen' = gen
    BY <1>1, <1>2, <1>6
  <2>. QED  BY <2>1, CurrentAfter
<1>8. ASSUME ~ survived' PROVE PhasesOK' /\ OvertakenOK'
  <2>1. \A x \in Schedulers : pc[x] \notin {"unresolved", "probe"} /\ pc'[x] \notin {"unresolved", "probe", "wait", "begin"}
    BY <1>1, <1>3, <1>8 DEF Working
  <2>2. OvertakenOK'
    BY <1>3, <1>8, <2>1, BeginOvertakes
  <2>3. \A n \in DOMAIN Current : Matching(Current[n])
    BY <1>3, <1>8, <2>1 DEF PhasesOK, Ending
  <2>4. ASSUME NEW n \in DOMAIN Current' PROVE Matching(Current'[n])
    <3>1. n \in DOMAIN Current /\ Matching(Current[n])
      BY <1>7, <2>3
    <3>2. Current'[n] = Current[n] \/ (Current'[n] = state /\ Held(s) = Current[n])
      BY <1>7, <3>1
    <3>3. Matching(Held(s)) => Matching(state)
      BY <1>6 DEF Matching
    <3>. QED  BY <3>1, <3>2, <3>3
  <2>5. PhasesOK'
    BY <2>1, <2>4 DEF PhasesOK, Matching
  <2>. QED  BY <2>2, <2>5
<1>. QED  BY <1>3, <1>8 DEF SoleInv, Settled

LEMMA ResolveSole == ASSUME IInv, SoleInv, NEW s \in Schedulers, Resolve(s) PROVE SoleInv'
<1>1. pc[s] = "resolve" /\ UNCHANGED <<gen, overtaken, thread, handle, survived>>
  BY DEF Resolve, serviceVars
<1>2. PICK l \in {"crashed", "unresolved", "probe"} :
        /\ Goto(s, l) /\ (l = "crashed" => profiles' = profiles)
        /\ l # "crashed" => /\ held' = held
                            /\ \E mode \in {"auto", "fixed", "unresolved"} :
                                 /\ Update(s, [Held(s) EXCEPT !.mode = mode])
                                 /\ l = "unresolved" => mode = "unresolved"
  BY DEF Resolve, Resolutions, Leave
<1>3. pc[s] \in Working /\ l \in SchedulerLabels
  BY <1>1 DEF Working, SchedulerLabels
<1>4. /\ OneWaiter' /\ pc'[s] = l /\ \A x \in Schedulers : x # s => pc'[x] = pc[x]
      /\ ~ survived' => /\ Sole' /\ PhasesOK /\ OvertakenOK
                        /\ \A x \in Schedulers : x # s => pc[x] \notin Working /\ pc'[x] \notin Working
  BY <1>1, <1>2, <1>3, SchedulerSole
<1>5. ASSUME ~ survived' PROVE PhasesOK' /\ OvertakenOK'
  <2>1. \A x \in Schedulers : pc[x] \notin {"unresolved", "probe", "wait", "begin"} /\ pc'[x] \notin {"wait", "begin"}
                              /\ (x # s => pc'[x] \notin {"unresolved", "probe"})
    BY <1>1, <1>2, <1>4, <1>5 DEF Working
  <2>2. CASE l = "crashed"
    <3>1. Current' = Current /\ profiles' = profiles
      BY <1>1, <1>2, <2>2 DEF Current
    <3>2. \A x \in Schedulers : pc[x] \notin {"unresolved", "probe"} /\ pc'[x] \notin {"unresolved", "probe"}
      BY <1>4, <2>1, <2>2
    <3>3. PhasesOK'
      BY <1>1, <1>4, <1>5, <3>1, <3>2, PhasesQuiet
    <3>. QED  BY <1>1, <1>4, <1>5, <2>1, <3>1, <3>3, OvertakenQuiet
  <2>3. ASSUME NEW mode \in {"auto", "fixed", "unresolved"}, Update(s, [Held(s) EXCEPT !.mode = mode]),
               l = "unresolved" => mode = "unresolved", l # "crashed"
        PROVE  PhasesOK' /\ OvertakenOK'
    <3>. DEFINE state == [Held(s) EXCEPT !.mode = mode]
    <3>1. Held(s) \in ProfileStates
      BY <1>3, HeldObject
    <3>2. state \in ProfileStates /\ state.mode = mode /\ state.config = Held(s).config /\ state.next_due = Held(s).next_due
      <4>1. IsResolved(state, Held(s), mode)
        BY DEF IsResolved
      <4>. HIDE DEF state
      <4>. QED  BY <3>1, <4>1, ResolvedState, SMT, SMTT(60)
    <3>3. Update(s, state) /\ held' = held
      BY <1>2, <2>3
    <3>. HIDE DEF state
    <3>4. /\ DOMAIN Current' = DOMAIN Current /\ profiles'[held[s].gen][held[s].name] = state
          /\ \A n \in DOMAIN Current :
              IF held[s] = [gen |-> gen, name |-> n]
              THEN Current'[n] = state /\ Held(s) = Current[n] ELSE Current'[n] = Current[n]
      BY <1>1, <1>3, <3>2, <3>3, CurrentAfter
    <3>5. OvertakenOK'
      <4>1. \A n \in DOMAIN Current : Current'[n].config = Current[n].config /\ Current'[n].next_due = Current[n].next_due
        BY <3>2, <3>4
      <4>. QED  BY <1>1, <1>4, <1>5, <2>1, <3>4, <4>1, OvertakenQuiet
    <3>6. \A n \in DOMAIN Current : Matching(Current[n])
      BY <1>4, <1>5, <2>1 DEF PhasesOK, Ending
    <3>7. ASSUME NEW n \in DOMAIN Current' PROVE Matching(Current'[n]) \/ Ending(s, n)'
      <4>1. CASE held[s] = [gen |-> gen, name |-> n]
        BY <1>1, <1>2, <1>4, <2>3, <3>3, <4>1 DEF Ending
      <4>2. CASE held[s] # [gen |-> gen, name |-> n]
        BY <3>4, <3>6, <3>7, <4>2
      <4>. QED  BY <4>1, <4>2
    <3>8. ASSUME NEW x \in Schedulers, pc'[x] = "unresolved" PROVE Held(x)'.mode = "unresolved"
      <4>1. x = s /\ l = "unresolved"
        BY <1>4, <2>1, <3>8
      <4>2. Held(s)' = state
        BY <3>3, <3>4 DEF Held
      <4>. QED  BY <2>3, <3>2, <4>1, <4>2
    <3>9. PhasesOK'
      BY <3>7, <3>8 DEF PhasesOK, Matching
    <3>. QED  BY <3>5, <3>9
  <2>. QED  BY <1>2, <2>2, <2>3
<1>. QED  BY <1>4, <1>5 DEF SoleInv, Settled

\* A run ends: its status and its phases belong together, or it had no target.
LEMMA FinishedSole ==
    ASSUME IInv, SoleInv, NEW s \in Schedulers, pc[s] \in {"unresolved", "probe"}, NEW state, Finished(s, state),
           pc[s] = "unresolved" => state.last_status = "failed",
           pc[s] = "probe" => state.last_result \in {None, state.last_status}
    PROVE  SoleInv'
<1>1. /\ Goto(s, "loop") /\ UNCHANGED <<gen, overtaken, thread, handle, survived>>
      /\ Update(s, state) /\ state \in ProfileStates
      /\ state.config = Held(s).config /\ state.next_due = Held(s).next_due /\ state.mode = Held(s).mode
  BY DEF Finished, Leave
<1>2. pc[s] \in Working /\ "loop" \in SchedulerLabels
  BY DEF Working, SchedulerLabels
<1>3. /\ OneWaiter' /\ pc'[s] = "loop" /\ \A x \in Schedulers : x # s => pc'[x] = pc[x]
      /\ ~ survived' => /\ Sole' /\ PhasesOK /\ OvertakenOK
                        /\ \A x \in Schedulers : x # s => pc[x] \notin Working /\ pc'[x] \notin Working
  BY <1>1, <1>2, SchedulerSole
<1>4. /\ DOMAIN Current' = DOMAIN Current
      /\ \A n \in DOMAIN Current :
          IF held[s] = [gen |-> gen, name |-> n]
          THEN Current'[n] = state /\ Held(s) = Current[n] ELSE Current'[n] = Current[n]
  BY <1>1, <1>2, CurrentAfter
<1>5. ASSUME ~ survived' PROVE PhasesOK' /\ OvertakenOK'
  <2>1. \A x \in Schedulers : /\ pc'[x] \notin {"unresolved", "probe", "wait", "begin"}
                              /\ x # s => pc[x] \notin {"unresolved", "probe"}
    BY <1>3, <1>5 DEF Working
  <2>2. Matching(state)
    <3>1. pc[s] = "unresolved" => state.mode = "unresolved"
      BY <1>1, <1>3, <1>5 DEF PhasesOK
    <3>. QED  BY <3>1 DEF Matching
  <2>3. \A n \in DOMAIN Current' : Matching(Current'[n])
    <3>. SUFFICES ASSUME NEW n \in DOMAIN Current PROVE Matching(Current'[n])
      BY <1>4
    <3>1. CASE held[s] = [gen |-> gen, name |-> n]
      <4>1. Current'[n] = state
        BY <1>4, <3>1
      <4>. QED  BY <2>2, <4>1
    <3>2. CASE held[s] # [gen |-> gen, name |-> n]
      <4>1. Current'[n] = Current[n]
        BY <1>4, <3>2
      <4>2. \A x \in Schedulers : ~ Ending(x, n)
        BY <2>1, <3>2 DEF Ending
      <4>3. Matching(Current[n])
        BY <1>3, <1>5, <4>2 DEF PhasesOK
      <4>. QED  BY <4>1, <4>3
    <3>. QED  BY <3>1, <3>2
  <2>4. PhasesOK'
    BY <2>1, <2>3 DEF PhasesOK, Matching
  <2>5. \A n \in DOMAIN Current : Current'[n].config = Current[n].config /\ Current'[n].next_due = Current[n].next_due
    BY <1>1, <1>4
  <2>6. OvertakenOK'
    BY <1>1, <1>3, <1>4, <1>5, <2>1, <2>5, OvertakenQuiet
  <2>. QED  BY <2>4, <2>6
<1>. QED  BY <1>3, <1>5 DEF SoleInv, Settled

LEMMA UnchangedSole ==
    ASSUME SoleInv, UNCHANGED <<profiles, gen, overtaken, thread, pc, held, handle, survived>>
    PROVE  SoleInv'
<1>1. OneWaiter'
  BY DEF SoleInv, OneWaiter
<1>2. ASSUME ~ survived' PROVE Settled'
  <2>1. Sole /\ PhasesOK /\ OvertakenOK
    BY <1>2 DEF SoleInv, Settled
  <2>2. \A s \in Schedulers : IsAlive(s)' => IsAlive(s)
    BY DEF IsAlive
  <2>3. Sole'
    BY <2>1, <2>2, SoleKept
  <2>4. PhasesOK' /\ OvertakenOK'
    BY <2>1, WorkQuiet
  <2>. QED  BY <2>3, <2>4 DEF Settled
<1>. QED  BY <1>1, <1>2 DEF SoleInv

LEMMA NextSole == ASSUME OneCaller, IInv, SoleInv, [Next]_vars PROVE SoleInv'
<1>1. ASSUME NEW c \in Waiters, Stop(c) \/ CallerStep(c) PROVE SoleInv'
  BY <1>1, StopSole, JoinSole, LoadSole, CheckSole, StartSole, LaunchSole DEF CallerStep
<1>2. ASSUME NEW s \in Schedulers, SchedulerStep(s) \/ CommandStep(s) PROVE SoleInv'
  <2>1. CASE Unresolved(s)
    <3>1. PICK state : Finished(s, state) /\ state.last_status = "failed"
      BY <2>1, UnresolvedEnds
    <3>2. pc[s] = "unresolved" /\ pc[s] # "probe"
      BY <2>1, UnresolvedEnds
    <3>. QED  BY <3>1, <3>2, FinishedSole
  <2>2. CASE Probe(s)
    <3>1. PICK state : Finished(s, state) /\ state.last_result \in {None, state.last_status}
      BY <2>2, ProbeEnds
    <3>2. pc[s] = "probe" /\ pc[s] # "unresolved"
      BY <2>2, ProbeEnds
    <3>. QED  BY <3>1, <3>2, FinishedSole
  <2>. QED  BY <1>2, <2>1, <2>2, LoopSole, WaitSole, BeginSole, ResolveSole DEF SchedulerStep, CommandStep
<1>3. CASE Tick \/ UNCHANGED vars
  <2>1. UNCHANGED <<profiles, gen, overtaken, thread, pc, held, handle, survived>>
    BY <1>3 DEF Tick, vars, objectVars, serviceVars
  <2>. QED  BY <2>1, UnchangedSole
<1>. QED  BY <1>1, <1>2, <1>3 DEF Next

LEMMA InitSole == ASSUME Init PROVE SoleInv
<1>1. /\ gen = 0 /\ thread = None
      /\ profiles = [g \in Generations |->
            IF g = 0 THEN ScheduleInitialRuns(BuildProfileStates(FirstLoad, NoStates), 0) ELSE NoStates]
      /\ pc = [t \in Schedulers \cup Waiters |->
                  IF t \in Schedulers THEN "none" ELSE IF t = Main THEN "check" ELSE "idle"]
      /\ overtaken = [n \in Names |-> [m \in Names |-> 0]]
  BY DEF Init
<1>2. /\ \A s \in Schedulers : pc[s] = "none"
      /\ \A c \in Waiters : pc[c] = IF c = Main THEN "check" ELSE "idle"
  BY <1>1, Apart
<1>3. OneWaiter
  BY <1>2 DEF OneWaiter
<1>4. Sole
  <2>1. \A s \in Alive : FALSE
    BY <1>2 DEF Alive, IsAlive
  <2>2. \A c \in Waiters : pc[c] # "launch"
    BY <1>2
  <2>. QED  BY <1>1, <2>1, <2>2 DEF Sole
<1>5. PhasesOK
  <2>1. 0 \in Generations
    BY TimeAssumption, SMT, SMTT(60) DEF Generations
  <2>2. Current = ScheduleInitialRuns(BuildProfileStates(FirstLoad, NoStates), 0)
    BY <1>1, <2>1 DEF Current
  <2>3. \A n \in DOMAIN Current : Current[n].last_result = None
    BY <2>2, FirstList
  <2>. QED  BY <1>2, <2>3 DEF PhasesOK, Matching
<1>6. OvertakenOK
  BY <1>1 DEF OvertakenOK
<1>. QED  BY <1>3, <1>4, <1>5, <1>6 DEF SoleInv, Settled

LEMMA SoleInductive == ASSUME OneCaller PROVE Spec => [](IInv /\ SoleInv)
<1>1. Init => SoleInv
  BY InitSole
<1>2. IInv /\ SoleInv /\ [Next]_vars => SoleInv'
  BY NextSole
<1>. QED  BY <1>1, <1>2, Inductive, PTL DEF Spec

\* start(), stop() and reload(): with one request thread there is one scheduler
\* at most, until a join gives up on one, for any number of reloads.
THEOREM OneScheduler == ASSUME OneCaller PROVE Spec => []SingleScheduler
<1>1. ASSUME IInv, SoleInv PROVE SingleScheduler
  <2>. SUFFICES ASSUME ~ survived PROVE Cardinality(Alive) <= 1
    BY DEF SingleScheduler
  <2>1. \A s, t \in Alive : s = t
    BY <1>1, AliveOnce DEF IInv, SoleInv, Settled
  <2>2. CASE Alive = {}
    <3>1. Cardinality(Alive) = 0
      BY <2>2, FS_EmptySet
    <3>. QED  BY <3>1, SMT, SMTT(60)
  <2>3. CASE Alive # {}
    <3>1. PICK s : s \in Alive
      BY <2>3
    <3>2. Alive = {s}
      BY <2>1, <3>1
    <3>3. Cardinality(Alive) = 1
      BY <3>2, FS_Singleton
    <3>. QED  BY <3>3, SMT, SMTT(60)
  <2>. QED  BY <2>2, <2>3
<1>. QED  BY <1>1, SoleInductive, PTL

\* _next_due_profile and _execute_profile: a profile that is due is overtaken at
\* most once by each other one, for any number of profiles and any interval.
THEOREM NoneStarved == ASSUME OneCaller PROVE Spec => []OvertakenOnce
<1>1. ASSUME IInv, SoleInv PROVE OvertakenOnce
  <2>. SUFFICES ASSUME ~ survived, NEW n \in Names, NEW m \in Names PROVE overtaken[n][m] <= 1
    BY DEF OvertakenOnce
  <2>1. overtaken[n][m] = 0 \/ overtaken[n][m] = 1
    BY <1>1 DEF SoleInv, Settled, OvertakenOK
  <2>. QED  BY <2>1, SMT, SMTT(60)
<1>. QED  BY <1>1, SoleInductive, PTL

\* _execute_profile: the exported phases belong to the run whose status is
\* exported, but for a run that had no target, over any number of reloads and
\* schedulers that crashed.
THEOREM PhasesAreOfStatus == ASSUME OneCaller PROVE Spec => []PhasesMatchStatus
<1>1. ASSUME IInv, SoleInv PROVE PhasesMatchStatus
  <2>. SUFFICES ASSUME ~ survived, NEW n \in DOMAIN Current, InFlight(gen, n) = 0 PROVE Matching(Current[n])
    BY DEF PhasesMatchStatus, Matching
  <2>1. Flying(gen, n) \in SUBSET Schedulers /\ Cardinality(Flying(gen, n)) = 0
    BY DEF Flying, InFlight
  <2>2. Flying(gen, n) = {}
    BY <2>1, Counting, FS_EmptySet
  <2>3. \A s \in Schedulers : ~ Ending(s, n)
    BY <2>2 DEF Flying, Ending, Executing
  <2>. QED  BY <1>1, <2>3 DEF SoleInv, Settled, PhasesOK
<1>. QED  BY <1>1, SoleInductive, PTL

=============================================================================
