--------------------------- MODULE ScheduledTrace ---------------------------
(***************************************************************************)
(* The scheduled canary probes (scheduled_trace_metrics_service.py): a     *)
(* background scheduler runs the profile that is due first, keeps counters *)
(* per profile, and can be reloaded by an HTTP request while it runs.      *)
(*                                                                         *)
(* A profile's state is a Python object that a scheduler keeps using after *)
(* it has left the lock.  A reload builds new objects, so an object is     *)
(* identified here by the generation (how many loads came before it) and   *)
(* the name of its profile: profiles[g][n].                                *)
(***************************************************************************)
EXTENDS Integers, FiniteSets, FiniteSetsExt

CONSTANTS Names,        \* profiles, numbered in the order of the list
          Schedulers,   \* threads start() can create, in the order of creation
          Callers,      \* request threads that may call reload()
          Main,         \* the thread of the application's lifespan
          None,
          Results,      \* what a probe may report
          Loads,        \* the profile lists a load can yield
          FirstLoad,    \* the one the process starts with
          Interval,     \* interval_s
          MaxTime,      \* bound: the clock stops here
          MaxLoads      \* bound: how many reloads may load a list

Statuses == {"success", "partial_success", "timeout", "failed"}

\* A profile's configuration: what _can_reuse_state compares, whether it is
\* enabled, and whether its target must be looked up in the topology.
Config == [key : Nat, enabled : BOOLEAN, auto : BOOLEAN]

ASSUME ThreadsAssumption ==
    /\ Names \cup Schedulers \subseteq Nat
    /\ IsFiniteSet(Names) /\ IsFiniteSet(Schedulers) /\ IsFiniteSet(Callers)
    /\ Main \notin Callers /\ (Callers \cup {Main}) \cap Schedulers = {}
    /\ None \notin Schedulers /\ None \notin Statuses
    /\ Results \subseteq Statuses
ASSUME TimeAssumption == Interval \in Nat \ {0} /\ MaxTime \in Nat /\ MaxLoads \in Nat
ASSUME LoadsAssumption ==
    /\ \A load \in Loads : \E S \in SUBSET Names : load \in [S -> Config]
    /\ FirstLoad \in Loads

VARIABLES
    enabled,     \* self.enabled
    profiles,    \* every _ProfileState object, by generation and name
    gen,         \* the generation of self._profiles
    thread,      \* self._thread
    stopEvent,   \* self._stop_event
    pc,          \* where each thread is
    held,        \* the object a scheduler works on
    handle,      \* the thread object a caller has in its local variable
    clock,       \* time.monotonic()
    lost,        \* history: runs of an object that no counter will ever show
    survived,    \* history: a join gave up on a scheduler that was running
    overtaken    \* history: starts of m while n was due, since n last started

objectVars == <<profiles, gen, lost, overtaken>>
serviceVars == <<enabled, thread, stopEvent>>
vars == <<objectVars, serviceVars, pc, held, handle, clock, survived>>

Generations == 0..MaxLoads
Waiters == Callers \cup {Main}
Objects == [gen : Generations, name : Names]
IsAlive(s) == pc[s] \notin {"none", "created", "dead", "crashed"}
Alive == {s \in Schedulers : IsAlive(s)}
Goto(t, l) == pc' = [pc EXCEPT ![t] = l]

-----------------------------------------------------------------------------
(* The profile states *)

NewState(config) ==
    [config |-> config, next_due |-> 0, mode |-> "none", last_status |-> "idle",
     last_result |-> None, run_count |-> 0, counts |-> [r \in Statuses |-> 0]]

\* FAULTY: every reload starts from zero.
BuildProfileStatesAnew(load, previous) == [n \in DOMAIN load |-> NewState(load[n])]

\* _build_profile_states: a profile keeps what was counted under its name when
\* _can_reuse_state finds that it still probes the same thing.
BuildProfileStates(load, previous) ==
    [n \in DOMAIN load |->
        IF n \in DOMAIN previous /\ previous[n].config.key = load[n].key
        THEN [previous[n] EXCEPT !.config = load[n]]
        ELSE NewState(load[n])]

\* _schedule_initial_runs: the profiles start one after the other, staggered
\* over the interval and never less than one second apart.
ScheduleInitialRuns(states, now) ==
    LET stagger == Max({Interval \div Max({Cardinality(DOMAIN states), 1}), 1})
        index(n) == Cardinality({m \in DOMAIN states : m < n})
    IN  [n \in DOMAIN states |-> [states[n] EXCEPT !.next_due = now + index(n) * stagger]]

Current == profiles[gen]
Held(s) == profiles[held[s].gen][held[s].name]
NoStates == [n \in {} |-> NewState(None)]
Counted(state) ==
    state.counts["success"] + state.counts["partial_success"] + state.counts["timeout"] + state.counts["failed"]
Executing(s) == pc[s] \in {"resolve", "unresolved", "probe"}
InFlight(g, n) == Cardinality({s \in Schedulers : Executing(s) /\ held[s] = [gen |-> g, name |-> n]})

-----------------------------------------------------------------------------
Init ==
    /\ enabled \in BOOLEAN
    /\ profiles = [g \in Generations |->
                      IF g = 0 THEN ScheduleInitialRuns(BuildProfileStates(FirstLoad, NoStates), 0) ELSE NoStates]
    /\ gen = 0 /\ clock = 0
    /\ thread = None /\ stopEvent = FALSE
    /\ pc = [t \in Schedulers \cup Waiters |->
                IF t \in Schedulers THEN "none" ELSE IF t = Main THEN "check" ELSE "idle"]
    /\ held = [s \in Schedulers |-> None]
    /\ handle = [c \in Waiters |-> None]
    /\ lost = [g \in Generations |-> [n \in Names |-> 0]]
    /\ survived = FALSE
    /\ overtaken = [n \in Names |-> [m \in Names |-> 0]]

-----------------------------------------------------------------------------
(* start(), stop() and reload() *)

\* reload() begins with stop(), and so does the application's shutdown.
\* Requests are served between the two ends of the lifespan only.
Stop(c) ==
    /\ pc[c] = "idle"
    /\ IF c = Main THEN \A d \in Callers : pc[d] = "idle"
                   ELSE pc[Main] = "idle" /\ gen + Cardinality({d \in Callers : pc[d] # "idle"}) < MaxLoads
    /\ handle' = [handle EXCEPT ![c] = thread]
    /\ thread' = None
    /\ stopEvent' = TRUE
    /\ Goto(c, "join")
    /\ UNCHANGED <<objectVars, enabled, held, clock, survived>>

\* FAULTY: stop() does not wait for the thread.
JoinSkipped(c) ==
    /\ pc[c] = "join"
    /\ Goto(c, IF c = Main THEN "off" ELSE "load")
    /\ handle' = [handle EXCEPT ![c] = None]
    /\ UNCHANGED <<objectVars, serviceVars, held, clock, survived>>

\* FAULTY: thread.join() without a timeout.
JoinForever(c) ==
    /\ pc[c] = "join"
    /\ handle[c] \notin Alive
    /\ Goto(c, IF c = Main THEN "off" ELSE "load")
    /\ handle' = [handle EXCEPT ![c] = None]
    /\ UNCHANGED <<objectVars, serviceVars, held, clock, survived>>

\* thread.join(timeout=2.0): the thread ended, it was never started (which
\* raises), or the two seconds are over.
Join(c) ==
    LET t == handle[c]
        stopped == IF c = Main THEN "off" ELSE "load"
    IN  /\ pc[c] = "join"
        /\ \/ t = None /\ Goto(c, stopped) /\ UNCHANGED survived
           \/ t # None /\ pc[t] \in {"dead", "crashed"} /\ Goto(c, stopped) /\ UNCHANGED survived
           \/ t # None /\ pc[t] = "created" /\ Goto(c, IF c = Main THEN "off" ELSE "idle") /\ UNCHANGED survived
           \/ t # None /\ IsAlive(t) /\ Goto(c, stopped) /\ survived' = TRUE
        /\ handle' = [handle EXCEPT ![c] = None]
        /\ UNCHANGED <<objectVars, serviceVars, held, clock>>

\* _load_profile_configs: a list without duplicates, from a file, from the
\* environment or the default one, or an error.
LoadOutcomes == Loads \cup {None}

\* The settings are taken over before the profiles are read: when reading them
\* fails, the request ends with the scheduler stopped.
Load(c) ==
    /\ pc[c] = "load"
    /\ enabled' \in BOOLEAN
    /\ \E load \in LoadOutcomes :
        IF load = None THEN Goto(c, "idle") /\ UNCHANGED objectVars
        ELSE LET states == ScheduleInitialRuns(BuildProfileStates(load, Current), clock)
             IN  /\ gen' = gen + 1
                 /\ profiles' = [profiles EXCEPT ![gen + 1] = states]
                 /\ lost' = [lost EXCEPT ![gen + 1] = [n \in Names |->
                        IF n \in DOMAIN states /\ states[n].run_count > 0 THEN lost[gen][n] + InFlight(gen, n) ELSE 0]]
                 /\ overtaken' = [n \in Names |-> [m \in Names |-> 0]]
                 /\ Goto(c, "check")
    /\ UNCHANGED <<thread, stopEvent, held, handle, clock, survived>>

\* "if self.enabled", which reload() and start() read outside the lock.
CheckEnabled(c) ==
    /\ pc[c] = "check"
    /\ Goto(c, IF enabled THEN "start" ELSE "idle")
    /\ UNCHANGED <<objectVars, serviceVars, held, handle, clock, survived>>

\* start(), under the lock.
Start(c) ==
    /\ pc[c] = "start"
    /\ IF thread # None /\ IsAlive(thread) THEN Goto(c, "idle") /\ UNCHANGED <<handle, thread, stopEvent>>
       ELSE \E s \in Schedulers :
                /\ pc[s] = "none" /\ \A x \in Schedulers : pc[x] = "none" => s <= x
                /\ stopEvent' = FALSE
                /\ thread' = s
                /\ handle' = [handle EXCEPT ![c] = s]
                /\ pc' = [pc EXCEPT ![c] = "launch", ![s] = "created"]
    /\ UNCHANGED <<objectVars, enabled, held, clock, survived>>

\* thread.start(), after the lock was released.
Launch(c) ==
    /\ pc[c] = "launch"
    /\ pc' = [pc EXCEPT ![c] = "idle", ![handle[c]] = "loop"]
    /\ handle' = [handle EXCEPT ![c] = None]
    /\ UNCHANGED <<objectVars, serviceVars, held, clock, survived>>

-----------------------------------------------------------------------------
(* _run() and _execute_profile() *)

\* The scheduler is done with the object it held.
Leave(s, l) == Goto(s, l) /\ held' = [held EXCEPT ![s] = None]

\* FAULTY: the first enabled profile of the list, due or not.
FirstListed(n, states) ==
    /\ n \in DOMAIN states /\ states[n].config.enabled
    /\ \A m \in DOMAIN states : states[m].config.enabled => n <= m

DueFirst(n, states) ==
    /\ n \in DOMAIN states /\ states[n].config.enabled
    /\ \A m \in DOMAIN states : states[m].config.enabled =>
           \/ states[n].next_due < states[m].next_due
           \/ states[n].next_due = states[m].next_due /\ n <= m

\* The head of the loop, and _next_due_profile.  A list without an enabled
\* profile leaves the scheduler where it is, half a second later.
Loop(s) ==
    /\ pc[s] = "loop"
    /\ \/ stopEvent /\ Goto(s, "dead") /\ UNCHANGED held
       \/ /\ ~ stopEvent
          /\ \E n \in Names : /\ DueFirst(n, Current)
                              /\ held' = [held EXCEPT ![s] = [gen |-> gen, name |-> n]]
          /\ Goto(s, "wait")
    /\ UNCHANGED <<objectVars, serviceVars, handle, clock, survived>>

\* The wait, at most half a second: back to the head of the loop when the
\* profile is not due yet.
Wait(s) ==
    /\ pc[s] = "wait"
    /\ \/ stopEvent /\ Leave(s, "dead")
       \/ ~ stopEvent /\ clock < Held(s).next_due /\ Leave(s, "loop")
       \/ ~ stopEvent /\ clock >= Held(s).next_due /\ Goto(s, "begin") /\ UNCHANGED held
    /\ UNCHANGED <<objectVars, serviceVars, handle, clock, survived>>

\* FAULTY: the object is looked up again, by the name of the profile.
UpdateCurrent(s, state) == profiles' = [profiles EXCEPT ![gen][held[s].name] = state]

Update(s, state) == profiles' = [profiles EXCEPT ![held[s].gen][held[s].name] = state]

Due(n) == n \in DOMAIN Current /\ Current[n].config.enabled /\ Current[n].next_due <= clock

Overtaking(s) ==
    IF held[s].gen # gen THEN overtaken
    ELSE [n \in Names |->
             IF n = held[s].name THEN [m \in Names |-> 0]
             ELSE IF Due(n)
                  THEN [overtaken[n] EXCEPT ![held[s].name] = @ + 1]
                  ELSE overtaken[n]]

\* FAULTY: the next run is not scheduled when this one starts.
BeginUnscheduled(s) ==
    /\ pc[s] = "begin"
    /\ Update(s, [Held(s) EXCEPT !.run_count = @ + 1])
    /\ overtaken' = Overtaking(s)
    /\ Goto(s, "resolve")
    /\ UNCHANGED <<gen, lost, serviceVars, held, handle, clock, survived>>

\* _execute_profile: the run is counted and the next one scheduled.
Begin(s) ==
    /\ pc[s] = "begin"
    /\ Update(s, [Held(s) EXCEPT !.run_count = @ + 1, !.next_due = clock + Interval])
    /\ overtaken' = Overtaking(s)
    /\ Goto(s, "resolve")
    /\ UNCHANGED <<gen, lost, serviceVars, held, handle, clock, survived>>

\* _resolve_target_name: a profile has its target, or needs none, or looks for
\* one in the topology, which may find none and may raise.
Resolutions(config) == IF config.auto THEN {"auto", "unresolved", "raised"} ELSE {"fixed"}

\* What raises here is not caught on the way to the end of the thread.
Resolve(s) ==
    /\ pc[s] = "resolve"
    /\ \E mode \in Resolutions(Held(s).config) :
        IF mode = "raised"
        THEN /\ Leave(s, "crashed")
             /\ lost' = [lost EXCEPT ![held[s].gen][held[s].name] = @ + 1]
             /\ UNCHANGED profiles
        ELSE /\ Goto(s, IF mode = "unresolved" THEN "unresolved" ELSE "probe")
             /\ Update(s, [Held(s) EXCEPT !.mode = mode])
             /\ UNCHANGED <<lost, held>>
    /\ UNCHANGED <<gen, overtaken, serviceVars, handle, clock, survived>>

\* FAULTY: the target is looked up again until there is one.
UnresolvedRetries(s) ==
    /\ pc[s] = "unresolved"
    /\ Goto(s, "resolve")
    /\ UNCHANGED <<objectVars, serviceVars, held, handle, clock, survived>>

\* No target: the run failed.  The result of the run before stays.
Unresolved(s) ==
    /\ pc[s] = "unresolved"
    /\ Update(s, [Held(s) EXCEPT !.last_status = "failed", !.counts["failed"] = @ + 1])
    /\ Leave(s, "loop")
    /\ UNCHANGED <<gen, lost, overtaken, serviceVars, handle, clock, survived>>

\* FAULTY: an exception leaves the result of the run before.
ProbeKeepsResult(s) ==
    /\ pc[s] = "probe"
    /\ \/ \E r \in Results : Update(s, [Held(s) EXCEPT !.last_status = r, !.last_result = r, !.counts[r] = @ + 1])
       \/ Update(s, [Held(s) EXCEPT !.last_status = "failed", !.counts["failed"] = @ + 1])
    /\ Leave(s, "loop")
    /\ UNCHANGED <<gen, lost, overtaken, serviceVars, handle, clock, survived>>

\* run_probe reports a result, or raises.
Probe(s) ==
    /\ pc[s] = "probe"
    /\ \/ \E r \in Results : Update(s, [Held(s) EXCEPT !.last_status = r, !.last_result = r, !.counts[r] = @ + 1])
       \/ Update(s, [Held(s) EXCEPT !.last_status = "failed", !.last_result = None, !.counts["failed"] = @ + 1])
    /\ Leave(s, "loop")
    /\ UNCHANGED <<gen, lost, overtaken, serviceVars, handle, clock, survived>>

Tick ==
    /\ clock < MaxTime
    /\ clock' = clock + 1
    /\ UNCHANGED <<objectVars, serviceVars, pc, held, handle, survived>>

CallerStep(c) == Join(c) \/ Load(c) \/ CheckEnabled(c) \/ Start(c) \/ Launch(c)
SchedulerStep(s) == Loop(s) \/ Wait(s) \/ Begin(s) \/ Unresolved(s)

\* Steps that talk to the databases, through commands that have no timeout.
CommandStep(s) == Resolve(s) \/ Probe(s)

Next ==
    \/ \E c \in Waiters : Stop(c) \/ CallerStep(c)
    \/ \E s \in Schedulers : SchedulerStep(s) \/ CommandStep(s)
    \/ Tick

Spec == Init /\ [][Next]_vars

\* Every thread that can run does.  Whether a request or a shutdown comes, a
\* command returns, and the clock advances, is left open.
FairSpec ==
    /\ Spec
    /\ \A c \in Waiters : WF_vars(CallerStep(c))
    /\ \A s \in Schedulers : WF_vars(SchedulerStep(s))

-----------------------------------------------------------------------------
(* Properties *)

ProfileStates ==
    [config : Config, next_due : Nat, mode : {"none", "fixed", "auto", "unresolved"},
     last_status : Statuses \cup {"idle"}, last_result : Statuses \cup {None},
     run_count : Nat, counts : [Statuses -> Nat]]

\* The types of the service's state, and that a scheduler at work holds an
\* object that exists.
TypeOK ==
    /\ enabled \in BOOLEAN /\ stopEvent \in BOOLEAN /\ survived \in BOOLEAN
    /\ gen \in Generations /\ clock \in Nat
    /\ DOMAIN profiles = Generations
    /\ \A g \in Generations : DOMAIN profiles[g] \subseteq Names
    /\ \A g \in Generations : \A n \in DOMAIN profiles[g] : profiles[g][n] \in ProfileStates
    /\ thread \in Schedulers \cup {None}
    /\ handle \in [Waiters -> Schedulers \cup {None}]
    /\ held \in [Schedulers -> Objects \cup {None}]
    /\ \A s \in Schedulers : held[s] # None => held[s].name \in DOMAIN profiles[held[s].gen]
    /\ lost \in [Generations -> [Names -> Nat]]
    /\ overtaken \in [Names -> [Names -> Nat]]

\* Every run that was counted when it started has been counted by its result,
\* is still in flight, or was lost for one of two reasons only: its scheduler
\* died, or a reload copied the counters while it was in flight.  This holds of
\* old objects too, and however schedulers and reloads overlap.
RunsAccounted ==
    \A g \in Generations : \A n \in DOMAIN profiles[g] :
        profiles[g][n].run_count = Counted(profiles[g][n]) + InFlight(g, n) + lost[g][n]

\* As long as stop() never gave up on a scheduler and reloads come one after the
\* other, at most one is running: two probes of the service never disturb each
\* other.  (Two reloads at once may each start a scheduler.)
SingleScheduler == survived \/ Cardinality(Alive) <= 1

\* A profile that is due is overtaken at most once by each other profile: a
\* slow or frequent profile does not starve the others.
OvertakenOnce == survived \/ \A n, m \in Names : overtaken[n][m] <= 1

\* The phases exported for a profile (last_result) belong to the run whose
\* status is exported (last_status), except after a run without a target, which
\* leaves the phases of an earlier run in place.
PhasesMatchStatus ==
    survived \/ \A n \in DOMAIN Current :
        LET state == Current[n]
        IN  InFlight(gen, n) = 0 /\ state.last_result \notin {None, state.last_status}
                => state.last_status = "failed" /\ state.mode = "unresolved"

\* The counters of a profile never go back while its list entry probes the same
\* thing: neither a reload nor a late result of an old scheduler resets them.
CountersOnlyGrow ==
    [][\A n \in DOMAIN Current \cap DOMAIN Current' :
           Current[n].config.key = Current'[n].config.key =>
               /\ Current'[n].run_count >= Current[n].run_count
               /\ \A r \in Statuses : Current'[n].counts[r] >= Current[n].counts[r]]_vars

\* Once the service is stopped for good, every scheduler ends, those that a
\* join gave up on included, but for one that waits for a command.
StopEndsSchedulers ==
    <>[]stopEvent => <>[](\A s \in Alive : pc[s] \in {"resolve", "probe"})

\* An enabled profile that is due gets its run, unless the service is stopped
\* or the scheduler died while it looked for a target, as long as commands
\* return.
DueProfileRuns ==
    (\A s \in Schedulers : []<>(pc[s] \notin {"resolve", "probe"})) =>
        \A n \in Names :
            (Due(n) /\ thread # None /\ ~ stopEvent)
                ~> (~ Due(n) \/ stopEvent \/ \E s \in Schedulers : pc[s] = "crashed")

\* A reload answers, even while the scheduler waits for a command that hangs.
ReloadReturns == \A c \in Callers : pc[c] # "idle" ~> pc[c] = "idle"

=============================================================================
