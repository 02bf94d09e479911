---------------------------- MODULE RunLifecycle ----------------------------
(***************************************************************************)
(* What a client that polls GET /traces/canary/runs/{probe_id} may rely    *)
(* on.  A run moves queued, running, finished, and is forgotten some time  *)
(* after it finished; a run that is forgotten never comes back.  A run     *)
(* that is not finished when the service starts is failed by the service.  *)
(* After the store has failed (degraded) the service may also fail the     *)
(* runs of its own process, resume or overwrite a run that it has failed,  *)
(* and forget a run that is active.                                        *)
(***************************************************************************)
CONSTANT Runs

VARIABLES status,    \* the state of each run
          up,        \* the service accepts requests
          degraded   \* the store has failed since the process began

Finished == {"success", "partial_success", "timeout", "failed"}
Unfinished == {"queued", "running"}

Init ==
    /\ status = [r \in Runs |-> "new"]
    /\ up = FALSE
    /\ degraded = FALSE

Move(r, from, to) ==
    /\ status[r] \in from
    /\ \E s \in to : status' = [status EXCEPT ![r] = s]
    /\ UNCHANGED <<up, degraded>>

Accept(r) == up /\ Move(r, {"new"}, Unfinished)
Begin(r) == Move(r, {"queued"}, {"running"})
Complete(r) == Move(r, {"running"}, Finished)

\* The caller was told that the run could not be recorded.
Refuse(r) == Move(r, {"new"}, {"gone"})

ForgetAll(S) ==
    /\ status' = [r \in Runs |-> IF r \in S THEN "gone" ELSE status[r]]
    /\ UNCHANGED <<up, degraded>>

Forget == \E S \in SUBSET {r \in Runs : status[r] \in Finished} : ForgetAll(S)

FailUnfinished ==
    /\ ~ up \/ degraded
    /\ status' = [r \in Runs |-> IF status[r] \in Unfinished THEN "failed" ELSE status[r]]
    /\ UNCHANGED <<up, degraded>>

\* Moves that only a process whose store has failed makes.
Overwrite(r) == degraded /\ Move(r, {"failed"}, {"running"} \cup Finished)
ForgetActive ==
    /\ degraded
    /\ \E S \in SUBSET {r \in Runs : status[r] \in Unfinished \cup Finished} : ForgetAll(S)

LoseNew ==
    \E S \in SUBSET {r \in Runs : status[r] = "new"} :
        status' = [r \in Runs |-> IF r \in S THEN "gone" ELSE status[r]]

\* A call of the store fails; the run it was to record, if any, is refused.
Degrade == degraded' = TRUE /\ UNCHANGED up /\ LoseNew

\* The service comes up or goes down; a process that ends loses the runs that
\* are not yet recorded.
Switch == up' \in BOOLEAN /\ degraded' \in {degraded, FALSE} /\ LoseNew

Next ==
    \/ \E r \in Runs : Accept(r) \/ Begin(r) \/ Complete(r) \/ Refuse(r) \/ Overwrite(r)
    \/ Forget \/ FailUnfinished \/ ForgetActive \/ Degrade \/ Switch

vars == <<status, up, degraded>>
Spec == Init /\ [][Next]_vars
=============================================================================
