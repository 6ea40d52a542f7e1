-------------------------- MODULE JobQueueRefinement --------------------------
(***************************************************************************)
(* JobQueue implements JobLifecycle: pending and retrying jobs wait,       *)
(* exhausted jobs have failed, and a lane is a feature view.               *)
(***************************************************************************)
EXTENDS JobQueue

PhaseOf(status) ==
    CASE status \in {"pending", "retrying"} -> "waiting"
      [] status \in {"failed", "exhausted"} -> "failed"
      [] OTHER -> status

Lifecycle ==
    INSTANCE JobLifecycle WITH
        Jobs <- JobIds, Exclusive <- Incrementals, Lanes <- Views, LaneOf <- ViewOf,
        Budget <- MaxAttempts,
        phase <- [j \in JobIds |-> PhaseOf(jobs[j].status)],
        attempts <- [j \in JobIds |-> jobs[j].attempt_count],
        latest <- [v \in Views |-> states[v].last_successful_job_id]

\* Leases, tokens, clocks, crashes and late workers are invisible to a client: every
\* transaction of jobs.py is a step of the lifecycle or changes no status. In
\* particular the reservation rows give the mutual exclusion of a view's incremental
\* jobs that the lifecycle promises (create_incremental_materialization, retry).
ImplementsLifecycle == Lifecycle!LSpec
=============================================================================
