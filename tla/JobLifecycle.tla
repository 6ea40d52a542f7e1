----------------------------- MODULE JobLifecycle -----------------------------
(***************************************************************************)
(* What the job queue promises to whoever submits jobs: the lifecycle of a *)
(* job as its status shows it, with no lease, token, clock or process.     *)
(* A job is attempted a bounded number of times; its outcome stands until  *)
(* an operator resets it; the jobs in Exclusive that share a lane are      *)
(* never under way together, and each lane remembers which job last        *)
(* succeeded. JobQueueRefinement shows that JobQueue implements it.        *)
(***************************************************************************)
EXTENDS Naturals

CONSTANTS Jobs, Exclusive, Lanes, LaneOf, Budget, NoJob

VARIABLES phase,    \* the phase of each job
          attempts, \* how many attempts of its current budget each job has used
          latest    \* the job of each lane that last succeeded

lvars == <<phase, attempts, latest>>

UnderWay == {"waiting", "running"}

\* No other exclusive job of j's lane is under way.
LaneFree(j) ==
    j \in Exclusive =>
        \A k \in Exclusive \ {j} : LaneOf[k] = LaneOf[j] => phase[k] \notin UnderWay

Enter(j, p) == phase' = [phase EXCEPT ![j] = p]

LInit ==
    /\ phase = [j \in Jobs |-> "absent"]
    /\ attempts = [j \in Jobs |-> 0]
    /\ latest = [l \in Lanes |-> NoJob]

Submit(j) ==
    /\ phase[j] = "absent"
    /\ LaneFree(j)
    /\ Enter(j, "waiting")
    /\ UNCHANGED <<attempts, latest>>

\* An attempt starts, possibly over one that was given up for dead.
Attempt(j) ==
    /\ phase[j] \in UnderWay
    /\ attempts[j] < Budget
    /\ Enter(j, "running")
    /\ attempts' = [attempts EXCEPT ![j] = @ + 1]
    /\ UNCHANGED latest

PutBack(j) ==
    /\ phase[j] = "running"
    /\ attempts[j] < Budget
    /\ Enter(j, "waiting")
    /\ UNCHANGED <<attempts, latest>>

Succeed(j) ==
    /\ phase[j] = "running"
    /\ Enter(j, "succeeded")
    /\ latest' = IF j \in Exclusive THEN [latest EXCEPT ![LaneOf[j]] = j] ELSE latest
    /\ UNCHANGED attempts

\* The job fails for good, or its budget is spent.
GiveUp(j) ==
    /\ phase[j] = "running"
    /\ Enter(j, "failed")
    /\ UNCHANGED <<attempts, latest>>

Withdraw(j) ==
    /\ phase[j] \in UnderWay
    /\ Enter(j, "cancelled")
    /\ UNCHANGED <<attempts, latest>>

Reset(j) ==
    /\ phase[j] \in {"failed", "cancelled"}
    /\ LaneFree(j)
    /\ Enter(j, "waiting")
    /\ attempts' = [attempts EXCEPT ![j] = 0]
    /\ UNCHANGED latest

LNext ==
    \E j \in Jobs :
        \/ Submit(j) \/ Attempt(j) \/ PutBack(j) \/ Succeed(j)
        \/ GiveUp(j) \/ Withdraw(j) \/ Reset(j)

LSpec == LInit /\ [][LNext]_lvars
=============================================================================
