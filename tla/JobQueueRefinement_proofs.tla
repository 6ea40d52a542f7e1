---------------------- MODULE JobQueueRefinement_proofs ----------------------
(***************************************************************************)
(* JobQueue implements JobLifecycle, for every value of its constants:     *)
(* each shape a step can have (JobQueue_proofs) is a step of the lifecycle *)
(* or a stutter.                                                           *)
(***************************************************************************)
EXTENDS JobQueueRefinement, JobQueue_proofs

\* The mapped state functions, named so that proofs can hide them.
Phase == [j \in JobIds |-> PhaseOf(jobs[j].status)]
Attempts == [j \in JobIds |-> jobs[j].attempt_count]
Latest == [v \in Views |-> states[v].last_successful_job_id]

\* A job that was never submitted has used no attempts.
AbsentInv == \A j \in JobIds : jobs[j].status = "absent" => jobs[j].attempt_count = 0

\* Everything the refinement needs to know of a state.
Ready == Sound /\ ReservationInv /\ AbsentInv

\* PhaseOf by cases: it tells the statuses apart that the lifecycle names.
LEMMA Phases ==
    /\ PhaseOf("absent") = "absent" /\ PhaseOf("running") = "running"
    /\ PhaseOf("pending") = "waiting" /\ PhaseOf("retrying") = "waiting"
    /\ PhaseOf("failed") = "failed" /\ PhaseOf("exhausted") = "failed"
    /\ PhaseOf("succeeded") = "succeeded" /\ PhaseOf("cancelled") = "cancelled"
BY DEF PhaseOf

\* A job under way in the lifecycle is an active job of the table, and conversely.
LEMMA UnderWayActive ==
    ASSUME NEW s \in Statuses
    PROVE  PhaseOf(s) \in {"waiting", "running"} <=> s \in Active
BY DEF PhaseOf, Statuses, Active, Terminal

\* AbsentInv is kept: no transaction deletes a job.
LEMMA AbsentStep ==
    ASSUME Ready, [Next]_vars PROVE AbsentInv'
<1>1. Shape
  BY StepShape DEF Ready, Sound
<1> QED
  BY <1>1 DEF Ready, AbsentInv, Shape, Quiet, Submitted, Started, PutBack, Ended, Won,
              Revived, Moves

\* Ready is inductive.
LEMMA ReadyStep ==
    ASSUME Ready, [Next]_vars PROVE Ready'
BY AbsentStep, SoundStep, ReservationStep DEF Ready

\* A step that changes one row changes one phase.
LEMMA PhaseMoves ==
    ASSUME NEW j \in JobIds, NEW s, jobs'[j].status = s,
           \A k \in JobIds \ {j} : jobs'[k] = jobs[k]
    PROVE  Phase' = [Phase EXCEPT ![j] = PhaseOf(s)]
BY DEF Phase

\* And one count of attempts.
LEMMA AttemptsMove ==
    ASSUME NEW j \in JobIds, NEW n, jobs'[j].attempt_count = n,
           \A k \in JobIds \ {j} : jobs'[k] = jobs[k]
    PROVE  Attempts' = [Attempts EXCEPT ![j] = n]
BY DEF Attempts

\* A count that stays is no change of the counts.
LEMMA AttemptsStay ==
    ASSUME NEW j \in JobIds, jobs'[j].attempt_count = jobs[j].attempt_count,
           \A k \in JobIds \ {j} : jobs'[k] = jobs[k]
    PROVE  Attempts' = Attempts
BY DEF Attempts

\* Reserving and releasing a view does not touch its last successful job.
LEMMA LatestStays ==
    ASSUME Typed, NEW j \in JobIds,
           states' = states \/ states' = Reserved(j) \/ states' = Released(j)
    PROVE  Latest' = Latest
<1>1. ASSUME NEW v \in Views
      PROVE  /\ Reserved(j)[v].last_successful_job_id = states[v].last_successful_job_id
             /\ Released(j)[v].last_successful_job_id = states[v].last_successful_job_id
  BY ReservationRows
<1>2. ASSUME NEW v \in Views
      PROVE  states'[v].last_successful_job_id = states[v].last_successful_job_id
  BY <1>1
<1> QED
  BY <1>2 DEF Latest

\* Publishing records the job as the last successful one of its view, if it has one.
LEMMA LatestMoves ==
    ASSUME Typed, NEW j \in JobIds, states' = Published(j)
    PROVE  Latest' = IF j \in Incrementals THEN [Latest EXCEPT ![ViewOf[j]] = j] ELSE Latest
<1>1. ASSUME NEW v \in Views
      PROVE  states'[v].last_successful_job_id =
               IF j \in Incrementals /\ ViewOf[j] = v THEN j
                                                      ELSE states[v].last_successful_job_id
  <2>1. Published(j)[v] = IF j \in Incrementals /\ ViewOf[j] = v
                            THEN [watermark |-> jobs[j].end, active_job_id |-> NoJob,
                                  last_successful_job_id |-> j]
                            ELSE states[v]
    BY ReservationRows
  <2> QED
    BY <2>1
<1>2. CASE j \in Incrementals
  BY <1>1, <1>2 DEF Latest
<1>3. CASE j \notin Incrementals
  BY <1>1, <1>3 DEF Latest
<1> QED
  BY <1>2, <1>3

\* Nobody else holds j's view, so no other exclusive job of its lane is under way: this
\* is where the reservation rows earn the lifecycle's mutual exclusion.
LEMMA LaneIsFree ==
    ASSUME Ready, NEW j \in JobIds, j \in Incrementals => ~HeldByOther(ViewOf[j], j)
    PROVE  j \in Incrementals =>
             \A k \in Incrementals \ {j} :
                ViewOf[k] = ViewOf[j] => Phase[k] \notin {"waiting", "running"}
<1>0. Incrementals \subseteq JobIds /\ NoJob \notin JobIds /\ jobs \in [JobIds -> Row]
  BY KindsAssumption DEF Ready, Sound, Typed, TypeOK, JobIds
<1>1. ASSUME j \in Incrementals, NEW k \in Incrementals \ {j}, ViewOf[k] = ViewOf[j]
      PROVE  jobs[k].status \notin Active
  BY <1>0, <1>1 DEF Ready, ReservationInv, HeldByOther
<1>2. ASSUME NEW k \in Incrementals
      PROVE  jobs[k].status \in Statuses /\ Phase[k] = PhaseOf(jobs[k].status)
  BY <1>0 DEF Row, Phase
<1> QED
  BY <1>1, <1>2, UnderWayActive

\* Every step of the queue is a step of the lifecycle or leaves it alone.
LEMMA StepSimulates ==
    ASSUME Ready, [Next]_vars PROVE [Lifecycle!LNext]_(Lifecycle!lvars)
<1>1. Shape
  BY StepShape DEF Ready, Sound
<1>2. Typed /\ jobs \in [JobIds -> Row]
  BY DEF Ready, Sound, Typed, TypeOK
<1>3. ASSUME NEW j \in JobIds
      PROVE  Phase[j] = PhaseOf(jobs[j].status) /\ Attempts[j] = jobs[j].attempt_count
  BY DEF Phase, Attempts
<1>4. CASE Quiet
  <2>1. Phase' = Phase /\ Attempts' = Attempts /\ Latest' = Latest
    BY <1>4 DEF Quiet, Phase, Attempts, Latest
  <2> QED
    BY <2>1 DEF Lifecycle!lvars, Phase, Attempts, Latest
<1>5. ASSUME NEW j \in JobIds, Submitted(j) PROVE Lifecycle!Submit(j)
  <2>1. Phase' = [Phase EXCEPT ![j] = "waiting"]
    BY <1>5, PhaseMoves, Phases DEF Submitted, Moves
  <2>2. Attempts' = Attempts
    BY <1>5, AttemptsStay DEF Submitted, Moves, Ready, AbsentInv
  <2>3. Latest' = Latest
    BY <1>2, <1>5, LatestStays DEF Submitted
  <2>4. Phase[j] = "absent"
    BY <1>3, <1>5, Phases DEF Submitted
  <2> QED
    BY <1>5, <2>1, <2>2, <2>3, <2>4, LaneIsFree
    DEF Submitted, Lifecycle!Submit, Lifecycle!LaneFree, Lifecycle!Enter,
        Lifecycle!UnderWay, Phase, Attempts, Latest
<1>6. ASSUME NEW j \in JobIds, Started(j) PROVE Lifecycle!Attempt(j)
  <2>1. Phase' = [Phase EXCEPT ![j] = "running"]
    BY <1>6, PhaseMoves, Phases DEF Started
  <2>2. Attempts' = [Attempts EXCEPT ![j] = Attempts[j] + 1]
    BY <1>3, <1>6, AttemptsMove DEF Started
  <2>3. Latest' = Latest
    BY <1>2, <1>6, LatestStays DEF Started
  <2>4. Phase[j] \in {"waiting", "running"}
    BY <1>2, <1>3, <1>6, UnderWayActive DEF Started, Row
  <2>5. Attempts[j] < MaxAttempts
    BY <1>2, <1>3, <1>6, SettingsAssumption DEF Started, Spent, Row
  <2> QED
    BY <2>1, <2>2, <2>3, <2>4, <2>5
    DEF Lifecycle!Attempt, Lifecycle!Enter, Lifecycle!UnderWay, Phase, Attempts, Latest
<1>7. ASSUME NEW j \in JobIds, PutBack(j) PROVE Lifecycle!PutBack(j)
  <2>1. Phase' = [Phase EXCEPT ![j] = "waiting"]
    BY <1>7, PhaseMoves, Phases DEF PutBack, Moves
  <2>2. Attempts' = Attempts
    BY <1>7, AttemptsStay DEF PutBack, Moves
  <2>3. Latest' = Latest
    BY <1>2, <1>7, LatestStays DEF PutBack
  <2>4. Phase[j] = "running"
    BY <1>3, <1>7, Phases DEF PutBack
  <2>5. Attempts[j] < MaxAttempts
    BY <1>2, <1>3, <1>7, SettingsAssumption DEF PutBack, Spent, Row
  <2> QED
    BY <2>1, <2>2, <2>3, <2>4, <2>5
    DEF Lifecycle!PutBack, Lifecycle!Enter, Phase, Attempts, Latest
<1>8. ASSUME NEW j \in JobIds, Ended(j) PROVE Lifecycle!Withdraw(j) \/ Lifecycle!GiveUp(j)
  <2>1. Attempts' = Attempts
    BY <1>8, AttemptsStay DEF Ended, Moves
  <2>2. Latest' = Latest
    BY <1>2, <1>8, LatestStays DEF Ended
  <2>3. CASE Moves(j, "cancelled")
    <3>1. Phase' = [Phase EXCEPT ![j] = "cancelled"]
      BY <2>3, PhaseMoves, Phases DEF Moves
    <3>2. Phase[j] \in {"waiting", "running"}
      BY <1>2, <1>3, <1>8, UnderWayActive DEF Ended, Row
    <3> QED
      BY <2>1, <2>2, <3>1, <3>2
      DEF Lifecycle!Withdraw, Lifecycle!Enter, Lifecycle!UnderWay, Phase, Attempts, Latest
  <2>4. CASE jobs[j].status = "running" /\ (Moves(j, "failed") \/ Moves(j, "exhausted"))
    <3>1. Phase' = [Phase EXCEPT ![j] = "failed"]
      BY <2>4, PhaseMoves, Phases DEF Moves
    <3>2. Phase[j] = "running"
      BY <1>3, <2>4, Phases
    <3> QED
      BY <2>1, <2>2, <3>1, <3>2
      DEF Lifecycle!GiveUp, Lifecycle!Enter, Phase, Attempts, Latest
  <2> QED
    BY <1>8, <2>3, <2>4 DEF Ended
<1>9. ASSUME NEW j \in JobIds, Won(j) PROVE Lifecycle!Succeed(j)
  <2>1. Phase' = [Phase EXCEPT ![j] = "succeeded"]
    BY <1>9, PhaseMoves, Phases DEF Won, Moves
  <2>2. Attempts' = Attempts
    BY <1>9, AttemptsStay DEF Won, Moves
  <2>3. Latest' = IF j \in Incrementals THEN [Latest EXCEPT ![ViewOf[j]] = j] ELSE Latest
    BY <1>2, <1>9, LatestMoves DEF Won
  <2>4. Phase[j] = "running"
    BY <1>3, <1>9, Phases DEF Won
  <2> QED
    BY <2>1, <2>2, <2>3, <2>4
    DEF Lifecycle!Succeed, Lifecycle!Enter, Phase, Attempts, Latest
<1>10. ASSUME NEW j \in JobIds, Revived(j) PROVE Lifecycle!Reset(j)
  <2>1. Phase' = [Phase EXCEPT ![j] = "waiting"]
    BY <1>10, PhaseMoves, Phases DEF Revived, Moves
  <2>2. Attempts' = [Attempts EXCEPT ![j] = 0]
    BY <1>10, AttemptsMove DEF Revived, Moves
  <2>3. Latest' = Latest
    BY <1>2, <1>10, LatestStays DEF Revived
  <2>4. Phase[j] \in {"failed", "cancelled"}
    BY <1>3, <1>10, Phases DEF Revived
  <2> QED
    BY <1>10, <2>1, <2>2, <2>3, <2>4, LaneIsFree
    DEF Revived, Lifecycle!Reset, Lifecycle!LaneFree, Lifecycle!Enter,
        Lifecycle!UnderWay, Phase, Attempts, Latest
<1> QED
  BY <1>1, <1>4, <1>5, <1>6, <1>7, <1>8, <1>9, <1>10 DEF Shape, Lifecycle!LNext

\* Leases, tokens, clocks, crashes and late workers are invisible to whoever submits
\* jobs: every transaction of jobs.py is a step of the lifecycle or changes no phase.
THEOREM Refinement == Spec => ImplementsLifecycle
<1>1. ASSUME Init PROVE Lifecycle!LInit
  BY <1>1, Phases DEF Init, NewRow, NoState, Lifecycle!LInit
<1>2. ASSUME Init PROVE Ready
  BY <1>2, SoundInit, KindsAssumption
  DEF Ready, Init, AbsentInv, ReservationInv, NewRow, NoState, Active, JobIds
<1> QED
  BY <1>1, <1>2, ReadyStep, StepSimulates, PTL
  DEF Spec, ImplementsLifecycle, Lifecycle!LSpec
=============================================================================
