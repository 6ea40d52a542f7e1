----------------------- MODULE JobQueueFaultFree_proofs -----------------------
(***************************************************************************)
(* Theorems about JobQueue that hold while particular faults stay away:    *)
(* each names in its statement the members of Faults it excludes. The runs *)
(* JobQueueSharedToken, JobQueueRetryRace and JobQueueAckLost show what a  *)
(* stalled claim, a stalled retry and a lost acknowledgement cost.         *)
(***************************************************************************)
EXTENDS JobQueue_proofs

\* What the columns of a row become, beside those SettledRow speaks of.
LEMMA SettledArtifacts ==
    ASSUME TypeOK, NEW j \in JobIds, NEW t \in Readings, NEW s \in Terminal
    PROVE  /\ Settled(j, s, t).checkpoints = jobs[j].checkpoints
           /\ Settled(j, s, t).artifacts_cleaned = jobs[j].artifacts_cleaned
           /\ j \in Historicals => /\ Settled(j, s, t).artifact_expires_at = t + TTL
                                   /\ Settled(j, s, t).artifact_expires_at # NoTime
<1> DEFINE row == Unleased(jobs[j])
<1>1. jobs[j] \in Row
  BY DEF TypeOK
<1>2. row \in Row /\ row.checkpoints = jobs[j].checkpoints
  BY <1>1, UnleasedRow
<1>3. row.artifacts_cleaned = jobs[j].artifacts_cleaned
  BY <1>1 DEF Unleased, Row
<1>4. t + TTL \in Nat /\ t + TTL > 0
  BY ReadingsNat, SettingsAssumption
<1>5. Settled(j, s, t) =
        [row EXCEPT !.status = s,
                    !.artifact_expires_at = IF j \in Historicals THEN t + TTL ELSE @]
  BY DEF Settled
<1> HIDE DEF row
<1> QED
  BY <1>2, <1>3, <1>4, <1>5 DEF Row, NoTime

\* A row put back for another attempt keeps its checkpoints.
LEMMA FailedArtifacts ==
    ASSUME Typed, NEW w \in Workers, NEW t \in Readings, exec[w].pc = "failed", Owns(w, t)
    PROVE  LET j == exec[w].job IN
           /\ Failed(w, t).checkpoints = jobs[j].checkpoints
           /\ Failed(w, t).status # "retrying" =>
                /\ Failed(w, t).artifacts_cleaned = jobs[j].artifacts_cleaned
                /\ j \in Historicals => Failed(w, t).artifact_expires_at # NoTime
<1> DEFINE j == exec[w].job
           row == Unleased(jobs[j])
<1>1. j \in JobIds /\ jobs[j] \in Row /\ TypeOK
  BY OwnerRow DEF Typed
<1>2. CASE exec[w].terminal
  <2>1. Failed(w, t) = Settled(j, "failed", t)
    BY <1>2 DEF Failed
  <2> QED
    BY <1>1, <2>1, SettledArtifacts DEF Terminal
<1>3. CASE ~exec[w].terminal /\ Spent(j)
  <2>1. Failed(w, t) = Settled(j, "exhausted", t)
    BY <1>3 DEF Failed
  <2> QED
    BY <1>1, <2>1, SettledArtifacts DEF Terminal
<1>4. CASE ~exec[w].terminal /\ ~Spent(j)
  <2> DEFINE due == t + Backoff(jobs[j].attempt_count)
  <2>1. row \in Row /\ row.checkpoints = jobs[j].checkpoints
    BY <1>1, UnleasedRow
  <2>2. Failed(w, t) = [row EXCEPT !.status = "retrying", !.next_attempt_at = due,
                                   !.artifact_expires_at = NoTime]
    BY <1>4 DEF Failed
  <2> HIDE DEF row, due
  <2> QED
    BY <2>1, <2>2 DEF Row
<1> QED
  BY <1>2, <1>3, <1>4

-----------------------------------------------------------------------------
(* What a step does to a row, to the artifacts and to the workers' memories *)

\* A new row; only a lost acknowledgement leaves a query without its input.
Appears(j) ==
    /\ jobs[j].status = "absent"
    /\ jobs'[j].checkpoints = 0
    /\ "ack_lost" \notin Faults /\ j \in Historicals => j \in inputs'

\* A retry; its checks and its write see the same state unless it is stalled.
Reopens(j) ==
    /\ jobs[j].status \in {"failed", "exhausted", "cancelled"}
    /\ jobs'[j].checkpoints = jobs[j].checkpoints
    /\ "stalled_retry" \notin Faults => \E t \in Readings : MayRetry(j, t)

Unsuccessful(j) ==
    /\ jobs[j].status \in Active
    /\ jobs'[j].status \in Terminal \ {"succeeded"}
    /\ jobs'[j].checkpoints = jobs[j].checkpoints
    /\ jobs'[j].artifacts_cleaned = jobs[j].artifacts_cleaned
    /\ j \in Historicals => jobs'[j].artifact_expires_at # NoTime

Waits(j) ==
    /\ jobs[j].status = "running"
    /\ jobs'[j].status = "retrying"
    /\ jobs'[j].checkpoints = jobs[j].checkpoints

RowStep(j) ==
    \/ jobs'[j] = jobs[j]
    \/ /\ Appears(j) \/ Reopens(j)
       /\ jobs'[j].status = "pending"
       /\ jobs'[j].lease_token = NoToken /\ jobs'[j].result = NoToken
    \/ /\ Unsuccessful(j) \/ Waits(j)
       /\ jobs'[j].lease_token = NoToken /\ jobs'[j].result = jobs[j].result
    \/ /\ jobs[j].status = "running"
       /\ \E n \in Nat : jobs'[j] = [jobs[j] EXCEPT !.lease_expires_at = n]

\* A worker goes on with its attempt, or forgets it.
GoesOn(w) ==
    /\ exec'[w].job = exec[w].job
    /\ exec'[w].token = exec[w].token
    /\ exec'[w].seen = exec[w].seen
    /\ exec'[w].pc # "claimed"
    /\ exec'[w].pc = "finalize" => exec[w].pc = "finalize" \/ exec[w].job \in Backfills

Forgets(w) == exec'[w] = Idle

\* The steps that issue no token, commit no checkpoint or success and touch no result.
Ordinary ==
    /\ now' >= now
    /\ issued' = issued /\ results' = results /\ inputs \subseteq inputs'
    /\ \A j \in JobIds : RowStep(j)
    /\ "stalled_claim" \notin Faults => \A w \in Workers : GoesOn(w) \/ Forgets(w)

\* A success, acknowledged or not.
Succeeds(w, t) ==
    /\ CommitSuccess(w, t)
    /\ Leave(w) \/ ("ack_lost" \in Faults /\ Goto(w, "failed"))

\* The other steps.
Special(w) ==
    \/ \E j \in JobIds, t \in Readings : Claim(w, j, t)
    \/ \E t \in Readings : \/ CommitCheckpoint(w, t) \/ Succeeds(w, t)
                           \/ CleanupExpiredArtifacts(w, t) \/ CleanupAborted(w, t)
    \/ WriteResult(w) \/ DiscardResult(w)

\* No process is between the two halves of a claim or of a retry.
Unstalled ==
    /\ "stalled_claim" \notin Faults => \A w \in Workers : exec[w].pc # "claimed"
    /\ "stalled_retry" \notin Faults => \A c \in Clients : checked[c] = NoJob

Base == Sound /\ Unstalled

\* A step that leaves memory, results and tokens alone.
LEMMA OrdinaryRows ==
    ASSUME Base, UNCHANGED <<now, issued, results, exec>>, inputs \subseteq inputs',
           \A j \in JobIds : RowStep(j)
    PROVE  Ordinary
BY DEF Base, Unstalled, Ordinary, GoesOn, Sound, Typed, TypeOK

\* The transactions of the API.
LEMMA OrdinaryAPI ==
    ASSUME Base, API PROVE Ordinary
<1>0. jobs \in [JobIds -> Row] /\ Typed /\ TypeOK
  BY DEF Base, Sound, Typed, TypeOK
<1>1. ASSUME NEW j \in JobIds, Create(j) \/ CreateAckLost(j) PROVE Ordinary
  <2>1. /\ UNCHANGED <<now, issued, results, exec>> /\ inputs \subseteq inputs'
        /\ jobs[j].status = "absent"
        /\ jobs' = [jobs EXCEPT ![j] = NewRow("pending", NoTime)]
        /\ "ack_lost" \notin Faults /\ j \in Historicals => j \in inputs'
    BY <1>1 DEF Create, CreateAckLost
  <2>2. \A k \in JobIds : RowStep(k)
    BY <1>0, <2>1 DEF RowStep, Appears, NewRow, NoToken
  <2> QED
    BY <2>1, <2>2, OrdinaryRows
<1>2. ASSUME NEW j \in JobIds, NEW c \in Cutoffs, CreateIncremental(j, c) PROVE Ordinary
  <2>1. /\ UNCHANGED <<now, issued, results, exec, inputs>>
        /\ jobs[j].status = "absent" /\ j \notin Historicals
        /\ jobs' = [jobs EXCEPT ![j] = NewRow("pending", c)]
    BY <1>2, KindsAssumption DEF CreateIncremental
  <2>2. \A k \in JobIds : RowStep(k)
    BY <1>0, <2>1 DEF RowStep, Appears, NewRow, NoToken
  <2> QED
    BY <2>1, <2>2, OrdinaryRows
<1>3. ASSUME NEW j \in JobIds, NEW t \in Readings, Cancel(j, t) PROVE Ordinary
  <2>1. /\ UNCHANGED <<now, issued, results, exec, inputs>>
        /\ jobs[j].status \in Active
        /\ jobs' = [jobs EXCEPT ![j] = Settled(j, "cancelled", t)]
    BY <1>3 DEF Cancel
  <2>2. RowStep(j)
    BY <1>0, <2>1, SettledRow, SettledArtifacts DEF RowStep, Unsuccessful, Terminal
  <2>3. \A k \in JobIds : RowStep(k)
    BY <1>0, <2>1, <2>2 DEF RowStep
  <2> QED
    BY <2>1, <2>3, OrdinaryRows
<1>4. ASSUME NEW j \in JobIds, RetryWrite(j),
             "stalled_retry" \notin Faults => \E t \in Readings : MayRetry(j, t)
      PROVE  Ordinary
  <2>1. /\ UNCHANGED <<now, issued, results, exec, inputs>>
        /\ jobs[j].status \in {"failed", "exhausted", "cancelled"}
        /\ jobs' = [jobs EXCEPT ![j] = Retried(jobs[j])]
    BY <1>4 DEF RetryWrite
  <2>2. RowStep(j)
    BY <1>0, <1>4, <2>1, RetriedRow DEF RowStep, Reopens
  <2>3. \A k \in JobIds : RowStep(k)
    BY <1>0, <2>1, <2>2 DEF RowStep
  <2> QED
    BY <2>1, <2>3, OrdinaryRows
<1>5. ASSUME NEW c \in Clients, RetryCommit(c) PROVE Ordinary
  <2>1. checked[c] \in JobIds /\ RetryWrite(checked[c]) /\ "stalled_retry" \in Faults
    BY <1>0, <1>5 DEF RetryCommit, TypeOK, Base, Unstalled
  <2> QED
    BY <1>4, <2>1
<1>6. ASSUME NEW c \in Clients,
             RetryRefused(c) \/ \E j \in JobIds, t \in Readings : RetryCheck(c, j, t)
      PROVE  Ordinary
  BY <1>6, OrdinaryRows DEF RetryRefused, RetryCheck, RowStep
<1> QED
  BY <1>1, <1>2, <1>3, <1>4, <1>5, <1>6 DEF API, Retry

\* What a worker remembers changes only for the worker that steps.
LEMMA OrdinaryMemory ==
    ASSUME Base, NEW w \in Workers, UNCHANGED <<now, issued, results, inputs>>,
           \A j \in JobIds : RowStep(j),
           "stalled_claim" \notin Faults => GoesOn(w) \/ Forgets(w),
           \A w2 \in Workers \ {w} : exec'[w2] = exec[w2]
    PROVE  Ordinary
BY DEF Base, Unstalled, Ordinary, GoesOn, Sound, Typed, TypeOK

\* The steps of an attempt that write neither the jobs table nor an object.
LEMMA OrdinaryQuiet ==
    ASSUME Base, NEW w \in Workers,
           \/ Refresh(w) \/ AssertToken(w) \/ ChunksDone(w) \/ ReadInput(w) \/ Crash(w)
           \/ \E t \in Readings : Start(w, t) \/ LeaseLost(w, t) \/ QueryDone(w, t)
                                  \/ FinalizeRefused(w, t)
           \/ \E terminal \in BOOLEAN : Fail(w, terminal)
    PROVE  Ordinary
<1>0. exec \in [Workers -> Exec] /\ exec[w] \in Exec
  BY DEF Base, Sound, Typed, TypeOK
<1>1. UNCHANGED <<now, jobs, issued, results, inputs>>
  BY DEF Refresh, AssertToken, ChunksDone, ReadInput, Crash, Start, LeaseLost, QueryDone,
         FinalizeRefused, Fail
<1>2. \A w2 \in Workers \ {w} : exec'[w2] = exec[w2]
  BY <1>0 DEF Refresh, AssertToken, ChunksDone, ReadInput, Crash, Start, LeaseLost, QueryDone,
         FinalizeRefused, Fail, Leave, Abandon, Goto
<1>3. \A j \in JobIds : RowStep(j)
  BY <1>1 DEF RowStep
<1>4. ASSUME "stalled_claim" \notin Faults PROVE GoesOn(w) \/ Forgets(w)
  <2>1. exec[w].pc # "claimed"
    BY <1>4 DEF Base, Unstalled
  <2>2. CASE Leave(w)
    BY <1>0, <2>2 DEF Leave, Forgets
  <2>3. CASE Abandon(w)
    BY <1>0, <2>1, <2>3 DEF Abandon, Forgets, GoesOn, Exec
  <2>4. CASE \E pc \in {"query", "writing", "failed"} : Goto(w, pc)
    BY <1>0, <2>4 DEF Goto, GoesOn, Exec
  <2>5. CASE ChunksDone(w)
    BY <1>0, <2>5 DEF ChunksDone, Goto, GoesOn, Exec
  <2>6. CASE \E t \in Readings : Start(w, t)
    <3>1. exec'[w] = [exec[w] EXCEPT !.pc = "body", !.beats = MaxBeats] \/ exec'[w] = Idle
      BY <1>0, <2>6 DEF Start
    <3> QED
      BY <1>0, <3>1 DEF GoesOn, Forgets, Exec
  <2>7. CASE \E terminal \in BOOLEAN : Fail(w, terminal)
    <3>1. PICK terminal \in BOOLEAN :
            exec'[w] = [exec[w] EXCEPT !.pc = "failed", !.terminal = terminal]
      BY <1>0, <2>7 DEF Fail
    <3> QED
      BY <1>0, <3>1 DEF GoesOn, Exec
  <2>8. ~Refresh(w)
    BY <2>1 DEF Refresh
  <2> QED
    BY <2>2, <2>3, <2>4, <2>5, <2>6, <2>7, <2>8
    DEF AssertToken, ReadInput, Crash, LeaseLost, QueryDone, FinalizeRefused
<1> QED
  BY <1>1, <1>2, <1>3, <1>4, OrdinaryMemory

\* The steps of a worker that write one row and leave its checkpoints alone.
LEMMA OrdinaryFenced ==
    ASSUME Base, NEW w \in Workers, NEW t \in Readings,
           \/ Heartbeat(w, t) \/ FinalizeFailure(w, t) \/ \E j \in JobIds : Exhaust(w, j, t)
    PROVE  Ordinary
<1>0. /\ jobs \in [JobIds -> Row] /\ exec \in [Workers -> Exec] /\ exec[w] \in Exec
      /\ Typed /\ TypeOK
  BY DEF Base, Sound, Typed, TypeOK
<1>1. ASSUME NEW j \in JobIds, Exhaust(w, j, t) PROVE Ordinary
  <2>1. /\ UNCHANGED <<now, issued, results, exec, inputs>>
        /\ jobs[j].status \in Active
        /\ jobs' = [jobs EXCEPT ![j] = Settled(j, "exhausted", t)]
    BY <1>1 DEF Exhaust, Eligible, Active
  <2>2. RowStep(j)
    BY <1>0, <2>1, SettledRow, SettledArtifacts DEF RowStep, Unsuccessful, Terminal
  <2>3. \A k \in JobIds : RowStep(k)
    BY <1>0, <2>1, <2>2 DEF RowStep
  <2> QED
    BY <2>1, <2>3, OrdinaryRows
<1>2. CASE Heartbeat(w, t)
  <2> DEFINE j == exec[w].job
  <2>1. /\ UNCHANGED <<now, issued, results, inputs>> /\ exec[w].beats > 0
        /\ \E n : exec' = [exec EXCEPT ![w].beats = n]
    BY <1>2 DEF Heartbeat
  <2>2. exec[w].pc # "idle" /\ j \in JobIds
    BY <1>0, <2>1 DEF Typed, ExecOK
  <2>3. \A k \in JobIds : RowStep(k)
    <3>1. CASE ~Owns(w, t)
      BY <1>2, <3>1 DEF Heartbeat, RowStep
    <3>2. CASE Owns(w, t)
      <4>1. jobs' = [jobs EXCEPT ![j].lease_expires_at = t + LeaseSeconds]
        BY <1>2, <3>2 DEF Heartbeat
      <4>2. jobs[j].status = "running" /\ t + LeaseSeconds \in Nat
        BY <1>0, <3>2, ReadingsNat, SettingsAssumption DEF Owns
      <4>3. jobs'[j] = [jobs[j] EXCEPT !.lease_expires_at = t + LeaseSeconds]
        BY <1>0, <2>2, <4>1
      <4> QED
        BY <1>0, <2>2, <4>1, <4>2, <4>3 DEF RowStep
    <3> QED
      BY <3>1, <3>2
  <2>4. "stalled_claim" \notin Faults => GoesOn(w)
    BY <1>0, <2>1 DEF Base, Unstalled, GoesOn, Exec
  <2>5. \A w2 \in Workers \ {w} : exec'[w2] = exec[w2]
    BY <1>0, <2>1
  <2> QED
    BY <2>1, <2>3, <2>4, <2>5, OrdinaryMemory
<1>3. CASE FinalizeFailure(w, t)
  <2> DEFINE j == exec[w].job
  <2>1. UNCHANGED <<now, issued, results, inputs>> /\ exec[w].pc = "failed" /\ Abandon(w)
    BY <1>3 DEF FinalizeFailure
  <2>2. \A k \in JobIds : RowStep(k)
    <3>1. CASE ~Owns(w, t)
      BY <1>3, <3>1 DEF FinalizeFailure, RowStep
    <3>2. CASE Owns(w, t)
      <4>1. jobs' = [jobs EXCEPT ![j] = Failed(w, t)]
        BY <1>3, <3>2 DEF FinalizeFailure
      <4>2. j \in JobIds /\ jobs[j].status = "running"
        BY <1>0, <2>1, <3>2, OwnerRow
      <4>3. jobs'[j] = Failed(w, t) /\ \A k \in JobIds \ {j} : jobs'[k] = jobs[k]
        BY <1>0, <4>1, <4>2
      <4>4. /\ Failed(w, t).status \in {"failed", "exhausted", "retrying"}
            /\ Failed(w, t).lease_token = NoToken
            /\ Failed(w, t).result = jobs[j].result
            /\ Failed(w, t).checkpoints = jobs[j].checkpoints
            /\ Failed(w, t).status # "retrying" =>
                 /\ Failed(w, t).artifacts_cleaned = jobs[j].artifacts_cleaned
                 /\ j \in Historicals => Failed(w, t).artifact_expires_at # NoTime
        BY <1>0, <2>1, <3>2, FailedRow, FailedArtifacts
      <4>5. RowStep(j)
        BY <4>2, <4>3, <4>4 DEF RowStep, Unsuccessful, Waits, Terminal, Active
      <4> QED
        BY <4>3, <4>5 DEF RowStep
    <3> QED
      BY <3>1, <3>2
  <2>3. "stalled_claim" \notin Faults => GoesOn(w) \/ Forgets(w)
    BY <1>0, <2>1 DEF Abandon, Forgets, GoesOn, Exec
  <2>4. \A w2 \in Workers \ {w} : exec'[w2] = exec[w2]
    BY <1>0, <2>1 DEF Abandon
  <2> QED
    BY <2>1, <2>2, <2>3, <2>4, OrdinaryMemory
<1> QED
  BY <1>1, <1>2, <1>3

\* Every step is ordinary or one of the special ones.
LEMMA StepKinds ==
    ASSUME Base, [Next]_vars PROVE Ordinary \/ \E w \in Workers : Special(w)
<1>1. CASE UNCHANGED vars
  BY <1>1, OrdinaryRows DEF vars, RowStep
<1>2. CASE Tick
  <2>1. now' = now + 1 /\ now \in Nat /\ UNCHANGED <<jobs, issued, inputs, results, exec>>
    BY <1>2 DEF Tick, Base, Sound, Typed, TypeOK
  <2> QED
    BY <2>1 DEF Ordinary, RowStep, GoesOn, Base, Unstalled
<1>3. ASSUME NEW w \in Workers, Worker(w) PROVE Ordinary \/ Special(w)
  <2>1. CASE \E t \in Readings : Heartbeat(w, t) \/ FinalizeFailure(w, t)
                                 \/ \E j \in JobIds : Exhaust(w, j, t)
    BY <2>1, OrdinaryFenced
  <2>2. CASE \/ Refresh(w) \/ AssertToken(w) \/ ChunksDone(w) \/ ReadInput(w) \/ Crash(w)
             \/ \E t \in Readings : Start(w, t) \/ LeaseLost(w, t) \/ QueryDone(w, t)
                                    \/ FinalizeRefused(w, t)
             \/ \E terminal \in BOOLEAN : Fail(w, terminal)
    BY <2>2, OrdinaryQuiet
  <2>3. CASE \E t \in Readings : FinalizeSuccess(w, t) \/ FinalizeSuccessAckLost(w, t)
    BY <2>3 DEF FinalizeSuccess, FinalizeSuccessAckLost, Succeeds, Special
  <2> QED
    BY <1>3, <2>1, <2>2, <2>3 DEF Worker, Execute, Poll, Sweep, Special
<1> QED
  BY <1>1, <1>2, <1>3, OrdinaryAPI DEF Next

\* A worker that is done with an attempt has forgotten its job and its token.
LEMMA IdleMemory == Idle.job = NoJob /\ Idle.token = NoToken /\ Idle.pc = "idle"
BY DEF Idle

\* Without stalls no process is ever seen between the halves of a claim or a retry.
LEMMA BaseStep ==
    ASSUME Base, [Next]_vars PROVE Base'
<1>0. exec \in [Workers -> Exec] /\ checked \in [Clients -> JobIds \cup {NoJob}]
  BY DEF Base, Sound, Typed, TypeOK
<1>1. ASSUME "stalled_claim" \notin Faults, NEW v \in Workers PROVE exec'[v].pc # "claimed"
  <2>0. exec[v].pc # "claimed" /\ exec[v] \in Exec
    BY <1>0, <1>1 DEF Base, Unstalled
  <2>1. CASE Ordinary
    BY <1>1, <2>1, IdleMemory DEF Ordinary, GoesOn, Forgets
  <2>2. CASE \E w \in Workers : Special(w)
    <3>1. PICK w \in Workers : Special(w)
      BY <2>2
    <3>2. CASE \E j \in JobIds, t \in Readings : Claim(w, j, t)
      BY <1>0, <1>1, <2>0, <3>2 DEF Claim, Idle
    <3>3. CASE \E t \in Readings : Succeeds(w, t)
      BY <1>0, <2>0, <3>3, IdleMemory DEF Succeeds, Leave, Goto, Exec
    <3>4. CASE \E t \in Readings : CommitCheckpoint(w, t)
      BY <1>0, <2>0, <3>4 DEF CommitCheckpoint, Exec
    <3>5. CASE WriteResult(w) \/ DiscardResult(w)
      BY <1>0, <2>0, <3>5, IdleMemory DEF WriteResult, DiscardResult, Leave, Exec
    <3>6. CASE \E t \in Readings : CleanupExpiredArtifacts(w, t) \/ CleanupAborted(w, t)
      BY <2>0, <3>6 DEF CleanupExpiredArtifacts, CleanupAborted
    <3> QED
      BY <3>1, <3>2, <3>3, <3>4, <3>5, <3>6 DEF Special
  <2> QED
    BY <2>1, <2>2, StepKinds
<1>2. ASSUME "stalled_retry" \notin Faults, NEW c \in Clients PROVE checked'[c] = NoJob
  <2>0. \A d \in Clients : checked[d] = NoJob
    BY <1>2 DEF Base, Unstalled
  <2>1. CASE API
    BY <1>2, <2>0, <2>1
    DEF API, Create, CreateAckLost, CreateIncremental, Cancel, Retry, RetryCheck,
        RetryCommit, RetryRefused
  <2>2. CASE Tick \/ UNCHANGED vars
    BY <2>0, <2>2 DEF Tick, vars
  <2>3. CASE \E w \in Workers : Worker(w)
    <3>1. PICK w \in Workers : Worker(w)
      BY <2>3
    <3>2. CASE \/ Refresh(w) \/ AssertToken(w) \/ ChunksDone(w) \/ ReadInput(w) \/ WriteResult(w)
               \/ DiscardResult(w) \/ Crash(w) \/ \E terminal \in BOOLEAN : Fail(w, terminal)
      BY <2>0, <3>2
      DEF Crash, Refresh, AssertToken, ChunksDone, ReadInput, WriteResult, DiscardResult, Fail
    <3>3. CASE \E t \in Readings : \/ Start(w, t) \/ LeaseLost(w, t) \/ CommitCheckpoint(w, t)
                                   \/ QueryDone(w, t) \/ Heartbeat(w, t)
      BY <2>0, <3>3 DEF Start, LeaseLost, CommitCheckpoint, QueryDone, Heartbeat
    <3>4. CASE \E t \in Readings : \/ FinalizeSuccess(w, t) \/ FinalizeSuccessAckLost(w, t)
                                   \/ FinalizeRefused(w, t) \/ FinalizeFailure(w, t)
      BY <2>0, <3>4
      DEF FinalizeSuccess, FinalizeSuccessAckLost, CommitSuccess, FinalizeRefused,
          FinalizeFailure
    <3>5. CASE \/ \E j \in JobIds, t \in Readings : Claim(w, j, t) \/ Exhaust(w, j, t)
               \/ \E t \in Readings : CleanupExpiredArtifacts(w, t) \/ CleanupAborted(w, t)
      BY <2>0, <3>5 DEF Claim, Exhaust, CleanupExpiredArtifacts, CleanupAborted
    <3> QED
      BY <3>1, <3>2, <3>3, <3>4, <3>5 DEF Worker, Execute, Poll, Sweep
  <2> QED
    BY <2>1, <2>2, <2>3 DEF Next
<1> QED
  BY <1>1, <1>2, SoundStep DEF Base, Unstalled

\* Nobody has started anything.
LEMMA BaseInit == ASSUME Init PROVE Base
<1>1. \A w \in Workers : exec[w].pc # "claimed"
  BY IdleMemory DEF Init
<1> QED
  BY <1>1, SoundInit DEF Init, Base, Unstalled

-----------------------------------------------------------------------------
(* One process per lease token *)

\* Inductive form of TokenIsPrivate: every remembered token was issued to its job.
PrivateInv ==
    /\ \A w \in Workers :
          IF exec[w].job = NoJob THEN exec[w].token = NoToken
          ELSE exec[w].token \in 1..issued[exec[w].job]
    /\ TokenIsPrivate

\* The steps of an attempt leave its job and its token, or forget both.
LEMMA MemoryKept ==
    ASSUME Base, "stalled_claim" \notin Faults, NEW w \in Workers,
           \/ \E t \in Readings : \/ CommitCheckpoint(w, t) \/ Succeeds(w, t)
                                  \/ CleanupExpiredArtifacts(w, t) \/ CleanupAborted(w, t)
           \/ WriteResult(w) \/ DiscardResult(w)
    PROVE  /\ issued' = issued
           /\ \A v \in Workers : \/ Forgets(v)
                                 \/ exec'[v].job = exec[v].job /\ exec'[v].token = exec[v].token
<1>0. exec \in [Workers -> Exec]
  BY DEF Base, Sound, Typed, TypeOK
<1>1. CASE \E t \in Readings : CommitCheckpoint(w, t)
  BY <1>0, <1>1 DEF CommitCheckpoint, Exec
<1>2. CASE \E t \in Readings : Succeeds(w, t)
  BY <1>0, <1>2 DEF Succeeds, CommitSuccess, Leave, Goto, Forgets, Exec
<1>3. CASE \E t \in Readings : CleanupExpiredArtifacts(w, t) \/ CleanupAborted(w, t)
  BY <1>3 DEF CleanupExpiredArtifacts, CleanupAborted
<1>4. CASE DiscardResult(w)
  BY <1>0, <1>4 DEF DiscardResult, Leave, Forgets
<1>5. CASE WriteResult(w)
  BY <1>0, <1>5 DEF WriteResult, Exec
<1> QED
  BY <1>1, <1>2, <1>3, <1>4, <1>5

\* A claim issues a token that no process remembers.
LEMMA ClaimMemory ==
    ASSUME Base, "stalled_claim" \notin Faults, NEW w \in Workers, NEW j \in JobIds,
           NEW t \in Readings, Claim(w, j, t)
    PROVE  /\ issued' = [issued EXCEPT ![j] = @ + 1]
           /\ \A v \in Workers \ {w} : exec'[v] = exec[v]
           /\ exec'[w].job = j /\ exec'[w].token = issued[j] + 1
           /\ exec'[w].pc = "holding" /\ exec'[w].seen = jobs[j].checkpoints
<1>1. /\ issued' = [issued EXCEPT ![j] = @ + 1]
      /\ exec' = [exec EXCEPT ![w] =
                    [Idle EXCEPT !.pc = "holding", !.job = j,
                                 !.token = Leased(j, t).lease_token,
                                 !.seen = jobs[j].checkpoints]]
  BY DEF Claim
<1>2. Leased(j, t).lease_token = issued[j] + 1
  BY LeasedRow DEF Claim, Base, Sound, Typed
<1>3. exec \in [Workers -> Exec]
  BY DEF Base, Sound, Typed, TypeOK
<1> QED
  BY <1>1, <1>2, <1>3 DEF Idle

\* Only a claim changes which tokens are remembered, and it adds an unused one.
LEMMA PrivateStep ==
    ASSUME Base, PrivateInv, "stalled_claim" \notin Faults, [Next]_vars PROVE PrivateInv'
<1>0. /\ issued \in [JobIds -> Nat] /\ NoJob \notin JobIds
      /\ \A v \in Workers : exec[v].job \in JobIds \cup {NoJob} /\ exec[v].token \in Nat
  BY KindsAssumption DEF Base, Sound, Typed, TypeOK, Exec
<1>1. CASE /\ issued' = issued
           /\ \A v \in Workers : \/ Forgets(v)
                                 \/ exec'[v].job = exec[v].job /\ exec'[v].token = exec[v].token
  BY <1>0, <1>1, IdleMemory DEF PrivateInv, TokenIsPrivate, Forgets
<1>2. ASSUME NEW w \in Workers, NEW j \in JobIds, NEW t \in Readings, Claim(w, j, t)
      PROVE  PrivateInv'
  <2>1. /\ issued'[j] = issued[j] + 1 /\ \A k \in JobIds \ {j} : issued'[k] = issued[k]
        /\ \A v \in Workers \ {w} : exec'[v] = exec[v]
        /\ exec'[w].job = j /\ exec'[w].token = issued[j] + 1
    BY <1>0, <1>2, ClaimMemory
  <2>2. ASSUME NEW v \in Workers
        PROVE  IF exec'[v].job = NoJob THEN exec'[v].token = NoToken
               ELSE exec'[v].token \in 1..issued'[exec'[v].job]
    <3>1. CASE v = w
      BY <1>0, <2>1, <3>1
    <3>2. CASE v # w
      <4>1. IF exec[v].job = NoJob THEN exec[v].token = NoToken
            ELSE exec[v].token \in 1..issued[exec[v].job]
        BY DEF PrivateInv
      <4> QED
        BY <1>0, <2>1, <3>2, <4>1
    <3> QED
      BY <3>1, <3>2
  <2>3. ASSUME NEW v \in Workers \ {w}, exec[v].job = j PROVE exec[v].token # issued[j] + 1
    BY <1>0, <2>3 DEF PrivateInv
  <2>4. TokenIsPrivate'
    BY <2>1, <2>3 DEF PrivateInv, TokenIsPrivate
  <2> QED
    BY <2>2, <2>4 DEF PrivateInv
<1>3. CASE Ordinary
  BY <1>1, <1>3 DEF Ordinary, GoesOn
<1> QED
  BY <1>1, <1>2, <1>3, StepKinds, MemoryKept DEF Special

\* Initially no process remembers a token.
LEMMA PrivateInit == ASSUME Init PROVE PrivateInv
BY IdleMemory DEF Init, PrivateInv, TokenIsPrivate

\* As long as claim_next's refresh follows its commit at once, no two processes ever
\* act under one lease token, through every crash, expiry, takeover and retry.
THEOREM TokensPrivate == "stalled_claim" \notin Faults => (Spec => []TokenIsPrivate)
<1> SUFFICES ASSUME "stalled_claim" \notin Faults PROVE Spec => []TokenIsPrivate
  OBVIOUS
<1>1. Init => Base /\ PrivateInv
  BY BaseInit, PrivateInit
<1>2. Base /\ PrivateInv /\ [Next]_vars => (Base /\ PrivateInv)'
  BY BaseStep, PrivateStep
<1>3. Base /\ PrivateInv => TokenIsPrivate
  BY DEF PrivateInv
<1> QED
  BY <1>1, <1>2, <1>3, PTL DEF Spec

-----------------------------------------------------------------------------
(* Checkpoints *)

\* The columns of a succeeded row that SucceededRow does not speak of.
LEMMA SucceededArtifacts ==
    ASSUME Typed, NEW w \in Workers, NEW t \in Readings, exec[w].pc # "idle"
    PROVE  LET j == exec[w].job IN
           /\ Succeeded(w, t).checkpoints = jobs[j].checkpoints
           /\ j \in Historicals => Succeeded(w, t).result = exec[w].token
           /\ j \notin Historicals => Succeeded(w, t).result = NoToken
           /\ j \in Historicals => Succeeded(w, t).artifact_expires_at # NoTime
<1> DEFINE j == exec[w].job
           row == Settled(j, "succeeded", t)
<1>1. j \in JobIds /\ exec[w].token \in Nat
  BY DEF Typed, TypeOK, ExecOK, Exec
<1>2. /\ row \in Row /\ row.checkpoints = jobs[j].checkpoints
      /\ j \in Historicals => row.artifact_expires_at # NoTime
  BY <1>1, SettledRow, SettledArtifacts DEF Terminal, Typed
<1>3. Succeeded(w, t) =
        [row EXCEPT !.result = IF j \in Historicals THEN exec[w].token ELSE NoToken]
  BY DEF Succeeded
<1> HIDE DEF row
<1> QED
  BY <1>1, <1>2, <1>3 DEF Row

\* What a success writes.
LEMMA SuccessRows ==
    ASSUME Base, NEW w \in Workers, NEW t \in Readings, Succeeds(w, t)
    PROVE  LET j == exec[w].job IN
           /\ j \in JobIds /\ jobs[j].status = "running"
           /\ jobs[j].lease_token = exec[w].token
           /\ jobs'[j].status = "succeeded" /\ jobs'[j].lease_token = NoToken
           /\ jobs'[j].checkpoints = jobs[j].checkpoints
           /\ jobs'[j].result = IF j \in Historicals THEN exec[w].token ELSE NoToken
           /\ j \in Historicals => jobs'[j].artifact_expires_at # NoTime
           /\ \A k \in JobIds \ {j} : jobs'[k] = jobs[k]
           /\ UNCHANGED <<now, inputs, results, issued>>
           /\ \A v \in Workers \ {w} : exec'[v] = exec[v]
<1> DEFINE j == exec[w].job
<1>1. /\ exec[w].pc = "finalize" /\ Owns(w, t) /\ Typed
      /\ jobs' = [jobs EXCEPT ![j] = Succeeded(w, t)]
      /\ UNCHANGED <<now, inputs, results, issued>>
  BY DEF Succeeds, CommitSuccess, Base, Sound
<1>2. jobs \in [JobIds -> Row] /\ exec \in [Workers -> Exec]
  BY <1>1 DEF Typed, TypeOK
<1>3. j \in JobIds /\ jobs[j].status = "running" /\ jobs[j].lease_token = exec[w].token
  BY <1>1, OwnerRow
<1>4. jobs'[j] = Succeeded(w, t) /\ \A k \in JobIds \ {j} : jobs'[k] = jobs[k]
  BY <1>1, <1>2, <1>3
<1>5. \A v \in Workers \ {w} : exec'[v] = exec[v]
  BY <1>2 DEF Succeeds, Leave, Goto
<1> HIDE DEF j
<1>6. /\ Succeeded(w, t).status = "succeeded" /\ Succeeded(w, t).lease_token = NoToken
      /\ Succeeded(w, t).checkpoints = jobs[j].checkpoints
      /\ Succeeded(w, t).result = IF j \in Historicals THEN exec[w].token ELSE NoToken
      /\ j \in Historicals => Succeeded(w, t).artifact_expires_at # NoTime
  BY <1>1, SucceededRow, SucceededArtifacts DEF j
<1> QED
  BY <1>1, <1>3, <1>4, <1>5, <1>6 DEF j

\* What a fenced checkpoint writes.
LEMMA CheckpointRows ==
    ASSUME Base, NEW w \in Workers, NEW t \in Readings, CommitCheckpoint(w, t)
    PROVE  LET j == exec[w].job
               done == IF j \in Backfills THEN exec[w].seen + 1 ELSE 1
           IN
           /\ j \in JobIds \ Historicals /\ jobs[j].status = "running"
           /\ jobs[j].lease_token = exec[w].token
           /\ jobs'[j] = [jobs[j] EXCEPT !.checkpoints = done]
           /\ \A k \in JobIds \ {j} : jobs'[k] = jobs[k]
           /\ UNCHANGED <<now, inputs, results, issued>>
           /\ exec'[w].job = j /\ exec'[w].token = exec[w].token /\ exec'[w].seen = done
           /\ \A v \in Workers \ {w} : exec'[v] = exec[v]
<1> DEFINE j == exec[w].job
           done == IF j \in Backfills THEN exec[w].seen + 1 ELSE 1
<1>1. /\ exec[w].pc = "body" /\ Owns(w, t) /\ Typed /\ j \notin Historicals
      /\ jobs' = [jobs EXCEPT ![j].checkpoints = done]
      /\ exec' = [exec EXCEPT ![w] =
                    [exec[w] EXCEPT !.seen = done,
                                    !.pc = IF j \in Backfills THEN "body" ELSE "finalize"]]
      /\ UNCHANGED <<now, inputs, results, issued>>
  BY DEF CommitCheckpoint, Base, Sound
<1>2. jobs \in [JobIds -> Row] /\ exec \in [Workers -> Exec]
  BY <1>1 DEF Typed, TypeOK
<1>3. j \in JobIds /\ jobs[j].status = "running" /\ jobs[j].lease_token = exec[w].token
  BY <1>1, OwnerRow
<1>4. /\ jobs'[j] = [jobs[j] EXCEPT !.checkpoints = done]
      /\ \A k \in JobIds \ {j} : jobs'[k] = jobs[k]
  BY <1>1, <1>2, <1>3
<1>5. \A v \in Workers \ {w} : exec'[v] = exec[v]
  BY <1>1, <1>2
<1>6. exec'[w].job = j /\ exec'[w].token = exec[w].token /\ exec'[w].seen = done
  <2> HIDE DEF done
  <2> QED
    BY <1>1, <1>2 DEF Exec
<1> QED
  BY <1>1, <1>3, <1>4, <1>5, <1>6

\* What a sweep leaves alone.
LEMMA SweepRows ==
    ASSUME Base, NEW w \in Workers, NEW t \in Readings,
           CleanupExpiredArtifacts(w, t) \/ CleanupAborted(w, t)
    PROVE  /\ \A j \in JobIds : \/ jobs'[j] = jobs[j]
                                \/ jobs'[j] = [jobs[j] EXCEPT !.artifacts_cleaned = TRUE]
           /\ UNCHANGED <<now, issued, exec>>
BY DEF CleanupExpiredArtifacts, CleanupAborted

\* The worker that holds a job's lease has the committed checkpoints in memory, and a
\* job that does not exist yet has none.
SeenInv ==
    /\ \A w \in Workers :
          exec[w].job \in Backfills /\ jobs[exec[w].job].lease_token = exec[w].token
            => exec[w].seen = jobs[exec[w].job].checkpoints
    /\ \A j \in JobIds : jobs[j].status = "absent" => jobs[j].checkpoints = 0

\* A step that commits no checkpoint and issues no token keeps what the holder knows.
LEMMA SeenKept ==
    ASSUME Base, PrivateInv, SeenInv,
           \A j \in JobIds :
              /\ jobs'[j].lease_token \in {jobs[j].lease_token, NoToken}
              /\ \/ jobs'[j].checkpoints = jobs[j].checkpoints
                 \/ /\ jobs[j].status = "absent" /\ jobs'[j].checkpoints = 0
                    /\ jobs'[j].lease_token = NoToken
              /\ jobs'[j].status = "absent" => jobs[j].status = "absent",
           \A v \in Workers : \/ Forgets(v)
                              \/ /\ exec'[v].job = exec[v].job /\ exec'[v].token = exec[v].token
                                 /\ exec'[v].seen = exec[v].seen
    PROVE  SeenInv' /\ \A j \in JobIds : jobs'[j].checkpoints >= jobs[j].checkpoints
<1>0. /\ NoJob \notin Backfills /\ Backfills \subseteq JobIds
      /\ issued \in [JobIds -> Nat]
      /\ \A j \in JobIds : jobs[j].checkpoints \in Nat
  BY KindsAssumption, SettingsAssumption DEF JobIds, Base, Sound, Typed, TypeOK, Row
<1>1. ASSUME NEW w \in Workers, exec'[w].job \in Backfills,
             jobs'[exec'[w].job].lease_token = exec'[w].token
      PROVE  exec'[w].seen = jobs'[exec'[w].job].checkpoints
  <2>1. /\ exec'[w].job = exec[w].job /\ exec'[w].token = exec[w].token
        /\ exec'[w].seen = exec[w].seen
    BY <1>0, <1>1, IdleMemory DEF Forgets
  <2>2. exec[w].token # NoToken
    BY <1>0, <1>1, <2>1 DEF PrivateInv, NoToken
  <2> QED
    BY <1>0, <1>1, <2>1, <2>2 DEF SeenInv
<1>2. \A j \in JobIds : jobs'[j].status = "absent" => jobs'[j].checkpoints = 0
  BY DEF SeenInv
<1>3. \A j \in JobIds : jobs'[j].checkpoints >= jobs[j].checkpoints
  BY <1>0 DEF SeenInv
<1> QED
  BY <1>1, <1>2, <1>3 DEF SeenInv

\* The holder's knowledge stays right, and no committed chunk is taken back.
LEMMA SeenStep ==
    ASSUME Base, PrivateInv, SeenInv, "stalled_claim" \notin Faults, [Next]_vars
    PROVE  SeenInv' /\ \A j \in Backfills : jobs'[j].checkpoints >= jobs[j].checkpoints
<1>0. /\ NoJob \notin Backfills /\ Backfills \subseteq JobIds
      /\ issued \in [JobIds -> Nat] /\ jobs \in [JobIds -> Row]
      /\ exec \in [Workers -> Exec]
      /\ \A j \in JobIds : jobs[j].checkpoints \in Nat
  BY KindsAssumption, SettingsAssumption DEF JobIds, Base, Sound, Typed, TypeOK, Row
<1>1. CASE Ordinary
  <2>1. ASSUME NEW j \in JobIds
        PROVE  /\ jobs'[j].lease_token \in {jobs[j].lease_token, NoToken}
               /\ \/ jobs'[j].checkpoints = jobs[j].checkpoints
                  \/ /\ jobs[j].status = "absent" /\ jobs'[j].checkpoints = 0
                     /\ jobs'[j].lease_token = NoToken
               /\ jobs'[j].status = "absent" => jobs[j].status = "absent"
    <3>1. jobs[j] \in Row /\ RowStep(j)
      BY <1>0, <1>1 DEF Ordinary
    <3>2. CASE \E n \in Nat : jobs'[j] = [jobs[j] EXCEPT !.lease_expires_at = n]
      BY <3>1, <3>2 DEF Row
    <3>3. CASE ~\E n \in Nat : jobs'[j] = [jobs[j] EXCEPT !.lease_expires_at = n]
      BY <3>1, <3>3 DEF RowStep, Appears, Reopens, Unsuccessful, Waits, Terminal
    <3> QED
      BY <3>2, <3>3
  <2> QED
    BY <1>0, <1>1, <2>1, SeenKept DEF Ordinary, GoesOn
<1>2. ASSUME NEW w \in Workers, NEW j \in JobIds, NEW t \in Readings, Claim(w, j, t)
      PROVE  SeenInv' /\ \A k \in Backfills : jobs'[k].checkpoints >= jobs[k].checkpoints
  <2>1. /\ \A v \in Workers \ {w} : exec'[v] = exec[v]
        /\ exec'[w].job = j /\ exec'[w].token = issued[j] + 1
        /\ exec'[w].seen = jobs[j].checkpoints
    BY <1>2, ClaimMemory
  <2>2. /\ jobs'[j] = Leased(j, t) /\ \A k \in JobIds \ {j} : jobs'[k] = jobs[k]
        /\ ~Spent(j)
    BY <1>0, <1>2 DEF Claim
  <2>3. /\ jobs'[j].checkpoints = jobs[j].checkpoints
        /\ jobs'[j].lease_token = issued[j] + 1 /\ jobs'[j].status = "running"
    BY <2>2, LeasedRow DEF Base, Sound, Typed
  <2>4. ASSUME NEW v \in Workers, exec'[v].job \in Backfills,
               jobs'[exec'[v].job].lease_token = exec'[v].token
        PROVE  exec'[v].seen = jobs'[exec'[v].job].checkpoints
    <3>1. CASE v = w
      BY <2>1, <2>3, <3>1
    <3>2. CASE v # w
      <4>1. exec'[v] = exec[v] /\ exec[v].job \in Backfills
        BY <2>1, <2>4, <3>2
      <4>2. exec[v].token \in 1..issued[exec[v].job]
        BY <1>0, <4>1 DEF PrivateInv
      <4>3. exec[v].job # j
        BY <1>0, <2>3, <2>4, <4>1, <4>2
      <4> QED
        BY <1>0, <2>2, <2>4, <4>1, <4>3 DEF SeenInv
    <3> QED
      BY <3>1, <3>2
  <2> QED
    BY <1>0, <2>2, <2>3, <2>4 DEF SeenInv
<1>3. ASSUME NEW w \in Workers, NEW t \in Readings, CommitCheckpoint(w, t)
      PROVE  SeenInv' /\ \A k \in Backfills : jobs'[k].checkpoints >= jobs[k].checkpoints
  <2> DEFINE j == exec[w].job
             done == IF j \in Backfills THEN exec[w].seen + 1 ELSE 1
  <2>1. /\ j \in JobIds /\ jobs[j].status = "running" /\ jobs[j].lease_token = exec[w].token
        /\ jobs'[j] = [jobs[j] EXCEPT !.checkpoints = done]
        /\ \A k \in JobIds \ {j} : jobs'[k] = jobs[k]
        /\ exec'[w].job = j /\ exec'[w].token = exec[w].token /\ exec'[w].seen = done
        /\ \A v \in Workers \ {w} : exec'[v] = exec[v]
    BY <1>3, CheckpointRows
  <2>2. j \in Backfills => done = jobs[j].checkpoints + 1
    BY <2>1 DEF SeenInv
  <2> HIDE DEF done
  <2>3. /\ jobs'[j].checkpoints = done /\ jobs'[j].status = "running"
        /\ jobs'[j].lease_token = exec[w].token
    BY <1>0, <2>1 DEF Row
  <2>4. ASSUME NEW v \in Workers, exec'[v].job \in Backfills,
               jobs'[exec'[v].job].lease_token = exec'[v].token
        PROVE  exec'[v].seen = jobs'[exec'[v].job].checkpoints
    <3>1. CASE v = w
      BY <2>1, <2>3, <3>1
    <3>2. CASE v # w
      <4>1. exec'[v] = exec[v] /\ exec[v].job \in Backfills
        BY <2>1, <2>4, <3>2
      <4>2. exec[v].token # NoToken
        BY <1>0, <4>1 DEF PrivateInv, NoToken
      <4>3. exec[v].job # j
        BY <2>3, <2>4, <3>2, <4>1, <4>2 DEF PrivateInv, TokenIsPrivate
      <4> QED
        BY <1>0, <2>1, <2>4, <4>1, <4>3 DEF SeenInv
    <3> QED
      BY <3>1, <3>2
  <2>5. \A k \in JobIds : jobs'[k].status = "absent" => jobs'[k].checkpoints = 0
    BY <2>1, <2>3 DEF SeenInv
  <2>6. ASSUME NEW k \in Backfills PROVE jobs'[k].checkpoints >= jobs[k].checkpoints
    <3>1. CASE k = j
      <4>1. j \in Backfills /\ jobs[j].checkpoints \in Nat
        BY <1>0, <3>1
      <4>2. jobs'[j].checkpoints = jobs[j].checkpoints + 1
        BY <2>2, <2>3, <4>1
      <4> QED
        BY <3>1, <4>1, <4>2
    <3>2. CASE k # j
      <4>1. jobs'[k] = jobs[k] /\ jobs[k].checkpoints \in Nat
        BY <1>0, <2>1, <3>2
      <4> QED
        BY <4>1
    <3> QED
      BY <3>1, <3>2
  <2> QED
    BY <2>4, <2>5, <2>6 DEF SeenInv
<1>4. ASSUME NEW w \in Workers, NEW t \in Readings, Succeeds(w, t)
      PROVE  SeenInv' /\ \A k \in JobIds : jobs'[k].checkpoints >= jobs[k].checkpoints
  <2>1. ASSUME NEW k \in JobIds
        PROVE  /\ jobs'[k].lease_token \in {jobs[k].lease_token, NoToken}
               /\ jobs'[k].checkpoints = jobs[k].checkpoints
               /\ jobs'[k].status = "absent" => jobs[k].status = "absent"
    BY <1>4, SuccessRows
  <2>2. ASSUME NEW v \in Workers
        PROVE  \/ Forgets(v)
               \/ /\ exec'[v].job = exec[v].job /\ exec'[v].token = exec[v].token
                  /\ exec'[v].seen = exec[v].seen
    <3>1. CASE Leave(w)
      BY <1>0, <3>1 DEF Leave, Forgets
    <3>2. CASE Goto(w, "failed")
      BY <1>0, <3>2 DEF Goto, Exec
    <3> QED
      BY <1>4, <3>1, <3>2 DEF Succeeds
  <2> QED
    BY <2>1, <2>2, SeenKept
<1>5. ASSUME NEW w \in Workers, WriteResult(w) \/ DiscardResult(w)
      PROVE  SeenInv' /\ \A k \in JobIds : jobs'[k].checkpoints >= jobs[k].checkpoints
  <2>1. jobs' = jobs
    BY <1>5 DEF WriteResult, DiscardResult
  <2>2. ASSUME NEW v \in Workers
        PROVE  \/ Forgets(v)
               \/ /\ exec'[v].job = exec[v].job /\ exec'[v].token = exec[v].token
                  /\ exec'[v].seen = exec[v].seen
    <3>1. CASE DiscardResult(w)
      BY <1>0, <3>1 DEF DiscardResult, Leave, Forgets
    <3>2. CASE WriteResult(w)
      BY <1>0, <3>2 DEF WriteResult, Exec
    <3> QED
      BY <1>5, <3>1, <3>2
  <2> QED
    BY <2>1, <2>2, SeenKept
<1>6. ASSUME NEW w \in Workers, NEW t \in Readings,
             CleanupExpiredArtifacts(w, t) \/ CleanupAborted(w, t)
      PROVE  SeenInv' /\ \A k \in JobIds : jobs'[k].checkpoints >= jobs[k].checkpoints
  <2>1. ASSUME NEW k \in JobIds
        PROVE  /\ jobs'[k].lease_token \in {jobs[k].lease_token, NoToken}
               /\ jobs'[k].checkpoints = jobs[k].checkpoints
               /\ jobs'[k].status = "absent" => jobs[k].status = "absent"
    BY <1>0, <1>6, SweepRows DEF Row
  <2> QED
    BY <1>6, <2>1, SweepRows, SeenKept
<1> QED
  BY <1>0, <1>1, <1>2, <1>3, <1>4, <1>5, <1>6, StepKinds DEF Special

\* Initially there are no jobs.
LEMMA SeenInit == ASSUME Init PROVE SeenInv
BY KindsAssumption, IdleMemory DEF Init, SeenInv, NewRow, JobIds

\* As long as claim_next's refresh follows its commit at once, the list of committed
\* chunks of a backfill only grows: a worker that was overtaken is fenced off, and the
\* one that holds the lease appends to the list the database has.
THEOREM CheckpointsKept == "stalled_claim" \notin Faults => (Spec => CheckpointsNeverRegress)
<1> SUFFICES ASSUME "stalled_claim" \notin Faults PROVE Spec => CheckpointsNeverRegress
  OBVIOUS
<1>1. Init => Base /\ PrivateInv /\ SeenInv
  BY BaseInit, PrivateInit, SeenInit
<1>2. Base /\ PrivateInv /\ SeenInv /\ [Next]_vars => (Base /\ PrivateInv /\ SeenInv)'
  BY BaseStep, PrivateStep, SeenStep
<1>3. Base /\ PrivateInv /\ SeenInv /\ [Next]_vars =>
        [\A j \in Backfills : jobs'[j].checkpoints >= jobs[j].checkpoints]_vars
  BY SeenStep
<1> QED
  BY <1>1, <1>2, <1>3, PTL DEF Spec, CheckpointsNeverRegress

-----------------------------------------------------------------------------
(* The inputs of historical queries *)

\* The faults that leave a query without its input, left out: a retry that commits on
\* an old check, a lost acknowledgement, and an aborted sweep seen by a late clock.
InputSafe ==
    /\ "stalled_retry" \notin Faults /\ "ack_lost" \notin Faults
    /\ "sweep_abort" \notin Faults \/ MaxDelay = 0

\* Inductive form of InputRetained: what keeps retry from accepting a query whose
\* input is gone is either the retention deadline or the mark of the sweep.
InputInv ==
    \A j \in Historicals :
        /\ jobs[j].status \in Active => j \in inputs
        /\ jobs[j].status \in Terminal =>
             /\ jobs[j].artifact_expires_at # NoTime
             /\ jobs[j].artifact_expires_at > now => j \in inputs
             /\ "sweep_abort" \notin Faults /\ ~jobs[j].artifacts_cleaned => j \in inputs

\* A row that is left alone keeps its part of the invariant while time passes.
LEMMA InputRowKept ==
    ASSUME Base, InputInv, NEW j \in Historicals, jobs'[j] = jobs[j], now' \in Nat, now' >= now,
           j \in inputs => j \in inputs'
    PROVE  /\ jobs'[j].status \in Active => j \in inputs'
           /\ jobs'[j].status \in Terminal =>
                /\ jobs'[j].artifact_expires_at # NoTime
                /\ jobs'[j].artifact_expires_at > now' => j \in inputs'
                /\ "sweep_abort" \notin Faults /\ ~jobs'[j].artifacts_cleaned => j \in inputs'
<1>1. now \in Nat /\ jobs[j].artifact_expires_at \in Nat
  BY DEF Base, Sound, Typed, TypeOK, Row, JobIds
<1> QED
  BY <1>1 DEF InputInv

\* The handlers and the sweep keep the inputs that a query may still need.
LEMMA InputStep ==
    ASSUME Base, InputInv, InputSafe, [Next]_vars PROVE InputInv'
<1>0. /\ Historicals \subseteq JobIds /\ jobs \in [JobIds -> Row] /\ now \in Nat
      /\ exec \in [Workers -> Exec] /\ now' \in Nat
      /\ Active \cap Terminal = {}
  BY TypedStep DEF JobIds, Base, Sound, Typed, TypeOK, Active, Terminal
<1> DEFINE Ok(j) ==
             /\ jobs'[j].status \in Active => j \in inputs'
             /\ jobs'[j].status \in Terminal =>
                  /\ jobs'[j].artifact_expires_at # NoTime
                  /\ jobs'[j].artifact_expires_at > now' => j \in inputs'
                  /\ "sweep_abort" \notin Faults /\ ~jobs'[j].artifacts_cleaned => j \in inputs'
<1> SUFFICES ASSUME NEW j \in Historicals PROVE Ok(j)
  BY DEF InputInv
<1>1. CASE Ordinary
  <2>0. RowStep(j) /\ now' >= now /\ (j \in inputs => j \in inputs')
    BY <1>0, <1>1 DEF Ordinary
  <2>1. CASE jobs'[j] = jobs[j]
    BY <1>0, <2>0, <2>1, InputRowKept
  <2>2. CASE Appears(j) /\ jobs'[j].status = "pending"
    BY <2>2 DEF Appears, InputSafe, Terminal
  <2>3. CASE Reopens(j) /\ jobs'[j].status = "pending"
    <3>1. PICK t \in Readings : MayRetry(j, t)
      BY <2>3 DEF Reopens, InputSafe
    <3>2. /\ jobs[j].status \in Terminal /\ ~jobs[j].artifacts_cleaned
          /\ jobs[j].artifact_expires_at > t
      BY <2>3, <3>1 DEF Reopens, MayRetry, InputInv, Terminal
    <3>3. j \in inputs
      <4>1. CASE "sweep_abort" \notin Faults
        BY <3>2, <4>1 DEF InputInv
      <4>2. CASE MaxDelay = 0
        <5>1. t = now
          BY <1>0, <4>2 DEF Readings
        <5> QED
          BY <3>2, <5>1 DEF InputInv
      <4> QED
        BY <4>1, <4>2 DEF InputSafe
    <3> QED
      BY <2>0, <2>3, <3>3 DEF Terminal
  <2>4. CASE Unsuccessful(j)
    BY <1>0, <2>0, <2>4 DEF Unsuccessful, InputInv
  <2>5. CASE Waits(j)
    BY <1>0, <2>0, <2>5 DEF Waits, InputInv, Active, Terminal
  <2>6. CASE jobs[j].status = "running" /\ \E n \in Nat : jobs'[j] = [jobs[j] EXCEPT !.lease_expires_at = n]
    <3>1. jobs'[j].status = "running" /\ jobs[j].status = "running"
      BY <1>0, <2>6 DEF Row
    <3> QED
      BY <2>0, <3>1 DEF InputInv, Active, Terminal
  <2> HIDE DEF Ok
  <2> QED
    BY <2>0, <2>1, <2>2, <2>3, <2>4, <2>5, <2>6 DEF RowStep
<1>2. ASSUME NEW w \in Workers, NEW k \in JobIds, NEW t \in Readings, Claim(w, k, t)
      PROVE  Ok(j)
  <2>1. /\ jobs' = [jobs EXCEPT ![k] = Leased(k, t)] /\ inputs' = inputs /\ now' = now
        /\ jobs[k].status \in Active /\ ~Spent(k)
    BY <1>2 DEF Claim, Eligible, Active
  <2>2. CASE k = j
    <3>1. jobs'[j].status = "running"
      BY <1>0, <2>1, <2>2, LeasedRow DEF Base, Sound, Typed
    <3> QED
      BY <2>1, <2>2, <3>1 DEF InputInv, Terminal
  <2>3. CASE k # j
    BY <1>0, <2>1, <2>3, InputRowKept
  <2> QED
    BY <2>2, <2>3
<1>3. ASSUME NEW w \in Workers, NEW t \in Readings, CommitCheckpoint(w, t) PROVE Ok(j)
  <2>1. jobs'[j] = jobs[j] /\ inputs' = inputs /\ now' = now
    BY <1>0, <1>3, CheckpointRows
  <2> QED
    BY <1>0, <2>1, InputRowKept
<1>4. ASSUME NEW w \in Workers, NEW t \in Readings, Succeeds(w, t) PROVE Ok(j)
  <2>1. CASE exec[w].job = j
    <3>1. /\ jobs[j].status = "running" /\ jobs'[j].artifact_expires_at # NoTime
          /\ inputs' = inputs /\ jobs'[j].status = "succeeded"
      BY <1>4, <2>1, SuccessRows
    <3> QED
      BY <3>1 DEF InputInv, Active
  <2>2. CASE exec[w].job # j
    <3>1. jobs'[j] = jobs[j] /\ inputs' = inputs /\ now' = now
      BY <1>0, <1>4, <2>2, SuccessRows
    <3> QED
      BY <1>0, <3>1, InputRowKept
  <2> QED
    BY <2>1, <2>2
<1>5. ASSUME NEW w \in Workers, WriteResult(w) \/ DiscardResult(w) PROVE Ok(j)
  <2>1. UNCHANGED <<now, jobs, inputs>>
    BY <1>5 DEF WriteResult, DiscardResult
  <2> QED
    BY <1>0, <2>1, InputRowKept
<1>6. ASSUME NEW w \in Workers, NEW t \in Readings,
             CleanupExpiredArtifacts(w, t) \/ CleanupAborted(w, t)
      PROVE  Ok(j)
  <2>0. now' = now
    BY <1>6, SweepRows
  <2>1. CASE j \notin Expired(t)
    <3>1. jobs'[j] = jobs[j] /\ (j \in inputs => j \in inputs')
      BY <1>0, <1>6, <2>1 DEF CleanupExpiredArtifacts, CleanupAborted, DeleteJobs
    <3> QED
      BY <1>0, <2>0, <3>1, InputRowKept
  <2>2. CASE j \in Expired(t)
    <3>1. /\ jobs[j].status \in Terminal /\ jobs[j].artifact_expires_at # NoTime
          /\ jobs[j].artifact_expires_at <= now
      <4>1. t \in Nat /\ t <= now /\ jobs[j].artifact_expires_at \in Nat
        BY <1>0 DEF Readings, Row
      <4> QED
        BY <1>0, <2>2, <4>1 DEF Expired
    <3>2. /\ jobs'[j].status = jobs[j].status
          /\ jobs'[j].artifact_expires_at = jobs[j].artifact_expires_at
          /\ "sweep_abort" \notin Faults => jobs'[j].artifacts_cleaned
      <4>1. CASE CleanupAborted(w, t)
        BY <4>1 DEF CleanupAborted
      <4>2. CASE CleanupExpiredArtifacts(w, t)
        <5>1. jobs'[j] = [jobs[j] EXCEPT !.artifacts_cleaned = TRUE] /\ jobs[j] \in Row
          BY <1>0, <2>2, <4>2 DEF CleanupExpiredArtifacts
        <5> QED
          BY <5>1 DEF Row
      <4> QED
        BY <1>6, <4>1, <4>2
    <3>3. jobs[j].artifact_expires_at \in Nat
      BY <1>0 DEF Row
    <3> QED
      BY <1>0, <2>0, <3>1, <3>2, <3>3
  <2> QED
    BY <2>1, <2>2
<1> HIDE DEF Ok
<1> QED
  BY <1>1, <1>2, <1>3, <1>4, <1>5, <1>6, StepKinds DEF Special

\* Initially there are no queries.
LEMMA InputInit == ASSUME Init PROVE InputInv
BY DEF Init, InputInv, NewRow, Active, Terminal, JobIds

\* Without those faults a query that may still run, or that retry still accepts, has
\* its input, however sweeps, expiries, retries and late clocks interleave.
THEOREM InputsRetained == InputSafe => (Spec => []InputRetained)
<1> SUFFICES ASSUME InputSafe PROVE Spec => []InputRetained
  OBVIOUS
<1>1. Init => Base /\ InputInv
  BY BaseInit, InputInit
<1>2. Base /\ InputInv /\ [Next]_vars => (Base /\ InputInv)'
  BY BaseStep, InputStep
<1>3. Base /\ InputInv => InputRetained
  BY DEF InputInv, InputRetained
<1> QED
  BY <1>1, <1>2, <1>3, PTL DEF Spec

-----------------------------------------------------------------------------
(* The results of historical queries *)

\* The faults that cost a published result its object, left out.
ResultSafe == "stalled_claim" \notin Faults /\ "ack_lost" \notin Faults

\* The object that the holder of a lease is about to publish exists.
HolderWrote ==
    \A w \in Workers :
        exec[w].pc = "finalize" /\ exec[w].job \in Historicals
        /\ jobs[exec[w].job].lease_token = exec[w].token =>
            <<exec[w].job, exec[w].token>> \in results

\* No process remembers the token of a published object, so no discard can hit it.
PublishedForgotten ==
    \A w \in Workers, j \in JobIds :
        exec[w].job = j /\ jobs[j].result # NoToken => exec[w].token # jobs[j].result

\* Inductive form of ResultRetained.
ResultHeldInv == HolderWrote /\ PublishedForgotten /\ ResultRetained

\* The facts the steps below start from.
ResultBase == Base /\ PrivateInv /\ ResultInv /\ ResultHeldInv

\* Steps that keep the row of every job, or end its lease without a success.
LEMMA ResultOrdinary ==
    ASSUME ResultBase, ResultSafe, Ordinary, now' \in Nat PROVE ResultHeldInv'
<1>0. /\ Historicals \subseteq JobIds /\ jobs \in [JobIds -> Row] /\ now \in Nat
      /\ NoJob \notin JobIds
      /\ \A j \in JobIds : RowStep(j)
      /\ results' = results /\ now' >= now
      /\ \A w \in Workers : GoesOn(w) \/ Forgets(w)
  BY KindsAssumption DEF JobIds, ResultBase, ResultSafe, Base, Sound, Typed, TypeOK, Ordinary
<1>1. ASSUME NEW j \in JobIds
      PROVE  /\ jobs'[j].lease_token \in {jobs[j].lease_token, NoToken}
             /\ jobs'[j].result \in {jobs[j].result, NoToken}
             /\ jobs'[j].status = "succeeded" => jobs'[j] = jobs[j]
  <2>1. jobs[j] \in Row /\ RowStep(j)
    BY <1>0
  <2>2. CASE /\ jobs[j].status = "running"
             /\ \E n \in Nat : jobs'[j] = [jobs[j] EXCEPT !.lease_expires_at = n]
    BY <2>1, <2>2 DEF Row
  <2>3. CASE ~(/\ jobs[j].status = "running"
               /\ \E n \in Nat : jobs'[j] = [jobs[j] EXCEPT !.lease_expires_at = n])
    BY <2>1, <2>3 DEF RowStep, Appears, Reopens, Unsuccessful, Waits
  <2> QED
    BY <2>2, <2>3
<1>2. ASSUME NEW w \in Workers, exec'[w].job \in JobIds
      PROVE  /\ exec'[w].job = exec[w].job /\ exec'[w].token = exec[w].token
             /\ exec[w].token # NoToken
             /\ exec'[w].pc = "finalize" /\ exec[w].job \in Historicals => exec[w].pc = "finalize"
  <2>1. GoesOn(w)
    BY <1>0, <1>2, IdleMemory DEF Forgets
  <2>2. exec[w].token \in 1..issued[exec[w].job]
    BY <1>0, <1>2, <2>1 DEF GoesOn, ResultBase, PrivateInv
  <2>3. exec[w].token # NoToken
    BY <2>2 DEF NoToken
  <2>4. Historicals \cap Backfills = {}
    BY KindsAssumption
  <2> QED
    BY <2>1, <2>3, <2>4 DEF GoesOn
<1>3. ASSUME NEW w \in Workers, exec'[w].pc = "finalize", exec'[w].job \in Historicals,
             jobs'[exec'[w].job].lease_token = exec'[w].token
      PROVE  <<exec'[w].job, exec'[w].token>> \in results'
  <2>1. /\ exec'[w].job = exec[w].job /\ exec'[w].token = exec[w].token
        /\ exec[w].token # NoToken /\ exec[w].pc = "finalize"
    BY <1>0, <1>2, <1>3
  <2>2. jobs[exec[w].job].lease_token = exec[w].token
    BY <1>0, <1>1, <1>3, <2>1
  <2> QED
    BY <1>0, <1>3, <2>1, <2>2 DEF ResultBase, ResultHeldInv, HolderWrote
<1>4. ASSUME NEW w \in Workers, NEW j \in JobIds, exec'[w].job = j, jobs'[j].result # NoToken
      PROVE  exec'[w].token # jobs'[j].result
  <2>1. exec'[w].job = exec[w].job /\ exec'[w].token = exec[w].token
    BY <1>2, <1>4
  <2>2. jobs'[j].result = jobs[j].result /\ jobs[j].result # NoToken
    BY <1>1, <1>4
  <2>3. exec[w].token # jobs[j].result
    BY <1>4, <2>1, <2>2 DEF ResultBase, ResultHeldInv, PublishedForgotten
  <2> QED
    BY <2>1, <2>2, <2>3
<1>5. ASSUME NEW j \in Historicals, jobs'[j].status = "succeeded",
             jobs'[j].artifact_expires_at > now'
      PROVE  <<j, jobs'[j].result>> \in results'
  <2>1. jobs'[j] = jobs[j] /\ jobs[j].artifact_expires_at \in Nat
    BY <1>0, <1>1, <1>5 DEF Row
  <2> QED
    BY <1>0, <1>5, <2>1 DEF ResultBase, ResultHeldInv, ResultRetained
<1>6. ResultRetained'
  BY <1>5 DEF ResultRetained
<1>7. HolderWrote'
  BY <1>3 DEF HolderWrote
<1>8. PublishedForgotten'
  BY <1>4 DEF PublishedForgotten
<1> QED
  BY <1>6, <1>7, <1>8 DEF ResultHeldInv

\* The three parts, from the facts about single workers and jobs.
LEMMA ResultParts ==
    ASSUME ASSUME NEW w \in Workers, exec'[w].pc = "finalize", exec'[w].job \in Historicals,
                  jobs'[exec'[w].job].lease_token = exec'[w].token
           PROVE  <<exec'[w].job, exec'[w].token>> \in results',
           ASSUME NEW w \in Workers, NEW j \in JobIds, exec'[w].job = j,
                  jobs'[j].result # NoToken
           PROVE  exec'[w].token # jobs'[j].result,
           ASSUME NEW j \in Historicals, jobs'[j].status = "succeeded",
                  jobs'[j].artifact_expires_at > now'
           PROVE  <<j, jobs'[j].result>> \in results'
    PROVE  ResultHeldInv'
<1>1. HolderWrote'
  BY DEF HolderWrote
<1>2. PublishedForgotten'
  BY DEF PublishedForgotten
<1>3. ResultRetained'
  BY DEF ResultRetained
<1> QED
  BY <1>1, <1>2, <1>3 DEF ResultHeldInv

\* A claim is of a job without a result, under a token that is not yet remembered.
LEMMA ResultClaim ==
    ASSUME ResultBase, ResultSafe, NEW w \in Workers, NEW j \in JobIds, NEW t \in Readings,
           Claim(w, j, t)
    PROVE  ResultHeldInv'
<1>0. /\ Historicals \subseteq JobIds /\ jobs \in [JobIds -> Row]
      /\ NoJob \notin JobIds /\ Base /\ TypeOK
      /\ "stalled_claim" \notin Faults /\ issued \in [JobIds -> Nat]
  BY KindsAssumption DEF JobIds, ResultBase, ResultSafe, Base, Sound, Typed, TypeOK
<1>1. /\ \A v \in Workers \ {w} : exec'[v] = exec[v]
      /\ exec'[w].job = j /\ exec'[w].token = issued[j] + 1
      /\ exec'[w].pc = "holding"
  BY <1>0, ClaimMemory
<1>2. /\ jobs'[j] = Leased(j, t) /\ \A k \in JobIds \ {j} : jobs'[k] = jobs[k]
      /\ jobs[j].status # "succeeded" /\ ~Spent(j)
      /\ results' = results /\ now' = now
  BY <1>0 DEF Claim, Eligible
<1>3. /\ jobs'[j].lease_token = issued[j] + 1 /\ jobs'[j].status = "running"
      /\ jobs'[j].result = NoToken
  BY <1>0, <1>2, LeasedRow DEF ResultBase, ResultInv
<1>4. ASSUME NEW v \in Workers, exec'[v].pc = "finalize", exec'[v].job \in Historicals,
             jobs'[exec'[v].job].lease_token = exec'[v].token
      PROVE  <<exec'[v].job, exec'[v].token>> \in results'
  <2>1. exec'[v] = exec[v]
    BY <1>1, <1>4
  <2>2. exec[v].job # j
    <3>1. SUFFICES ASSUME exec[v].job = j PROVE FALSE
      OBVIOUS
    <3>2. exec[v].token \in 1..issued[j]
      BY <1>0, <3>1 DEF ResultBase, PrivateInv
    <3> QED
      BY <1>0, <1>3, <1>4, <2>1, <3>1, <3>2
  <2> QED
    BY <1>0, <1>2, <1>4, <2>1, <2>2 DEF ResultBase, ResultHeldInv, HolderWrote
<1>5. ASSUME NEW v \in Workers, NEW k \in JobIds, exec'[v].job = k, jobs'[k].result # NoToken
      PROVE  exec'[v].token # jobs'[k].result
  <2>1. k # j
    BY <1>3, <1>5
  <2>2. exec'[v] = exec[v] /\ jobs'[k] = jobs[k]
    BY <1>1, <1>2, <1>5, <2>1
  <2> QED
    BY <1>5, <2>2 DEF ResultBase, ResultHeldInv, PublishedForgotten
<1>6. ASSUME NEW k \in Historicals, jobs'[k].status = "succeeded",
             jobs'[k].artifact_expires_at > now'
      PROVE  <<k, jobs'[k].result>> \in results'
  <2>1. k # j
    BY <1>3, <1>6
  <2>2. jobs'[k] = jobs[k] /\ results' = results /\ now' = now
    BY <1>0, <1>2, <2>1
  <2> QED
    BY <1>6, <2>2 DEF ResultBase, ResultHeldInv, ResultRetained
<1> QED
  BY <1>4, <1>5, <1>6, ResultParts

\* A success publishes the object of the worker that held the lease, which then forgets
\* its token.
LEMMA ResultSuccess ==
    ASSUME ResultBase, ResultSafe, NEW w \in Workers, NEW t \in Readings, Succeeds(w, t)
    PROVE  ResultHeldInv'
<1> DEFINE j == exec[w].job
<1>0. /\ Historicals \subseteq JobIds /\ jobs \in [JobIds -> Row]
      /\ exec \in [Workers -> Exec] /\ NoJob \notin JobIds /\ Base
  BY KindsAssumption DEF JobIds, ResultBase, Base, Sound, Typed, TypeOK
<1>1. /\ j \in JobIds /\ jobs[j].lease_token = exec[w].token
      /\ jobs'[j].lease_token = NoToken
      /\ jobs'[j].result = IF j \in Historicals THEN exec[w].token ELSE NoToken
      /\ \A k \in JobIds \ {j} : jobs'[k] = jobs[k]
      /\ now' = now /\ results' = results
      /\ \A v \in Workers \ {w} : exec'[v] = exec[v]
  BY <1>0, SuccessRows
<1>2. exec[w].pc = "finalize" /\ exec'[w].job = NoJob
  BY <1>0, IdleMemory DEF Succeeds, CommitSuccess, ResultSafe, Leave
<1>3. ASSUME NEW v \in Workers, exec'[v].job \in JobIds
      PROVE  v # w /\ exec'[v] = exec[v] /\ exec[v].token # NoToken
  <2>1. v # w /\ exec'[v] = exec[v]
    BY <1>0, <1>1, <1>2, <1>3
  <2>2. exec[v].token \in 1..issued[exec[v].job]
    BY <1>0, <1>3, <2>1 DEF ResultBase, PrivateInv
  <2> QED
    BY <2>1, <2>2 DEF NoToken
<1> HIDE DEF j
<1>4. ASSUME NEW v \in Workers, exec'[v].pc = "finalize", exec'[v].job \in Historicals,
             jobs'[exec'[v].job].lease_token = exec'[v].token
      PROVE  <<exec'[v].job, exec'[v].token>> \in results'
  <2>1. exec'[v] = exec[v] /\ exec[v].token # NoToken
    BY <1>0, <1>3, <1>4
  <2>2. exec[v].job # j
    BY <1>1, <1>4, <2>1
  <2> QED
    BY <1>0, <1>1, <1>4, <2>1, <2>2 DEF ResultBase, ResultHeldInv, HolderWrote
<1>5. ASSUME NEW v \in Workers, NEW k \in JobIds, exec'[v].job = k, jobs'[k].result # NoToken
      PROVE  exec'[v].token # jobs'[k].result
  <2>1. exec'[v] = exec[v] /\ exec[v].token # NoToken /\ v # w
    BY <1>3, <1>5
  <2>2. CASE k # j
    <3>1. jobs'[k] = jobs[k]
      BY <1>1, <2>2
    <3> QED
      BY <1>5, <2>1, <3>1 DEF ResultBase, ResultHeldInv, PublishedForgotten
  <2>3. CASE k = j
    <3>1. jobs'[k].result = exec[w].token
      BY <1>1, <1>5, <2>3
    <3> QED
      BY <1>5, <2>1, <2>3, <3>1 DEF ResultBase, PrivateInv, TokenIsPrivate, j
  <2> QED
    BY <2>2, <2>3
<1>6. ASSUME NEW k \in Historicals, jobs'[k].status = "succeeded",
             jobs'[k].artifact_expires_at > now'
      PROVE  <<k, jobs'[k].result>> \in results'
  <2>1. CASE k # j
    <3>1. jobs'[k] = jobs[k]
      BY <1>0, <1>1, <2>1
    <3> QED
      BY <1>1, <1>6, <3>1 DEF ResultBase, ResultHeldInv, ResultRetained
  <2>2. CASE k = j
    <3>1. <<j, exec[w].token>> \in results
      BY <1>1, <1>2, <1>6, <2>2 DEF ResultBase, ResultHeldInv, HolderWrote, j
    <3> QED
      BY <1>1, <1>6, <2>2, <3>1
  <2> QED
    BY <2>1, <2>2
<1> QED
  BY <1>4, <1>5, <1>6, ResultParts

\* A checkpoint touches neither queries nor results.
LEMMA ResultCheckpoint ==
    ASSUME ResultBase, NEW w \in Workers, NEW t \in Readings, CommitCheckpoint(w, t)
    PROVE  ResultHeldInv'
<1> DEFINE j == exec[w].job
<1>0. Historicals \subseteq JobIds /\ jobs \in [JobIds -> Row] /\ Base
  BY DEF JobIds, ResultBase, Base, Sound, Typed, TypeOK
<1>1. /\ j \in JobIds \ Historicals
      /\ \E n : jobs'[j] = [jobs[j] EXCEPT !.checkpoints = n]
      /\ \A k \in JobIds \ {j} : jobs'[k] = jobs[k]
      /\ now' = now /\ results' = results
      /\ exec'[w].job = j /\ exec'[w].token = exec[w].token
      /\ \A v \in Workers \ {w} : exec'[v] = exec[v]
  BY <1>0, CheckpointRows
<1>2. /\ jobs'[j].result = jobs[j].result
      /\ \A k \in Historicals : jobs'[k] = jobs[k]
  BY <1>0, <1>1 DEF Row
<1>3. \A v \in Workers : exec'[v].job = exec[v].job /\ exec'[v].token = exec[v].token
  BY <1>1
<1> HIDE DEF j
<1>4. ASSUME NEW v \in Workers, exec'[v].pc = "finalize", exec'[v].job \in Historicals,
             jobs'[exec'[v].job].lease_token = exec'[v].token
      PROVE  <<exec'[v].job, exec'[v].token>> \in results'
  <2>1. exec'[v] = exec[v]
    BY <1>1, <1>4
  <2> QED
    BY <1>1, <1>2, <1>4, <2>1 DEF ResultBase, ResultHeldInv, HolderWrote
<1>5. ASSUME NEW v \in Workers, NEW k \in JobIds, exec'[v].job = k, jobs'[k].result # NoToken
      PROVE  exec'[v].token # jobs'[k].result
  <2>1. jobs'[k].result = jobs[k].result
    BY <1>1, <1>2
  <2> QED
    BY <1>3, <1>5, <2>1 DEF ResultBase, ResultHeldInv, PublishedForgotten
<1>6. ASSUME NEW k \in Historicals, jobs'[k].status = "succeeded",
             jobs'[k].artifact_expires_at > now'
      PROVE  <<k, jobs'[k].result>> \in results'
  BY <1>1, <1>2, <1>6 DEF ResultBase, ResultHeldInv, ResultRetained
<1> QED
  BY <1>4, <1>5, <1>6, ResultParts

\* An attempt writes and discards only its own object.
LEMMA ResultObjects ==
    ASSUME ResultBase, NEW w \in Workers, WriteResult(w) \/ DiscardResult(w)
    PROVE  ResultHeldInv'
<1> DEFINE mine == <<exec[w].job, exec[w].token>>
<1>0. /\ Historicals \subseteq JobIds /\ exec \in [Workers -> Exec] /\ NoJob \notin JobIds
      /\ exec[w].job \in JobIds
      /\ jobs' = jobs /\ now' = now
  BY KindsAssumption
  DEF JobIds, ResultBase, Base, Sound, Typed, TypeOK, ExecOK, WriteResult, DiscardResult
<1>1. CASE WriteResult(w)
  <2>1. /\ results' = results \cup {mine}
        /\ \A v \in Workers \ {w} : exec'[v] = exec[v]
        /\ exec'[w].job = exec[w].job /\ exec'[w].token = exec[w].token
    BY <1>0, <1>1 DEF WriteResult, Exec
  <2>2. ASSUME NEW v \in Workers, exec'[v].pc = "finalize", exec'[v].job \in Historicals,
               jobs'[exec'[v].job].lease_token = exec'[v].token
        PROVE  <<exec'[v].job, exec'[v].token>> \in results'
    <3>1. CASE v = w
      BY <2>1, <3>1
    <3>2. CASE v # w
      BY <1>0, <2>1, <2>2, <3>2 DEF ResultBase, ResultHeldInv, HolderWrote
    <3> QED
      BY <3>1, <3>2
  <2>3. ASSUME NEW v \in Workers, NEW k \in JobIds, exec'[v].job = k, jobs'[k].result # NoToken
        PROVE  exec'[v].token # jobs'[k].result
    <3>1. exec'[v].job = exec[v].job /\ exec'[v].token = exec[v].token
      BY <2>1
    <3> QED
      BY <1>0, <2>3, <3>1 DEF ResultBase, ResultHeldInv, PublishedForgotten
  <2>4. ASSUME NEW k \in Historicals, jobs'[k].status = "succeeded",
               jobs'[k].artifact_expires_at > now'
        PROVE  <<k, jobs'[k].result>> \in results'
    BY <1>0, <2>1, <2>4 DEF ResultBase, ResultHeldInv, ResultRetained
  <2> QED
    BY <2>2, <2>3, <2>4, ResultParts
<1>2. CASE DiscardResult(w)
  <2>1. /\ results' = results \ {mine}
        /\ \A v \in Workers \ {w} : exec'[v] = exec[v]
        /\ exec'[w].job = NoJob
    BY <1>0, <1>2, IdleMemory DEF DiscardResult, Leave
  <2>2. exec[w].token # NoToken
    <3>1. exec[w].token \in 1..issued[exec[w].job]
      BY <1>0 DEF ResultBase, PrivateInv
    <3> QED
      BY <3>1 DEF NoToken
  <2>3. ASSUME NEW v \in Workers, exec'[v].pc = "finalize", exec'[v].job \in Historicals,
               jobs'[exec'[v].job].lease_token = exec'[v].token
        PROVE  <<exec'[v].job, exec'[v].token>> \in results'
    <3>1. v # w /\ exec'[v] = exec[v]
      BY <1>0, <2>1, <2>3
    <3>2. <<exec[v].job, exec[v].token>> \in results
      BY <1>0, <2>3, <3>1 DEF ResultBase, ResultHeldInv, HolderWrote
    <3>3. exec[v].job # exec[w].job \/ exec[v].token # exec[w].token
      BY <2>2, <3>1 DEF ResultBase, PrivateInv, TokenIsPrivate
    <3> QED
      BY <2>1, <3>1, <3>2, <3>3
  <2>4. ASSUME NEW v \in Workers, NEW k \in JobIds, exec'[v].job = k, jobs'[k].result # NoToken
        PROVE  exec'[v].token # jobs'[k].result
    <3>1. exec'[v] = exec[v]
      BY <1>0, <2>1, <2>4
    <3> QED
      BY <1>0, <2>4, <3>1 DEF ResultBase, ResultHeldInv, PublishedForgotten
  <2>5. ASSUME NEW k \in Historicals, jobs'[k].status = "succeeded",
               jobs'[k].artifact_expires_at > now'
        PROVE  <<k, jobs'[k].result>> \in results'
    <3>1. <<k, jobs[k].result>> \in results
      BY <1>0, <2>5 DEF ResultBase, ResultHeldInv, ResultRetained
    <3>2. CASE k = exec[w].job
      <4>1. exec[w].token # jobs[k].result
        BY <1>0, <2>2, <3>2 DEF ResultBase, ResultHeldInv, PublishedForgotten
      <4> QED
        BY <1>0, <2>1, <3>1, <4>1
    <3>3. CASE k # exec[w].job
      BY <1>0, <2>1, <3>1, <3>3
    <3> QED
      BY <3>2, <3>3
  <2> QED
    BY <2>3, <2>4, <2>5, ResultParts
<1> QED
  BY <1>1, <1>2

\* A sweep deletes the objects of decided queries whose retention period is over.
LEMMA ResultSweep ==
    ASSUME ResultBase, NEW w \in Workers, NEW t \in Readings,
           CleanupExpiredArtifacts(w, t) \/ CleanupAborted(w, t)
    PROVE  ResultHeldInv'
<1>0. /\ Historicals \subseteq JobIds /\ jobs \in [JobIds -> Row] /\ now \in Nat
      /\ NoJob \notin JobIds /\ Base /\ LeaseInv /\ t \in Nat /\ t <= now
  BY KindsAssumption DEF JobIds, ResultBase, Base, Sound, Typed, TypeOK, Readings
<1>1. ASSUME NEW j \in JobIds
      PROVE  /\ jobs'[j].lease_token = jobs[j].lease_token
             /\ jobs'[j].result = jobs[j].result
             /\ jobs'[j].status = jobs[j].status
             /\ jobs'[j].artifact_expires_at = jobs[j].artifact_expires_at
  BY <1>0, SweepRows DEF Row
<1>2. now' = now /\ exec' = exec
  BY <1>0, SweepRows
<1>3. \A r \in results : r[1] \notin Expired(t) => r \in results'
  BY DEF CleanupExpiredArtifacts, CleanupAborted, DeleteJobs
<1>4. ASSUME NEW j \in Expired(t)
      PROVE  /\ j \in JobIds /\ jobs[j].lease_token = NoToken
             /\ ~(jobs[j].artifact_expires_at > now)
  <2>1. /\ j \in JobIds /\ jobs[j].status \in Terminal
        /\ jobs[j].artifact_expires_at <= t
    BY <1>0, <1>4 DEF Expired
  <2>2. jobs[j].artifact_expires_at \in Nat
    BY <1>0, <2>1 DEF Row
  <2> QED
    BY <1>0, <2>1, <2>2 DEF LeaseInv, Terminal
<1>5. ASSUME NEW v \in Workers, exec'[v].pc = "finalize", exec'[v].job \in Historicals,
             jobs'[exec'[v].job].lease_token = exec'[v].token
      PROVE  <<exec'[v].job, exec'[v].token>> \in results'
  <2>1. jobs[exec[v].job].lease_token = exec[v].token /\ exec[v].job \in JobIds
    BY <1>0, <1>1, <1>2, <1>5
  <2>2. exec[v].token # NoToken
    <3>1. exec[v].token \in 1..issued[exec[v].job]
      BY <1>0, <2>1 DEF ResultBase, PrivateInv
    <3> QED
      BY <3>1 DEF NoToken
  <2>3. exec[v].job \notin Expired(t)
    BY <1>4, <2>1, <2>2
  <2>4. <<exec[v].job, exec[v].token>> \in results
    BY <1>2, <1>5, <2>1 DEF ResultBase, ResultHeldInv, HolderWrote
  <2> QED
    BY <1>2, <1>3, <2>3, <2>4
<1>6. ASSUME NEW v \in Workers, NEW k \in JobIds, exec'[v].job = k, jobs'[k].result # NoToken
      PROVE  exec'[v].token # jobs'[k].result
  BY <1>1, <1>2, <1>6 DEF ResultBase, ResultHeldInv, PublishedForgotten
<1>7. ASSUME NEW k \in Historicals, jobs'[k].status = "succeeded",
             jobs'[k].artifact_expires_at > now'
      PROVE  <<k, jobs'[k].result>> \in results'
  <2>1. jobs[k].status = "succeeded" /\ jobs[k].artifact_expires_at > now
    BY <1>0, <1>1, <1>2, <1>7
  <2>2. <<k, jobs[k].result>> \in results /\ k \notin Expired(t)
    BY <1>4, <2>1 DEF ResultBase, ResultHeldInv, ResultRetained
  <2> QED
    BY <1>0, <1>1, <1>3, <2>2
<1> QED
  BY <1>5, <1>6, <1>7, ResultParts

\* What is published stays downloadable until its deadline, step by step.
LEMMA ResultHeldStep ==
    ASSUME ResultBase, ResultSafe, [Next]_vars PROVE ResultBase'
<1>1. Base /\ Sound /\ ResultInv /\ PrivateInv /\ "stalled_claim" \notin Faults
  BY DEF ResultBase, Base, ResultSafe
<1>2. Base' /\ ResultInv' /\ PrivateInv'
  BY <1>1, BaseStep, ResultStep, PrivateStep
<1>3. now' \in Nat
  BY <1>2 DEF Base, Sound, Typed, TypeOK
<1>4. ASSUME Ordinary PROVE ResultHeldInv'
  BY <1>3, <1>4, ResultOrdinary
<1>5. ASSUME NEW w \in Workers, Special(w) PROVE ResultHeldInv'
  BY <1>5, ResultClaim, ResultSuccess, ResultCheckpoint, ResultObjects, ResultSweep DEF Special
<1>6. ResultHeldInv'
  BY <1>1, <1>4, <1>5, StepKinds
<1> QED
  BY <1>2, <1>6 DEF ResultBase

\* Initially nothing is published.
LEMMA ResultHeldInit == ASSUME Init PROVE ResultBase
<1>1. ResultInv /\ ResultHeldInv
  BY IdleMemory
  DEF Init, ResultInv, ResultHeldInv, HolderWrote, PublishedForgotten, ResultRetained,
      NewRow, JobIds
<1> QED
  BY <1>1, BaseInit, PrivateInit DEF ResultBase

\* While claims are not stalled and no acknowledgement is lost, a published result can
\* be downloaded until its retention deadline: neither the sweep nor the cleanup of an
\* overtaken attempt removes it.
THEOREM ResultsRetained == ResultSafe => (Spec => []ResultRetained)
<1> SUFFICES ASSUME ResultSafe PROVE Spec => []ResultRetained
  OBVIOUS
<1>1. Init => ResultBase
  BY ResultHeldInit
<1>2. ResultBase /\ [Next]_vars => ResultBase'
  BY ResultHeldStep
<1>3. ResultBase => ResultRetained
  BY DEF ResultBase, ResultHeldInv
<1> QED
  BY <1>1, <1>2, <1>3, PTL DEF Spec

=============================================================================
