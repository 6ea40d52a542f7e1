---------------------------- MODULE JobQueue_proofs ----------------------------
(***************************************************************************)
(* Theorems about JobQueue, for every value of its constants.              *)
(***************************************************************************)
EXTENDS JobQueue, TLAPS

\* The state a proof about the next step starts from: the types, what workers
\* remember, and the lease columns.
Typed == TypeOK /\ ExecOK /\ LeaseInv

\* A backoff is a duration: the exponent is at least 0 because attempts count from 1.
LEMMA BackoffNat ==
    ASSUME NEW n \in 1..MaxAttempts PROVE Backoff(n) \in Nat
<1>1. 2 ^ (n - 1) \in Nat
  BY PowersAssumption
<1>2. RetryBase * 2 ^ (n - 1) \in Nat
  <2> DEFINE p == 2 ^ (n - 1)
  <2>1. p \in Nat
    BY <1>1
  <2> HIDE DEF p
  <2>2. RetryBase * p \in Nat
    BY <2>1, SettingsAssumption
  <2> QED
    BY <2>2 DEF p
<1> QED
  BY <1>2, SettingsAssumption DEF Backoff

\* A clock reading is a positive time.
LEMMA ReadingsNat ==
    ASSUME TypeOK, NEW t \in Readings PROVE t \in Nat /\ t > 0
BY DEF TypeOK, Readings

\* Clearing the lease columns leaves the others alone.
LEMMA UnleasedRow ==
    ASSUME NEW row \in Row
    PROVE  /\ Unleased(row) \in Row
           /\ Unleased(row) =
                [row EXCEPT !.next_attempt_at = NoTime, !.lease_token = NoToken,
                            !.lease_expires_at = NoTime]
           /\ Unleased(row).status = row.status
           /\ Unleased(row).lease_token = NoToken
           /\ Unleased(row).next_attempt_at = NoTime
           /\ Unleased(row).end = row.end
           /\ Unleased(row).attempt_count = row.attempt_count
           /\ Unleased(row).checkpoints = row.checkpoints
           /\ Unleased(row).artifact_expires_at = row.artifact_expires_at
           /\ Unleased(row).result = row.result
BY DEF Row, Unleased, NoTime, NoToken

\* A terminal row is a row without a lease.
LEMMA SettledRow ==
    ASSUME TypeOK, NEW j \in JobIds, NEW t \in Readings, NEW s \in Terminal
    PROVE  /\ Settled(j, s, t) \in Row
           /\ Settled(j, s, t).status = s
           /\ Settled(j, s, t).lease_token = NoToken
           /\ Settled(j, s, t).next_attempt_at = NoTime
           /\ Settled(j, s, t).end = jobs[j].end
           /\ Settled(j, s, t).attempt_count = jobs[j].attempt_count
           /\ Settled(j, s, t).result = jobs[j].result
<1> DEFINE row == Unleased(jobs[j])
<1>1. jobs[j] \in Row
  BY DEF TypeOK
<1>2. row \in Row /\ row.lease_token = NoToken /\ row.next_attempt_at = NoTime
      /\ row.end = jobs[j].end /\ row.attempt_count = jobs[j].attempt_count
      /\ row.result = jobs[j].result
  BY <1>1, UnleasedRow
<1>3. t + TTL \in Nat
  BY ReadingsNat, SettingsAssumption
<1>4. Settled(j, s, t) =
        [row EXCEPT !.status = s,
                    !.artifact_expires_at = IF j \in Historicals THEN t + TTL ELSE @]
  BY DEF Settled
<1> HIDE DEF row
<1> QED
  BY <1>2, <1>3, <1>4 DEF Row, Statuses

\* The row claim_next writes.
LEMMA LeasedRow ==
    ASSUME TypeOK, NEW j \in JobIds, NEW t \in Readings, ~Spent(j)
    PROVE  /\ Leased(j, t) \in Row
           /\ Leased(j, t).status = "running"
           /\ Leased(j, t).lease_token = issued[j] + 1
           /\ Leased(j, t).lease_expires_at = t + LeaseSeconds
           /\ Leased(j, t).next_attempt_at = NoTime
           /\ Leased(j, t).attempt_count = jobs[j].attempt_count + 1
           /\ Leased(j, t).checkpoints = jobs[j].checkpoints
           /\ Leased(j, t).end = jobs[j].end
           /\ Leased(j, t).result = jobs[j].result
<1> DEFINE row == Unleased(jobs[j])
<1>1. jobs[j] \in Row /\ issued[j] \in Nat
  BY DEF TypeOK
<1>2. row \in Row /\ row.next_attempt_at = NoTime
      /\ row.end = jobs[j].end /\ row.attempt_count = jobs[j].attempt_count
      /\ row.checkpoints = jobs[j].checkpoints /\ row.result = jobs[j].result
  BY <1>1, UnleasedRow
<1>3. t + LeaseSeconds \in Nat /\ jobs[j].attempt_count + 1 \in 0..MaxAttempts
  BY <1>1, ReadingsNat, SettingsAssumption DEF Spent, Row
<1>4. Leased(j, t) =
        [row EXCEPT !.status = "running", !.attempt_count = @ + 1,
                    !.lease_token = issued[j] + 1, !.lease_expires_at = t + LeaseSeconds]
  BY DEF Leased
<1>5. issued[j] + 1 \in Nat /\ row.attempt_count + 1 \in 0..MaxAttempts
  BY <1>1, <1>2, <1>3
<1>6. "running" \in Statuses
  BY DEF Statuses, Active
<1> HIDE DEF row
<1>7. Leased(j, t) \in Row
  BY <1>2, <1>3, <1>4, <1>5, <1>6 DEF Row
<1>8. /\ Leased(j, t).status = "running"
      /\ Leased(j, t).lease_token = issued[j] + 1
      /\ Leased(j, t).lease_expires_at = t + LeaseSeconds
      /\ Leased(j, t).attempt_count = row.attempt_count + 1
  BY <1>2, <1>4 DEF Row
<1>9. /\ Leased(j, t).next_attempt_at = row.next_attempt_at
      /\ Leased(j, t).checkpoints = row.checkpoints
      /\ Leased(j, t).end = row.end
      /\ Leased(j, t).result = row.result
  BY <1>2, <1>4 DEF Row
<1> QED
  BY <1>2, <1>7, <1>8, <1>9

\* A new row, of a job that is created or of one that does not exist yet.
LEMMA FreshRow ==
    ASSUME NEW s \in Statuses, NEW c \in Cutoffs \cup {NoTime}
    PROVE  /\ NewRow(s, c) \in Row
           /\ NewRow(s, c).status = s
           /\ NewRow(s, c).lease_token = NoToken
           /\ NewRow(s, c).next_attempt_at = NoTime
           /\ NewRow(s, c).attempt_count = 0
           /\ NewRow(s, c).end = c
           /\ NewRow(s, c).result = NoToken
BY SettingsAssumption DEF Row, NewRow, NoTime, NoToken

\* The row retry writes.
LEMMA RetriedRow ==
    ASSUME NEW row \in Row
    PROVE  /\ Retried(row) \in Row
           /\ Retried(row).status = "pending"
           /\ Retried(row).lease_token = NoToken
           /\ Retried(row).next_attempt_at = NoTime
           /\ Retried(row).attempt_count = 0
           /\ Retried(row).end = row.end
           /\ Retried(row).checkpoints = row.checkpoints
           /\ Retried(row).result = NoToken
<1> DEFINE new == NewRow("pending", row.end)
<1>1. /\ new \in Row /\ new.status = "pending" /\ new.lease_token = NoToken
      /\ new.next_attempt_at = NoTime /\ new.attempt_count = 0
      /\ new.end = row.end /\ new.result = NoToken
  BY FreshRow DEF Statuses, Active, Row
<1>2. Retried(row) = [new EXCEPT !.checkpoints = row.checkpoints]
  BY DEF Retried
<1> HIDE DEF new
<1> QED
  BY <1>1, <1>2 DEF Row

-----------------------------------------------------------------------------
(* The pieces actions are made of *)

\* A row without a lease may replace any row.
LEMMA PutUnleased ==
    ASSUME Typed, NEW j \in JobIds, NEW r \in Row,
           r.status # "running", r.lease_token = NoToken,
           r.status # "retrying" => r.next_attempt_at = NoTime,
           jobs' = [jobs EXCEPT ![j] = r], issued' = issued
    PROVE  jobs' \in [JobIds -> Row] /\ LeaseInv'
BY DEF Typed, TypeOK, LeaseInv

\* A worker that drops its attempt (success, lost lease, crash) is idle, with nothing in memory.
LEMMA LeaveExec ==
    ASSUME Typed, NEW w \in Workers, Leave(w)
    PROVE  exec' \in [Workers -> Exec] /\ ExecOK'
<1>1. Idle \in Exec
  BY SettingsAssumption DEF Idle, Exec, PCs, NoToken
<1> QED
  BY <1>1 DEF Typed, TypeOK, ExecOK, Leave, Idle, Exec

\* A worker that gives its attempt up goes on to discard the result it wrote, if any.
LEMMA AbandonExec ==
    ASSUME Typed, NEW w \in Workers, Abandon(w), exec[w].pc # "idle"
    PROVE  exec' \in [Workers -> Exec] /\ ExecOK'
<1>1. CASE exec[w].result
  <2>1. exec' = [exec EXCEPT ![w] = [exec[w] EXCEPT !.pc = "discard"]]
    BY <1>1 DEF Abandon
  <2>2. exec[w] \in Exec
    BY DEF Typed, TypeOK
  <2>3. [exec[w] EXCEPT !.pc = "discard"] \in Exec
    BY <2>2 DEF Exec, PCs
  <2> QED
    BY <1>1, <2>1, <2>2, <2>3 DEF Typed, TypeOK, ExecOK, Exec
<1>2. CASE ~exec[w].result
  <2>1. Leave(w)
    BY <1>2 DEF Abandon, Leave
  <2> QED
    BY <2>1, LeaveExec
<1> QED
  BY <1>1, <1>2

\* Moving on inside an attempt: query and writing are only reached by historical jobs.
LEMMA GotoExec ==
    ASSUME Typed, NEW w \in Workers, NEW pc \in PCs \ {"idle"}, Goto(w, pc),
           exec[w].pc # "idle",
           pc \in {"query", "writing", "discard"} => exec[w].job \in Historicals
    PROVE  exec' \in [Workers -> Exec] /\ ExecOK'
<1>1. exec[w] \in Exec
  BY DEF Typed, TypeOK
<1>2. exec' = [exec EXCEPT ![w] = [exec[w] EXCEPT !.pc = pc]]
  BY DEF Goto
<1>3. [exec[w] EXCEPT !.pc = pc] \in Exec
  BY <1>1 DEF Exec
<1> QED
  BY <1>1, <1>2, <1>3 DEF Typed, TypeOK, ExecOK, Exec

\* Taking, releasing and publishing a reservation keep the type of the states table.
LEMMA StatesTypes ==
    ASSUME Typed, NEW j \in JobIds
    PROVE  /\ Released(j) \in [Views -> State]
           /\ Reserved(j) \in [Views -> State]
           /\ Published(j) \in [Views -> State]
<1>1. \A v \in Views : states[v] \in State
  BY DEF Typed, TypeOK
<1>2. \A v \in Views : [states[v] EXCEPT !.active_job_id = NoJob] \in State
  BY <1>1 DEF State
<1>3. Released(j) \in [Views -> State]
  BY <1>1, <1>2 DEF Released
<1>4. ASSUME j \in Incrementals PROVE ViewOf[j] \in Views
  BY <1>4, KindsAssumption
<1>5. ASSUME j \in Incrementals
      PROVE  [states[ViewOf[j]] EXCEPT !.active_job_id = j] \in State
  BY <1>1, <1>4, <1>5 DEF State
<1>6. Reserved(j) \in [Views -> State]
  BY <1>4, <1>5 DEF Reserved, Typed, TypeOK
<1>7. jobs[j].end \in Cutoffs \cup {NoTime}
  BY DEF Typed, TypeOK, Row
<1>8. Published(j) \in [Views -> State]
  BY <1>4, <1>7 DEF Published, Typed, TypeOK, State
<1> QED
  BY <1>3, <1>6, <1>8

\* Whoever passes the fence runs a job whose row is running under its token.
LEMMA OwnerRow ==
    ASSUME Typed, NEW w \in Workers, NEW t \in Readings, exec[w].pc # "idle"
    PROVE  /\ exec[w].job \in JobIds
           /\ jobs[exec[w].job] \in Row
           /\ Owns(w, t) => /\ jobs[exec[w].job].status = "running"
                            /\ jobs[exec[w].job].lease_token = exec[w].token
                            /\ exec[w].token = issued[exec[w].job]
                            /\ jobs[exec[w].job].attempt_count \in 1..MaxAttempts
<1>1. exec[w].job \in JobIds
  BY DEF Typed, ExecOK
<1>2. jobs[exec[w].job] \in Row
  BY <1>1 DEF Typed, TypeOK
<1> QED
  BY <1>1, <1>2, SettingsAssumption DEF Typed, LeaseInv, Owns, Row

\* An attempt ends in a terminal status.
LEMMA SettleStep ==
    ASSUME Typed, NEW j \in JobIds, NEW t \in Readings, NEW s \in Terminal,
           jobs' = [jobs EXCEPT ![j] = Settled(j, s, t)], issued' = issued
    PROVE  jobs' \in [JobIds -> Row] /\ LeaseInv'
<1>1. TypeOK
  BY DEF Typed
<1>2. s # "running" /\ s # "retrying"
  BY DEF Terminal
<1> QED
  BY <1>1, <1>2, SettledRow, PutUnleased

-----------------------------------------------------------------------------
(* Type correctness *)

\* The initial state is typed: there are no jobs and every worker is idle.
LEMMA TypedInit == Init => Typed
<1> SUFFICES ASSUME Init PROVE Typed
  OBVIOUS
<1>1. NewRow("absent", NoTime) \in Row
      /\ NewRow("absent", NoTime).status = "absent"
      /\ NewRow("absent", NoTime).lease_token = NoToken
      /\ NewRow("absent", NoTime).next_attempt_at = NoTime
  BY FreshRow DEF Statuses
<1>2. Idle \in Exec
  BY SettingsAssumption DEF Idle, Exec, PCs, NoToken
<1>3. NoState \in State
  BY DEF NoState, State
<1>4. TypeOK
  BY <1>1, <1>2, <1>3 DEF Init, TypeOK
<1>5. ExecOK
  BY DEF Init, ExecOK, Idle
<1>6. LeaseInv
  BY <1>1 DEF Init, LeaseInv
<1> QED
  BY <1>4, <1>5, <1>6 DEF Typed

\* What the API does.
LEMMA TypedAPI ==
    ASSUME Typed, API PROVE Typed'
<1>1. ASSUME NEW j \in JobIds, Create(j) \/ CreateAckLost(j) PROVE Typed'
  <2>1. NewRow("pending", NoTime) \in Row
        /\ NewRow("pending", NoTime).status = "pending"
        /\ NewRow("pending", NoTime).lease_token = NoToken
        /\ NewRow("pending", NoTime).next_attempt_at = NoTime
    BY FreshRow DEF Statuses, Active
  <2>2. jobs' \in [JobIds -> Row] /\ LeaseInv'
    BY <1>1, <2>1, PutUnleased DEF Create, CreateAckLost
  <2> QED
    BY <1>1, <2>2 DEF Create, CreateAckLost, Typed, TypeOK, ExecOK
<1>2. ASSUME NEW j \in JobIds, NEW c \in Cutoffs, CreateIncremental(j, c) PROVE Typed'
  <2>1. NewRow("pending", c) \in Row
        /\ NewRow("pending", c).status = "pending"
        /\ NewRow("pending", c).lease_token = NoToken
        /\ NewRow("pending", c).next_attempt_at = NoTime
    BY FreshRow DEF Statuses, Active
  <2>2. jobs' \in [JobIds -> Row] /\ LeaseInv'
    BY <1>2, <2>1, PutUnleased DEF CreateIncremental
  <2> QED
    BY <1>2, <2>2, StatesTypes DEF CreateIncremental, Typed, TypeOK, ExecOK
<1>3. ASSUME NEW j \in JobIds, NEW t \in Readings, Cancel(j, t) PROVE Typed'
  <2>1. jobs' \in [JobIds -> Row] /\ LeaseInv'
    BY <1>3, SettleStep DEF Cancel, Terminal
  <2> QED
    BY <1>3, <2>1, StatesTypes DEF Cancel, Typed, TypeOK, ExecOK
<1>4. ASSUME NEW j \in JobIds, RetryWrite(j), checked' \in [Clients -> JobIds \cup {NoJob}]
      PROVE  Typed'
  <2>1. jobs' \in [JobIds -> Row] /\ LeaseInv'
    <3>1. jobs[j] \in Row
      BY DEF Typed, TypeOK
    <3> QED
      BY <1>4, <3>1, RetriedRow, PutUnleased DEF RetryWrite
  <2> QED
    BY <1>4, <2>1, StatesTypes DEF RetryWrite, Typed, TypeOK, ExecOK
<1>5. ASSUME NEW j \in JobIds, NEW t \in Readings, Retry(j, t) PROVE Typed'
  BY <1>4, <1>5 DEF Retry, Typed, TypeOK
<1>6. ASSUME NEW c \in Clients, NEW j \in JobIds, NEW t \in Readings, RetryCheck(c, j, t)
      PROVE  Typed'
  BY <1>6 DEF RetryCheck, Typed, TypeOK, ExecOK, LeaseInv
<1>7. ASSUME NEW c \in Clients, RetryCommit(c) PROVE Typed'
  <2>1. checked[c] \in JobIds /\ checked' \in [Clients -> JobIds \cup {NoJob}]
    BY <1>7 DEF RetryCommit, Typed, TypeOK
  <2> QED
    BY <1>4, <1>7, <2>1 DEF RetryCommit
<1>8. ASSUME NEW c \in Clients, RetryRefused(c) PROVE Typed'
  BY <1>8 DEF RetryRefused, Typed, TypeOK, ExecOK, LeaseInv
<1> QED
  BY <1>1, <1>2, <1>3, <1>5, <1>6, <1>7, <1>8 DEF API

\* What a worker does between attempts.
LEMMA TypedPoll ==
    ASSUME Typed, NEW w \in Workers, Poll(w) \/ Sweep(w) \/ \E t \in Readings : CleanupAborted(w, t)
    PROVE Typed'
<1>1. ASSUME NEW j \in JobIds, NEW t \in Readings, Claim(w, j, t) PROVE Typed'
  <2> DEFINE r == Leased(j, t)
  <2>1. /\ r \in Row /\ r.status = "running" /\ r.lease_token = issued[j] + 1
        /\ r.lease_expires_at = t + LeaseSeconds /\ r.next_attempt_at = NoTime
        /\ r.attempt_count = jobs[j].attempt_count + 1
    BY <1>1, LeasedRow DEF Claim, Typed
  <2>2. jobs' = [jobs EXCEPT ![j] = r] /\ issued' = [issued EXCEPT ![j] = issued[j] + 1]
    BY <1>1 DEF Claim
  <2>3. issued[j] \in Nat /\ jobs[j].attempt_count \in Nat /\ jobs[j].checkpoints \in 0..Chunks
    BY DEF Typed, TypeOK, Row
  <2>4. t + LeaseSeconds # NoTime /\ t + LeaseSeconds \in Nat
    BY ReadingsNat, SettingsAssumption DEF Typed, NoTime
  <2>5. r.lease_token \in Nat
    BY <2>1, <2>3
  <2> DEFINE claimed == [Idle EXCEPT !.pc = "claimed", !.job = j]
             holding == [Idle EXCEPT !.pc = "holding", !.job = j, !.token = r.lease_token,
                                     !.seen = jobs[j].checkpoints]
  <2>6. Idle \in Exec
    BY SettingsAssumption DEF Idle, Exec, PCs, NoToken
  <2>7. claimed \in Exec /\ holding \in Exec
    BY <2>3, <2>5, <2>6 DEF Exec, PCs
  <2>8. exec' = [exec EXCEPT ![w] = IF "stalled_claim" \in Faults THEN claimed ELSE holding]
    BY <1>1 DEF Claim
  <2>9. /\ claimed.pc = "claimed" /\ claimed.job = j /\ claimed.result = FALSE
        /\ holding.pc = "holding" /\ holding.job = j /\ holding.result = FALSE
    BY <2>6 DEF Idle
  <2> HIDE DEF r, claimed, holding
  <2>10. jobs' \in [JobIds -> Row] /\ LeaseInv'
    BY <2>1, <2>2, <2>3, <2>4 DEF Typed, TypeOK, LeaseInv, NoToken
  <2>11. exec' \in [Workers -> Exec] /\ ExecOK'
    BY <2>7, <2>8, <2>9 DEF Typed, TypeOK, ExecOK
  <2>12. issued' \in [JobIds -> Nat]
    BY <2>2, <2>3 DEF Typed, TypeOK
  <2> QED
    BY <1>1, <2>10, <2>11, <2>12 DEF Claim, Typed, TypeOK
<1>2. ASSUME NEW j \in JobIds, NEW t \in Readings, Exhaust(w, j, t) PROVE Typed'
  <2>1. jobs' \in [JobIds -> Row] /\ LeaseInv'
    BY <1>2, SettleStep DEF Exhaust, Terminal
  <2> QED
    BY <1>2, <2>1, StatesTypes DEF Exhaust, Typed, TypeOK, ExecOK
<1>3. ASSUME NEW t \in Readings, CleanupExpiredArtifacts(w, t) PROVE Typed'
  <2>1. \A j \in JobIds : jobs[j] \in Row
    BY DEF Typed, TypeOK
  <2>2. \A j \in JobIds : [jobs[j] EXCEPT !.artifacts_cleaned = TRUE] \in Row
    BY <2>1 DEF Row
  <2>3. jobs' \in [JobIds -> Row]
    BY <1>3, <2>1, <2>2 DEF CleanupExpiredArtifacts
  <2>4. \A j \in JobIds :
           /\ jobs'[j].status = jobs[j].status
           /\ jobs'[j].lease_token = jobs[j].lease_token
           /\ jobs'[j].lease_expires_at = jobs[j].lease_expires_at
           /\ jobs'[j].attempt_count = jobs[j].attempt_count
           /\ jobs'[j].next_attempt_at = jobs[j].next_attempt_at
    BY <1>3, <2>1 DEF CleanupExpiredArtifacts, Row
  <2>5. LeaseInv'
    BY <1>3, <2>4 DEF CleanupExpiredArtifacts, Typed, LeaseInv
  <2>6. inputs' \subseteq Historicals /\ results' \subseteq Historicals \X Nat
    BY <1>3 DEF CleanupExpiredArtifacts, DeleteJobs, Typed, TypeOK
  <2> QED
    BY <1>3, <2>3, <2>5, <2>6 DEF CleanupExpiredArtifacts, Typed, TypeOK, ExecOK
<1>4. ASSUME NEW t \in Readings, CleanupAborted(w, t) PROVE Typed'
  <2>1. inputs' \subseteq Historicals /\ results' \subseteq Historicals \X Nat
    BY <1>4 DEF CleanupAborted, DeleteJobs, Typed, TypeOK
  <2> QED
    BY <1>4, <2>1 DEF CleanupAborted, Typed, TypeOK, ExecOK, LeaseInv
<1> QED
  BY <1>1, <1>2, <1>3, <1>4 DEF Poll, Sweep

\* A step of a worker that only moves on in its attempt, or leaves it.
LEMMA ExecOnly ==
    ASSUME Typed, exec' \in [Workers -> Exec], ExecOK',
           UNCHANGED <<now, jobs, states, issued, inputs, results, checked>>
    PROVE  Typed'
BY DEF Typed, TypeOK, LeaseInv

\* The steps of an attempt that leave the jobs table alone.
LEMMA TypedQuiet ==
    ASSUME Typed, NEW w \in Workers,
           \/ Refresh(w) \/ AssertToken(w) \/ ChunksDone(w) \/ ReadInput(w) \/ WriteResult(w)
           \/ DiscardResult(w) \/ Crash(w)
           \/ \E t \in Readings : Start(w, t) \/ LeaseLost(w, t) \/ QueryDone(w, t)
                                  \/ FinalizeRefused(w, t)
           \/ \E terminal \in BOOLEAN : Fail(w, terminal)
    PROVE  Typed'
<1>0. exec[w] \in Exec /\ (exec[w].pc # "idle" => exec[w].job \in JobIds)
  BY DEF Typed, TypeOK, ExecOK
<1>1. CASE Refresh(w)
  <2>1. jobs[exec[w].job] \in Row /\ exec[w].pc = "claimed"
    BY <1>0, <1>1 DEF Refresh, Typed, TypeOK
  <2> DEFINE new == [exec[w] EXCEPT !.pc = "holding", !.token = jobs[exec[w].job].lease_token,
                                    !.seen = jobs[exec[w].job].checkpoints]
  <2>2. exec' = [exec EXCEPT ![w] = new]
    BY <1>1 DEF Refresh
  <2>3. new \in Exec /\ new.pc = "holding" /\ new.job = exec[w].job /\ new.result = exec[w].result
    BY <1>0, <2>1 DEF Exec, Row, PCs
  <2> HIDE DEF new
  <2>4. exec' \in [Workers -> Exec] /\ ExecOK'
    BY <1>0, <2>1, <2>2, <2>3 DEF Typed, TypeOK, ExecOK
  <2> QED
    BY <1>1, <2>4, ExecOnly DEF Refresh
<1>2. CASE AssertToken(w)
  BY <1>2, LeaveExec, ExecOnly DEF AssertToken
<1>3. CASE ChunksDone(w)
  <2>1. exec[w].pc # "idle" /\ Goto(w, "finalize")
    BY <1>3 DEF ChunksDone
  <2>2. exec' \in [Workers -> Exec] /\ ExecOK'
    BY <2>1, GotoExec DEF PCs
  <2> QED
    BY <1>3, <2>2, ExecOnly DEF ChunksDone
<1>4. CASE ReadInput(w)
  <2>1. exec[w].pc # "idle" /\ exec[w].job \in Historicals
        /\ (Goto(w, "query") \/ Goto(w, "failed"))
    BY <1>4 DEF ReadInput
  <2>2. exec' \in [Workers -> Exec] /\ ExecOK'
    BY <2>1, GotoExec DEF PCs
  <2> QED
    BY <1>4, <2>2, ExecOnly DEF ReadInput
<1>5. CASE WriteResult(w)
  <2>1. exec[w].pc = "writing" /\ exec[w].job \in Historicals /\ exec[w].token \in Nat
    BY <1>0, <1>5 DEF WriteResult, Typed, ExecOK, Exec
  <2> DEFINE new == [exec[w] EXCEPT !.pc = "finalize", !.result = TRUE]
  <2>2. exec' = [exec EXCEPT ![w] = new]
    BY <1>5 DEF WriteResult
  <2>3. new \in Exec /\ new.pc = "finalize" /\ new.job = exec[w].job
    BY <1>0 DEF Exec, PCs
  <2> HIDE DEF new
  <2>4. exec' \in [Workers -> Exec] /\ ExecOK'
    BY <1>0, <2>1, <2>2, <2>3 DEF Typed, TypeOK, ExecOK
  <2>5. results' \subseteq Historicals \X Nat
    BY <1>5, <2>1 DEF WriteResult, Typed, TypeOK
  <2> QED
    BY <1>5, <2>4, <2>5 DEF WriteResult, Typed, TypeOK, LeaseInv
<1>6. CASE DiscardResult(w)
  <2>1. exec' \in [Workers -> Exec] /\ ExecOK'
    BY <1>6, LeaveExec DEF DiscardResult
  <2> QED
    BY <1>6, <2>1 DEF DiscardResult, Typed, TypeOK, LeaseInv
<1>7. CASE Crash(w)
  <2>1. exec' \in [Workers -> Exec] /\ ExecOK'
    BY <1>7, LeaveExec, AbandonExec DEF Crash
  <2> QED
    BY <1>7, <2>1, ExecOnly DEF Crash
<1>8. ASSUME NEW t \in Readings, Start(w, t) PROVE Typed'
  <2>1. exec[w].pc = "holding" /\ MaxBeats \in 0..MaxBeats
    BY <1>8, SettingsAssumption DEF Start
  <2>2. CASE Owns(w, t)
    <3> DEFINE new == [exec[w] EXCEPT !.pc = "body", !.beats = MaxBeats]
    <3>1. exec' = [exec EXCEPT ![w] = new]
      BY <1>8, <2>2 DEF Start
    <3>2. new \in Exec /\ new.pc = "body" /\ new.job = exec[w].job /\ new.result = exec[w].result
      BY <1>0, <2>1 DEF Exec, PCs
    <3> HIDE DEF new
    <3>3. exec' \in [Workers -> Exec] /\ ExecOK'
      BY <1>0, <2>1, <3>1, <3>2 DEF Typed, TypeOK, ExecOK
    <3> QED
      BY <1>8, <3>3, ExecOnly DEF Start
  <2>3. CASE ~Owns(w, t)
    <3>1. Leave(w)
      BY <1>8, <2>3 DEF Start, Leave
    <3> QED
      BY <1>8, <3>1, LeaveExec, ExecOnly DEF Start
  <2> QED
    BY <2>2, <2>3
<1>9. ASSUME NEW t \in Readings, LeaseLost(w, t) PROVE Typed'
  BY <1>9, LeaveExec, ExecOnly DEF LeaseLost
<1>10. ASSUME NEW t \in Readings, QueryDone(w, t) PROVE Typed'
  <2>1. exec[w].pc = "query" /\ exec[w].job \in Historicals /\ Goto(w, "writing")
    BY <1>10 DEF QueryDone, Typed, ExecOK
  <2>2. exec' \in [Workers -> Exec] /\ ExecOK'
    BY <2>1, GotoExec DEF PCs
  <2> QED
    BY <1>10, <2>2, ExecOnly DEF QueryDone
<1>11. ASSUME NEW t \in Readings, FinalizeRefused(w, t) PROVE Typed'
  BY <1>11, AbandonExec, ExecOnly DEF FinalizeRefused
<1>12. ASSUME NEW terminal \in BOOLEAN, Fail(w, terminal) PROVE Typed'
  <2> DEFINE new == [exec[w] EXCEPT !.pc = "failed", !.terminal = terminal]
  <2>1. exec' = [exec EXCEPT ![w] = new] /\ exec[w].pc # "idle"
    BY <1>12 DEF Fail
  <2>2. new \in Exec /\ new.pc = "failed" /\ new.job = exec[w].job /\ new.result = exec[w].result
    BY <1>0, <1>12 DEF Exec, PCs
  <2> HIDE DEF new
  <2>3. exec' \in [Workers -> Exec] /\ ExecOK'
    BY <1>0, <2>1, <2>2 DEF Typed, TypeOK, ExecOK
  <2> QED
    BY <1>12, <2>3, ExecOnly DEF Fail
<1> QED
  BY <1>1, <1>2, <1>3, <1>4, <1>5, <1>6, <1>7, <1>8, <1>9, <1>10, <1>11, <1>12

\* A running row may change its checkpoints or extend its lease.
LEMMA PutRunning ==
    ASSUME Typed, NEW j \in JobIds, NEW r \in Row,
           jobs[j].status = "running", r.status = "running",
           r.lease_token = jobs[j].lease_token, r.lease_expires_at # NoTime,
           r.attempt_count = jobs[j].attempt_count, r.next_attempt_at = jobs[j].next_attempt_at,
           jobs' = [jobs EXCEPT ![j] = r], issued' = issued
    PROVE  jobs' \in [JobIds -> Row] /\ LeaseInv'
BY DEF Typed, TypeOK, LeaseInv

\* The row _finalize_success writes.
LEMMA SucceededRow ==
    ASSUME Typed, NEW w \in Workers, NEW t \in Readings, exec[w].pc # "idle"
    PROVE  LET j == exec[w].job IN
           /\ Succeeded(w, t) \in Row
           /\ Succeeded(w, t).status = "succeeded"
           /\ Succeeded(w, t).lease_token = NoToken
           /\ Succeeded(w, t).next_attempt_at = NoTime
           /\ Succeeded(w, t).end = jobs[j].end
           /\ Succeeded(w, t).attempt_count = jobs[j].attempt_count
           /\ Succeeded(w, t).result \in {NoToken, exec[w].token}
<1> DEFINE j == exec[w].job
           row == Settled(j, "succeeded", t)
<1>1. j \in JobIds /\ exec[w].token \in Nat
  BY DEF Typed, TypeOK, ExecOK, Exec
<1>2. /\ row \in Row /\ row.status = "succeeded" /\ row.lease_token = NoToken
      /\ row.next_attempt_at = NoTime /\ row.end = jobs[j].end
      /\ row.attempt_count = jobs[j].attempt_count
  BY <1>1, SettledRow DEF Terminal, Typed
<1>3. Succeeded(w, t) =
        [row EXCEPT !.result = IF j \in Historicals THEN exec[w].token ELSE NoToken]
  BY DEF Succeeded
<1> HIDE DEF row
<1> QED
  BY <1>1, <1>2, <1>3 DEF Row, NoToken

\* The row _finalize_failure writes when the fence lets it.
LEMMA FailedRow ==
    ASSUME Typed, NEW w \in Workers, NEW t \in Readings, exec[w].pc = "failed", Owns(w, t)
    PROVE  LET j == exec[w].job IN
           /\ Failed(w, t) \in Row
           /\ Failed(w, t).status \in {"failed", "exhausted", "retrying"}
           /\ Failed(w, t).status = "retrying" => ~Spent(j)
           /\ Failed(w, t).lease_token = NoToken
           /\ Failed(w, t).status # "retrying" => Failed(w, t).next_attempt_at = NoTime
           /\ Failed(w, t).end = jobs[j].end
           /\ Failed(w, t).attempt_count = jobs[j].attempt_count
           /\ Failed(w, t).result = jobs[j].result
<1> DEFINE j == exec[w].job
           row == Unleased(jobs[j])
<1>1. /\ j \in JobIds /\ jobs[j] \in Row /\ TypeOK
      /\ jobs[j].attempt_count \in 1..MaxAttempts
  BY OwnerRow DEF Typed
<1>2. CASE exec[w].terminal
  <2>1. Failed(w, t) = Settled(j, "failed", t)
    BY <1>2 DEF Failed
  <2> QED
    BY <1>1, <2>1, SettledRow DEF Terminal
<1>3. CASE ~exec[w].terminal /\ Spent(j)
  <2>1. Failed(w, t) = Settled(j, "exhausted", t)
    BY <1>3 DEF Failed
  <2> QED
    BY <1>1, <2>1, SettledRow DEF Terminal
<1>4. CASE ~exec[w].terminal /\ ~Spent(j)
  <2> DEFINE due == t + Backoff(jobs[j].attempt_count)
  <2>1. due \in Nat
    BY <1>1, BackoffNat, ReadingsNat
  <2>2. /\ row \in Row /\ row.lease_token = NoToken /\ row.end = jobs[j].end
        /\ row.attempt_count = jobs[j].attempt_count /\ row.result = jobs[j].result
    BY <1>1, UnleasedRow
  <2>3. Failed(w, t) = [row EXCEPT !.status = "retrying", !.next_attempt_at = due,
                                   !.artifact_expires_at = NoTime]
    BY <1>4 DEF Failed
  <2> HIDE DEF row, due
  <2>4. NoTime \in Nat /\ "retrying" \in Statuses
    BY DEF NoTime, Statuses, Active
  <2>5. Failed(w, t) \in Row
    BY <2>1, <2>2, <2>3, <2>4 DEF Row
  <2>6. /\ Failed(w, t).status = "retrying"
        /\ Failed(w, t).lease_token = row.lease_token
        /\ Failed(w, t).end = row.end
        /\ Failed(w, t).attempt_count = row.attempt_count
        /\ Failed(w, t).result = row.result
    BY <2>2, <2>3 DEF Row
  <2> QED
    BY <1>4, <2>2, <2>5, <2>6
<1> QED
  BY <1>2, <1>3, <1>4

\* The steps of an attempt that write its row.
LEMMA TypedFenced ==
    ASSUME Typed, NEW w \in Workers, NEW t \in Readings,
           \/ Heartbeat(w, t) \/ CommitCheckpoint(w, t) \/ FinalizeSuccess(w, t)
           \/ FinalizeSuccessAckLost(w, t) \/ FinalizeFailure(w, t)
    PROVE  Typed'
<1> DEFINE j == exec[w].job
<1>0. exec[w] \in Exec /\ exec[w].pc # "idle" /\ j \in JobIds /\ jobs[j] \in Row
  BY DEF Typed, TypeOK, ExecOK, Heartbeat, CommitCheckpoint, FinalizeSuccess,
         FinalizeSuccessAckLost, CommitSuccess, FinalizeFailure
<1>1. CASE Heartbeat(w, t)
  <2>1. exec[w].beats \in 1..MaxBeats
    BY <1>0, <1>1, SettingsAssumption DEF Heartbeat, Exec
  <2>2. CASE Owns(w, t)
    <3> DEFINE r == [jobs[j] EXCEPT !.lease_expires_at = t + LeaseSeconds]
               new == [exec[w] EXCEPT !.beats = @ - 1]
    <3>1. jobs' = [jobs EXCEPT ![j] = r] /\ exec' = [exec EXCEPT ![w] = new]
      BY <1>1, <2>2 DEF Heartbeat
    <3>2. t + LeaseSeconds \in Nat /\ t + LeaseSeconds # NoTime
      BY ReadingsNat, SettingsAssumption DEF Typed, NoTime
    <3>3. /\ r \in Row /\ r.status = jobs[j].status /\ r.lease_token = jobs[j].lease_token
          /\ r.lease_expires_at = t + LeaseSeconds /\ r.attempt_count = jobs[j].attempt_count
          /\ r.next_attempt_at = jobs[j].next_attempt_at
      BY <1>0, <3>2 DEF Row
    <3> DEFINE left == exec[w].beats - 1
    <3>4. left \in 0..MaxBeats
      BY <2>1, SettingsAssumption
    <3>5. new = [exec[w] EXCEPT !.beats = left]
      OBVIOUS
    <3> HIDE DEF left
    <3>6. /\ new \in Exec /\ new.pc = exec[w].pc /\ new.job = j
          /\ new.result = exec[w].result
      BY <1>0, <3>4, <3>5 DEF Exec
    <3>7. jobs[j].status = "running" /\ issued' = issued
      BY <1>0, <1>1, <2>2, OwnerRow DEF Heartbeat
    <3> HIDE DEF r, new, j
    <3>8. jobs' \in [JobIds -> Row] /\ LeaseInv'
      BY <1>0, <3>1, <3>2, <3>3, <3>7, PutRunning
    <3> USE DEF j
    <3>9. exec' \in [Workers -> Exec] /\ ExecOK'
      BY <1>0, <3>1, <3>6 DEF Typed, TypeOK, ExecOK
    <3> QED
      BY <1>1, <3>8, <3>9 DEF Heartbeat, Typed, TypeOK
  <2>3. CASE ~Owns(w, t)
    <3> DEFINE new == [exec[w] EXCEPT !.beats = 0]
    <3>1. exec' = [exec EXCEPT ![w] = new]
      BY <1>1, <2>3 DEF Heartbeat
    <3>2. /\ new \in Exec /\ new.pc = exec[w].pc /\ new.job = j
          /\ new.result = exec[w].result
      BY <1>0, SettingsAssumption DEF Exec
    <3> HIDE DEF new
    <3>3. exec' \in [Workers -> Exec] /\ ExecOK'
      BY <1>0, <3>1, <3>2 DEF Typed, TypeOK, ExecOK
    <3> QED
      BY <1>1, <2>3, <3>3, ExecOnly DEF Heartbeat
  <2> QED
    BY <2>2, <2>3
<1>2. CASE CommitCheckpoint(w, t)
  <2> DEFINE done == IF j \in Backfills THEN exec[w].seen + 1 ELSE 1
             r == [jobs[j] EXCEPT !.checkpoints = done]
             new == [exec[w] EXCEPT !.seen = done,
                                    !.pc = IF j \in Backfills THEN "body" ELSE "finalize"]
  <2>1. jobs' = [jobs EXCEPT ![j] = r] /\ exec' = [exec EXCEPT ![w] = new] /\ Owns(w, t)
        /\ exec[w].pc = "body" /\ (j \in Backfills => exec[w].seen < Chunks)
        /\ issued' = issued
    BY <1>2 DEF CommitCheckpoint
  <2>2. done \in 0..Chunks
    BY <1>0, <2>1, SettingsAssumption DEF Exec
  <2>3. /\ r \in Row /\ r.status = jobs[j].status /\ r.lease_token = jobs[j].lease_token
        /\ r.lease_expires_at = jobs[j].lease_expires_at
        /\ r.attempt_count = jobs[j].attempt_count
        /\ r.next_attempt_at = jobs[j].next_attempt_at
    <3> HIDE DEF done
    <3> QED
      BY <1>0, <2>2 DEF Row
  <2>4. /\ new \in Exec /\ new.pc \in {"body", "finalize"} /\ new.job = j
        /\ new.result = exec[w].result
    <3> HIDE DEF done
    <3> QED
      BY <1>0, <2>2 DEF Exec, PCs
  <2> HIDE DEF r, new, done
  <2>5. jobs[j].status = "running" /\ jobs[j].lease_expires_at # NoTime
    BY <1>0, <2>1, OwnerRow DEF Typed, LeaseInv
  <2>6. jobs' \in [JobIds -> Row] /\ LeaseInv'
    <3> HIDE DEF j
    <3> QED
      BY <1>0, <2>1, <2>3, <2>5, PutRunning
  <2>7. exec' \in [Workers -> Exec] /\ ExecOK'
    BY <1>0, <2>1, <2>4 DEF Typed, TypeOK, ExecOK
  <2> QED
    BY <1>2, <2>6, <2>7 DEF CommitCheckpoint, Typed, TypeOK
<1>3. ASSUME CommitSuccess(w, t), exec' \in [Workers -> Exec], ExecOK' PROVE Typed'
  <2>1. jobs' \in [JobIds -> Row] /\ LeaseInv'
    BY <1>0, <1>3, SucceededRow, PutUnleased DEF CommitSuccess
  <2>2. states' \in [Views -> State]
    BY <1>0, <1>3, StatesTypes DEF CommitSuccess
  <2> QED
    BY <1>3, <2>1, <2>2 DEF CommitSuccess, Typed, TypeOK
<1>4. CASE FinalizeSuccess(w, t)
  BY <1>3, <1>4, LeaveExec DEF FinalizeSuccess
<1>5. CASE FinalizeSuccessAckLost(w, t)
  <2>1. exec' \in [Workers -> Exec] /\ ExecOK'
    BY <1>0, <1>5, GotoExec DEF FinalizeSuccessAckLost, PCs
  <2> QED
    BY <1>3, <1>5, <2>1 DEF FinalizeSuccessAckLost
<1>6. CASE FinalizeFailure(w, t)
  <2>1. exec' \in [Workers -> Exec] /\ ExecOK'
    BY <1>0, <1>6, AbandonExec DEF FinalizeFailure
  <2>2. CASE Owns(w, t)
    <3>1. jobs' = [jobs EXCEPT ![j] = Failed(w, t)] /\ issued' = issued
          /\ exec[w].pc = "failed" /\ (states' = states \/ states' = Released(j))
      BY <1>6, <2>2 DEF FinalizeFailure
    <3>2. jobs' \in [JobIds -> Row] /\ LeaseInv'
      BY <1>0, <2>2, <3>1, FailedRow, PutUnleased
    <3>3. states' \in [Views -> State]
      BY <1>0, <3>1, StatesTypes DEF Typed, TypeOK
    <3> QED
      BY <1>6, <2>1, <3>2, <3>3 DEF FinalizeFailure, Typed, TypeOK
  <2>3. CASE ~Owns(w, t)
    BY <1>6, <2>1, <2>3, ExecOnly DEF FinalizeFailure
  <2> QED
    BY <2>2, <2>3
<1> QED
  BY <1>1, <1>2, <1>4, <1>5, <1>6

\* Typed is inductive.
LEMMA TypedStep ==
    ASSUME Typed, [Next]_vars PROVE Typed'
<1>1. CASE Tick
  BY <1>1 DEF Tick, Typed, TypeOK, ExecOK, LeaseInv
<1>2. CASE API
  BY <1>2, TypedAPI
<1>3. ASSUME NEW w \in Workers, Worker(w) PROVE Typed'
  BY <1>3, TypedPoll, TypedQuiet, TypedFenced DEF Worker, Execute
<1>4. CASE UNCHANGED vars
  BY <1>4 DEF vars, Typed, TypeOK, ExecOK, LeaseInv
<1> QED
  BY <1>1, <1>2, <1>3, <1>4 DEF Next

\* Every variable keeps its type: no attempt starts beyond max_attempts, and every
\* deadline a handler writes is a time.
THEOREM TypeCorrect == Spec => []TypeOK
<1>1. Typed => TypeOK
  BY DEF Typed
<1> QED
  BY <1>1, TypedInit, TypedStep, PTL DEF Spec

\* The columns heartbeats and fences match on are set exactly while a job runs, and
\* they name the last token issued.
THEOREM LeasesCorrect == Spec => []LeaseInv
<1>1. Typed => LeaseInv
  BY DEF Typed
<1> QED
  BY <1>1, TypedInit, TypedStep, PTL DEF Spec

-----------------------------------------------------------------------------
(* What a step does to a job, as the invariants below see it *)

\* Only the row of j changes, and its status becomes s; its payload stays.
Moves(j, s) ==
    /\ jobs'[j].status = s
    /\ \A k \in JobIds \ {j} : jobs'[k] = jobs[k]
    /\ issued' = issued

Quiet ==
    /\ \A j \in JobIds : /\ jobs'[j].status = jobs[j].status
                         /\ jobs'[j].end = jobs[j].end
                         /\ jobs'[j].result = jobs[j].result
                         /\ jobs'[j].attempt_count = jobs[j].attempt_count
    /\ UNCHANGED <<states, issued>>

Submitted(j) ==
    /\ jobs[j].status = "absent"
    /\ j \in Incrementals => ~HeldByOther(ViewOf[j], j)
    /\ Moves(j, "pending")
    /\ jobs'[j].result = NoToken
    /\ jobs'[j].attempt_count = 0
    /\ states' = Reserved(j)

Started(j) ==
    /\ jobs[j].status \in Active
    /\ ~Spent(j)
    /\ jobs'[j].status = "running"
    /\ jobs'[j].end = jobs[j].end
    /\ jobs'[j].result = jobs[j].result
    /\ jobs'[j].attempt_count = jobs[j].attempt_count + 1
    /\ \A k \in JobIds \ {j} : jobs'[k] = jobs[k]
    /\ issued' = [issued EXCEPT ![j] = @ + 1]
    /\ states' = states

PutBack(j) ==
    /\ jobs[j].status = "running"
    /\ ~Spent(j)
    /\ Moves(j, "retrying")
    /\ jobs'[j].result = jobs[j].result
    /\ jobs'[j].end = jobs[j].end
    /\ jobs'[j].attempt_count = jobs[j].attempt_count
    /\ states' = states

Ended(j) ==
    /\ jobs[j].status \in Active
    /\ \/ Moves(j, "cancelled")
       \/ jobs[j].status = "running" /\ (Moves(j, "failed") \/ Moves(j, "exhausted"))
    /\ jobs'[j].result = jobs[j].result
    /\ jobs'[j].end = jobs[j].end
    /\ jobs'[j].attempt_count = jobs[j].attempt_count
    /\ states' = Released(j)

Won(j) ==
    /\ jobs[j].status = "running"
    /\ ~ReservationLost(j)
    /\ Moves(j, "succeeded")
    /\ jobs'[j].result \in {NoToken, issued[j]}
    /\ jobs'[j].end = jobs[j].end
    /\ jobs'[j].attempt_count = jobs[j].attempt_count
    /\ states' = Published(j)

Revived(j) ==
    /\ jobs[j].status \in {"failed", "exhausted", "cancelled"}
    /\ j \in Incrementals => ~HeldByOther(ViewOf[j], j)
    /\ Moves(j, "pending")
    /\ jobs'[j].result = NoToken
    /\ jobs'[j].attempt_count = 0
    /\ states' = Reserved(j)

Shape ==
    \/ Quiet
    \/ \E j \in JobIds : \/ Submitted(j) \/ Started(j) \/ PutBack(j) \/ Ended(j)
                         \/ Won(j) \/ Revived(j)

\* Attempts are only spent by running jobs: a waiting job can still be started.
SpentInv == \A j \in JobIds : jobs[j].status \in {"pending", "retrying"} => ~Spent(j)

\* A transaction of the API submits, ends or revives one job, or changes none.
LEMMA ShapeAPI ==
    ASSUME Typed, API PROVE Shape
<1>0. jobs \in [JobIds -> Row]
  BY DEF Typed, TypeOK
<1>1. ASSUME NEW j \in JobIds, Create(j) \/ CreateAckLost(j) PROVE Submitted(j)
  <2>1. /\ jobs[j].status = "absent" /\ j \notin Incrementals
        /\ jobs' = [jobs EXCEPT ![j] = NewRow("pending", NoTime)]
        /\ issued' = issued /\ states' = states
    BY <1>1, KindsAssumption DEF Create, CreateAckLost
  <2> QED
    BY <1>0, <2>1, FreshRow DEF Submitted, Moves, Reserved, Statuses, Active
<1>2. ASSUME NEW j \in JobIds, NEW c \in Cutoffs, CreateIncremental(j, c) PROVE Submitted(j)
  BY <1>0, <1>2, FreshRow DEF CreateIncremental, Submitted, Moves, Statuses, Active
<1>3. ASSUME NEW j \in JobIds, NEW t \in Readings, Cancel(j, t) PROVE Ended(j)
  <2>1. /\ jobs[j].status \in Active /\ issued' = issued /\ states' = Released(j)
        /\ jobs' = [jobs EXCEPT ![j] = Settled(j, "cancelled", t)]
    BY <1>3 DEF Cancel
  <2> QED
    BY <1>0, <2>1, SettledRow DEF Ended, Moves, Terminal, Typed
<1>4. ASSUME NEW j \in JobIds, RetryWrite(j) PROVE Revived(j)
  <2>1. /\ jobs[j].status \in {"failed", "exhausted", "cancelled"}
        /\ j \in Incrementals => ~HeldByOther(ViewOf[j], j)
        /\ jobs' = [jobs EXCEPT ![j] = Retried(jobs[j])]
        /\ issued' = issued /\ states' = Reserved(j)
    BY <1>4 DEF RetryWrite
  <2> QED
    BY <1>0, <2>1, RetriedRow DEF Revived, Moves
<1>5. ASSUME NEW c \in Clients, RetryCommit(c) PROVE \E j \in JobIds : Revived(j)
  BY <1>4, <1>5 DEF RetryCommit, Typed, TypeOK
<1>6. ASSUME NEW c \in Clients,
             RetryRefused(c) \/ \E j \in JobIds, t \in Readings : RetryCheck(c, j, t)
      PROVE  Quiet
  BY <1>6 DEF RetryRefused, RetryCheck, Quiet
<1> QED
  BY <1>1, <1>2, <1>3, <1>4, <1>5, <1>6 DEF API, Shape, Retry

\* A step of a worker starts, puts back, ends or completes one job, or changes none.
LEMMA ShapeWorker ==
    ASSUME Typed, SpentInv, NEW w \in Workers, Worker(w) PROVE Shape
<1>0. jobs \in [JobIds -> Row] /\ exec[w] \in Exec
  BY DEF Typed, TypeOK
<1>1. ASSUME NEW j \in JobIds, NEW t \in Readings, Claim(w, j, t) PROVE Started(j)
  <2>1. /\ ~Spent(j) /\ jobs[j].status \in Active
        /\ jobs' = [jobs EXCEPT ![j] = Leased(j, t)]
        /\ issued' = [issued EXCEPT ![j] = @ + 1] /\ states' = states
    BY <1>1 DEF Claim, Eligible, Active
  <2> QED
    BY <1>0, <2>1, LeasedRow DEF Started, Typed
<1>2. ASSUME NEW j \in JobIds, NEW t \in Readings, Exhaust(w, j, t) PROVE Ended(j)
  <2>1. /\ jobs[j].status = "running" /\ issued' = issued /\ states' = Released(j)
        /\ jobs' = [jobs EXCEPT ![j] = Settled(j, "exhausted", t)]
    BY <1>2 DEF Exhaust, Eligible, SpentInv
  <2> QED
    BY <1>0, <2>1, SettledRow DEF Ended, Moves, Terminal, Typed, Active
<1>3. ASSUME NEW t \in Readings, CleanupExpiredArtifacts(w, t) PROVE Quiet
  BY <1>0, <1>3 DEF CleanupExpiredArtifacts, Quiet, Row
<1>4. ASSUME NEW t \in Readings, Heartbeat(w, t) \/ CommitCheckpoint(w, t) PROVE Quiet
  <2>1. exec[w].job \in JobIds
    BY <1>4 DEF Heartbeat, CommitCheckpoint, Typed, ExecOK
  <2>2. \/ jobs' = jobs
        \/ jobs' = [jobs EXCEPT ![exec[w].job].lease_expires_at = t + LeaseSeconds]
        \/ \E n : jobs' = [jobs EXCEPT ![exec[w].job].checkpoints = n]
    BY <1>4 DEF Heartbeat, CommitCheckpoint
  <2> QED
    BY <1>0, <1>4, <2>1, <2>2 DEF Heartbeat, CommitCheckpoint, Quiet, Row
<1>5. ASSUME NEW t \in Readings, CommitSuccess(w, t) PROVE Won(exec[w].job)
  <2> DEFINE j == exec[w].job
  <2>1. /\ exec[w].pc # "idle" /\ Owns(w, t) /\ ~ReservationLost(j) /\ states' = Published(j)
        /\ jobs' = [jobs EXCEPT ![j] = Succeeded(w, t)] /\ issued' = issued
    BY <1>5 DEF CommitSuccess
  <2>2. j \in JobIds /\ jobs[j].status = "running" /\ exec[w].token = issued[j]
    BY <2>1, OwnerRow
  <2>3. /\ Succeeded(w, t).status = "succeeded" /\ Succeeded(w, t).end = jobs[j].end
        /\ Succeeded(w, t).attempt_count = jobs[j].attempt_count
        /\ Succeeded(w, t).result \in {NoToken, exec[w].token}
    BY <2>1, SucceededRow
  <2> QED
    BY <1>0, <2>1, <2>2, <2>3 DEF Won, Moves
<1>6. ASSUME NEW t \in Readings, FinalizeFailure(w, t)
      PROVE  Quiet \/ PutBack(exec[w].job) \/ Ended(exec[w].job)
  <2> DEFINE j == exec[w].job
  <2>1. CASE ~Owns(w, t)
    BY <1>6, <2>1 DEF FinalizeFailure, Quiet
  <2>2. CASE Owns(w, t)
    <3>1. /\ exec[w].pc = "failed" /\ issued' = issued
          /\ jobs' = [jobs EXCEPT ![j] = Failed(w, t)]
          /\ states' = IF Failed(w, t).status = "retrying" THEN states ELSE Released(j)
      BY <1>6, <2>2 DEF FinalizeFailure
    <3>2. j \in JobIds /\ jobs[j].status = "running"
      BY <2>2, <3>1, OwnerRow
    <3>3. /\ Failed(w, t).status \in {"failed", "exhausted", "retrying"}
          /\ Failed(w, t).status = "retrying" => ~Spent(j)
          /\ Failed(w, t).end = jobs[j].end
          /\ Failed(w, t).attempt_count = jobs[j].attempt_count
          /\ Failed(w, t).result = jobs[j].result
      BY <2>2, <3>1, FailedRow
    <3> QED
      BY <1>0, <3>1, <3>2, <3>3 DEF PutBack, Ended, Moves, Active
  <2> QED
    BY <2>1, <2>2
<1>7. ASSUME \/ Refresh(w) \/ AssertToken(w) \/ ChunksDone(w) \/ ReadInput(w)
             \/ WriteResult(w) \/ DiscardResult(w) \/ Crash(w)
             \/ \E t \in Readings : Start(w, t) \/ LeaseLost(w, t) \/ QueryDone(w, t)
                                    \/ FinalizeRefused(w, t) \/ CleanupAborted(w, t)
             \/ \E terminal \in BOOLEAN : Fail(w, terminal)
      PROVE  Quiet
  BY <1>7 DEF Refresh, AssertToken, ChunksDone, ReadInput, WriteResult, DiscardResult, Crash,
              Start, LeaseLost, QueryDone, FinalizeRefused, CleanupAborted, Fail, Quiet
<1>8. ASSUME NEW t \in Readings, CommitSuccess(w, t) \/ FinalizeFailure(w, t)
      PROVE  exec[w].job \in JobIds
  BY <1>8 DEF CommitSuccess, FinalizeFailure, Typed, ExecOK
<1> QED
  BY <1>1, <1>2, <1>3, <1>4, <1>5, <1>6, <1>7, <1>8
  DEF Worker, Execute, Poll, Sweep, FinalizeSuccess, FinalizeSuccessAckLost, Shape

\* Every step of the specification has one of the shapes.
LEMMA StepShape ==
    ASSUME Typed, SpentInv, [Next]_vars PROVE Shape
<1>1. CASE Tick \/ UNCHANGED vars
  BY <1>1 DEF Tick, vars, Shape, Quiet
<1> QED
  BY <1>1, ShapeAPI, ShapeWorker DEF Next

-----------------------------------------------------------------------------
(* The invariants that relate the jobs table and the reservations *)

\* The state the invariants below start from.
Sound == Typed /\ SpentInv

\* The attempt budget is compared before an attempt is put back, and reset by retry.
LEMMA SpentStep ==
    ASSUME Sound, [Next]_vars PROVE SpentInv'
<1>1. Shape
  BY StepShape DEF Sound
<1>2. jobs \in [JobIds -> Row] /\ MaxAttempts \in Nat \ {0}
  BY SettingsAssumption DEF Sound, Typed, TypeOK
<1>3. CASE Quiet
  BY <1>2, <1>3 DEF Quiet, Sound, SpentInv, Spent
<1>4. ASSUME NEW j \in JobIds, Submitted(j) \/ Revived(j) PROVE SpentInv'
  BY <1>2, <1>4 DEF Submitted, Revived, Moves, Sound, SpentInv, Spent
<1>5. ASSUME NEW j \in JobIds, Started(j) PROVE SpentInv'
  BY <1>2, <1>5 DEF Started, Sound, SpentInv, Spent
<1>6. ASSUME NEW j \in JobIds, PutBack(j) PROVE SpentInv'
  BY <1>2, <1>6 DEF PutBack, Moves, Sound, SpentInv, Spent
<1>7. ASSUME NEW j \in JobIds, Ended(j) \/ Won(j) PROVE SpentInv'
  BY <1>2, <1>7 DEF Ended, Won, Moves, Sound, SpentInv, Spent
<1> QED
  BY <1>1, <1>3, <1>4, <1>5, <1>6, <1>7 DEF Shape

\* Initially no job exists, and an absent job has spent nothing.
LEMMA SoundInit ==
    ASSUME Init PROVE Sound
BY TypedInit DEF Init, Sound, SpentInv, NewRow

\* Sound is inductive.
LEMMA SoundStep ==
    ASSUME Sound, [Next]_vars PROVE Sound'
BY TypedStep, SpentStep DEF Sound

\* What taking and releasing a reservation does to the states table.
LEMMA ReservationRows ==
    ASSUME Typed, NEW j \in JobIds, NEW v \in Views
    PROVE  /\ Reserved(j)[v].watermark = states[v].watermark
           /\ Reserved(j)[v].last_successful_job_id = states[v].last_successful_job_id
           /\ Reserved(j)[v].active_job_id =
                IF j \in Incrementals /\ ViewOf[j] = v THEN j ELSE states[v].active_job_id
           /\ Released(j)[v].watermark = states[v].watermark
           /\ Released(j)[v].last_successful_job_id = states[v].last_successful_job_id
           /\ Released(j)[v].active_job_id =
                IF j \in Incrementals /\ ViewOf[j] = v /\ states[v].active_job_id = j
                  THEN NoJob ELSE states[v].active_job_id
           /\ Published(j)[v] =
                IF j \in Incrementals /\ ViewOf[j] = v
                  THEN [watermark |-> jobs[j].end, active_job_id |-> NoJob,
                        last_successful_job_id |-> j]
                  ELSE states[v]
<1>1. states \in [Views -> State]
  BY DEF Typed, TypeOK
<1>2. states[v] \in State
  BY <1>1
<1>3. /\ Reserved(j)[v].watermark = states[v].watermark
      /\ Reserved(j)[v].last_successful_job_id = states[v].last_successful_job_id
      /\ Reserved(j)[v].active_job_id =
           IF j \in Incrementals /\ ViewOf[j] = v THEN j ELSE states[v].active_job_id
  BY <1>1, <1>2 DEF Reserved, State
<1>4. /\ Released(j)[v].watermark = states[v].watermark
      /\ Released(j)[v].last_successful_job_id = states[v].last_successful_job_id
      /\ Released(j)[v].active_job_id =
           IF j \in Incrementals /\ ViewOf[j] = v /\ states[v].active_job_id = j
             THEN NoJob ELSE states[v].active_job_id
  BY <1>2 DEF Released, State
<1>5. Published(j)[v] =
        IF j \in Incrementals /\ ViewOf[j] = v
          THEN [watermark |-> jobs[j].end, active_job_id |-> NoJob,
                last_successful_job_id |-> j]
          ELSE states[v]
  BY <1>1 DEF Published
<1> QED
  BY <1>3, <1>4, <1>5

\* Taking a reservation keeps the tables in agreement: had another incremental job of
\* the view been active, it would have held the reservation and j been refused.
LEMMA ReservationTaken ==
    ASSUME Sound, ReservationInv, NEW j \in JobIds, Moves(j, "pending"),
           jobs[j].status \notin Active,
           j \in Incrementals => ~HeldByOther(ViewOf[j], j),
           states' = Reserved(j)
    PROVE  ReservationInv'
<1>0. Typed /\ ViewOf \in [Incrementals -> Views] /\ NoJob \notin JobIds
      /\ "pending" \in Active /\ Incrementals \subseteq JobIds
  BY KindsAssumption DEF Sound, Active, JobIds
<1>1. ASSUME NEW k \in Incrementals, jobs'[k].status \in Active
      PROVE  states'[ViewOf[k]].active_job_id = k
  <2>1. CASE k = j
    BY <1>0, <2>1, ReservationRows
  <2>2. CASE k # j
    <3>1. jobs[k].status \in Active /\ states[ViewOf[k]].active_job_id = k
      BY <1>0, <1>1, <2>2 DEF Moves, ReservationInv
    <3>2. ~(j \in Incrementals /\ ViewOf[j] = ViewOf[k])
      BY <1>0, <2>2, <3>1 DEF HeldByOther
    <3> DEFINE v == ViewOf[k]
    <3>3. v \in Views /\ ~(j \in Incrementals /\ ViewOf[j] = v) /\ states[v].active_job_id = k
      BY <1>0, <3>1, <3>2
    <3> HIDE DEF v
    <3>4. Reserved(j)[v].active_job_id = k
      BY <1>0, <3>3, ReservationRows
    <3> QED
      BY <3>4 DEF v
  <2> QED
    BY <2>1, <2>2
<1>2. ASSUME NEW v \in Views, states'[v].active_job_id # NoJob
      PROVE  /\ states'[v].active_job_id \in Incrementals
             /\ ViewOf[states'[v].active_job_id] = v
             /\ jobs'[states'[v].active_job_id].status \in Active
  <2>0. Reserved(j)[v].active_job_id =
          IF j \in Incrementals /\ ViewOf[j] = v THEN j ELSE states[v].active_job_id
    BY <1>0, ReservationRows
  <2>1. CASE j \in Incrementals /\ ViewOf[j] = v
    BY <1>0, <2>0, <2>1 DEF Moves
  <2>2. CASE ~(j \in Incrementals /\ ViewOf[j] = v)
    <3>1. states'[v].active_job_id = states[v].active_job_id
      BY <2>0, <2>2
    <3> QED
      BY <1>0, <1>2, <3>1 DEF ReservationInv, Moves
  <2> QED
    BY <2>1, <2>2
<1> QED
  BY <1>1, <1>2 DEF ReservationInv

\* Ending a job and giving back what it held keeps the tables in agreement.
LEMMA ReservationReturned ==
    ASSUME Sound, ReservationInv, NEW j \in JobIds, NEW s \in Terminal, Moves(j, s),
           jobs[j].status \in Active,
           states' = Released(j) \/ states' = Published(j)
    PROVE  ReservationInv'
<1>0. Typed /\ ViewOf \in [Incrementals -> Views] /\ NoJob \notin JobIds
      /\ s \notin Active /\ Incrementals \subseteq JobIds
  BY KindsAssumption DEF Sound, Active, Terminal, JobIds
<1>1. ASSUME NEW v \in Views
      PROVE  states'[v].active_job_id =
               IF j \in Incrementals /\ ViewOf[j] = v THEN NoJob ELSE states[v].active_job_id
  <2>1. j \in Incrementals => states[ViewOf[j]].active_job_id = j
    BY DEF ReservationInv
  <2>2. CASE states' = Released(j)
    <3>1. Released(j)[v].active_job_id =
            IF j \in Incrementals /\ ViewOf[j] = v /\ states[v].active_job_id = j
              THEN NoJob ELSE states[v].active_job_id
      BY <1>0, ReservationRows
    <3> QED
      BY <2>1, <2>2, <3>1
  <2>3. CASE states' = Published(j)
    <3>1. Published(j)[v] =
            IF j \in Incrementals /\ ViewOf[j] = v
              THEN [watermark |-> jobs[j].end, active_job_id |-> NoJob,
                    last_successful_job_id |-> j]
              ELSE states[v]
      BY <1>0, ReservationRows
    <3> QED
      BY <2>3, <3>1
  <2> QED
    BY <2>2, <2>3
<1>2. ASSUME NEW k \in Incrementals, jobs'[k].status \in Active
      PROVE  states'[ViewOf[k]].active_job_id = k
  <2>1. k # j
    BY <1>0, <1>2 DEF Moves
  <2>2. jobs[k].status \in Active /\ states[ViewOf[k]].active_job_id = k
    BY <1>0, <1>2, <2>1 DEF Moves, ReservationInv
  <2>3. ~(j \in Incrementals /\ ViewOf[j] = ViewOf[k])
    BY <2>1, <2>2 DEF ReservationInv
  <2> QED
    BY <1>0, <1>1, <2>2, <2>3
<1>3. ASSUME NEW v \in Views, states'[v].active_job_id # NoJob
      PROVE  /\ states'[v].active_job_id \in Incrementals
             /\ ViewOf[states'[v].active_job_id] = v
             /\ jobs'[states'[v].active_job_id].status \in Active
  BY <1>0, <1>1, <1>3 DEF ReservationInv, Moves
<1> QED
  BY <1>2, <1>3 DEF ReservationInv

\* ReservationInv is kept by every step.
LEMMA ReservationStep ==
    ASSUME Sound, ReservationInv, [Next]_vars PROVE ReservationInv'
<1>1. Shape
  BY StepShape DEF Sound
<1>2. Incrementals \subseteq JobIds /\ NoJob \notin JobIds
  BY KindsAssumption DEF JobIds
<1>3. CASE Quiet
  BY <1>2, <1>3 DEF Quiet, ReservationInv
<1>4. ASSUME NEW j \in JobIds, Submitted(j) \/ Revived(j) PROVE ReservationInv'
  BY <1>4, ReservationTaken DEF Submitted, Revived, Active
<1>5. ASSUME NEW j \in JobIds, Started(j) PROVE ReservationInv'
  BY <1>2, <1>5 DEF Started, ReservationInv, Active
<1>6. ASSUME NEW j \in JobIds, PutBack(j) PROVE ReservationInv'
  BY <1>2, <1>6 DEF PutBack, Moves, ReservationInv, Active
<1>7. ASSUME NEW j \in JobIds, Ended(j) \/ Won(j) PROVE ReservationInv'
  BY <1>7, ReservationReturned DEF Ended, Won, Active, Terminal
<1> QED
  BY <1>1, <1>3, <1>4, <1>5, <1>6, <1>7 DEF Shape

\* An incremental job that may still run holds the reservation of its view, and only
\* such a job holds one: create, cancel, retry, expiry, failure and success all keep
\* the two tables in agreement, for any number of workers, clients, jobs and views.
THEOREM ReservationCorrect == Spec => []ReservationInv
<1>1. Init => ReservationInv
  BY KindsAssumption DEF Init, ReservationInv, NewRow, NoState, Active, JobIds
<1> QED
  BY <1>1, SoundInit, SoundStep, ReservationStep, PTL DEF Spec

\* Only a success changes a watermark, and it changes it together with the job that
\* is recorded as the last successful one; a succeeded job never changes again.
LEMMA WatermarkStep ==
    ASSUME Sound, ReservationInv, WatermarkInv, [Next]_vars PROVE WatermarkInv'
<1>0. Typed /\ Incrementals \subseteq JobIds /\ NoJob \notin JobIds
  BY KindsAssumption DEF Sound, JobIds
<1>1. Shape
  BY StepShape DEF Sound
<1> DEFINE Kept(v) == /\ states'[v].watermark = states[v].watermark
                      /\ states'[v].last_successful_job_id = states[v].last_successful_job_id
           StillWon(k) == jobs[k].status = "succeeded" =>
                            jobs'[k].status = "succeeded" /\ jobs'[k].end = jobs[k].end
<1>2. ASSUME NEW v \in Views, Kept(v), \A k \in JobIds : StillWon(k)
      PROVE  LET last == states'[v].last_successful_job_id IN
             IF last = NoJob THEN states'[v].watermark = NoTime
             ELSE /\ last \in Incrementals
                  /\ ViewOf[last] = v
                  /\ jobs'[last].status = "succeeded"
                  /\ states'[v].watermark = jobs'[last].end
  BY <1>0, <1>2 DEF WatermarkInv
<1>3. CASE Quiet
  <2>1. (\A v \in Views : Kept(v)) /\ \A k \in JobIds : StillWon(k)
    BY <1>3 DEF Quiet
  <2> QED
    BY <1>2, <2>1 DEF WatermarkInv
<1>4. ASSUME NEW j \in JobIds,
             Submitted(j) \/ Started(j) \/ PutBack(j) \/ Ended(j) \/ Revived(j)
      PROVE  WatermarkInv'
  <2>1. \A k \in JobIds : StillWon(k)
    BY <1>4 DEF Submitted, Started, PutBack, Ended, Revived, Moves, Active
  <2>2. states' = states \/ states' = Reserved(j) \/ states' = Released(j)
    BY <1>4 DEF Submitted, Started, PutBack, Ended, Revived
  <2>3. ASSUME NEW v \in Views PROVE Kept(v)
    <3>1. /\ Reserved(j)[v].watermark = states[v].watermark
          /\ Reserved(j)[v].last_successful_job_id = states[v].last_successful_job_id
          /\ Released(j)[v].watermark = states[v].watermark
          /\ Released(j)[v].last_successful_job_id = states[v].last_successful_job_id
      BY <1>0, ReservationRows
    <3> QED
      BY <2>2, <3>1
  <2> QED
    BY <1>2, <2>1, <2>3 DEF WatermarkInv
<1>5. ASSUME NEW j \in JobIds, Won(j) PROVE WatermarkInv'
  <2>1. \A k \in JobIds : StillWon(k)
    BY <1>5 DEF Won, Moves
  <2>2. ASSUME NEW v \in Views
        PROVE  states'[v] = IF j \in Incrementals /\ ViewOf[j] = v
                              THEN [watermark |-> jobs[j].end, active_job_id |-> NoJob,
                                    last_successful_job_id |-> j]
                              ELSE states[v]
    BY <1>0, <1>5, ReservationRows DEF Won
  <2>3. jobs'[j].status = "succeeded" /\ jobs'[j].end = jobs[j].end
    BY <1>5 DEF Won, Moves
  <2>4. ASSUME NEW v \in Views
        PROVE  LET last == states'[v].last_successful_job_id IN
               IF last = NoJob THEN states'[v].watermark = NoTime
               ELSE /\ last \in Incrementals
                    /\ ViewOf[last] = v
                    /\ jobs'[last].status = "succeeded"
                    /\ states'[v].watermark = jobs'[last].end
    <3>1. CASE j \in Incrementals /\ ViewOf[j] = v
      BY <1>0, <2>2, <2>3, <3>1
    <3>2. CASE ~(j \in Incrementals /\ ViewOf[j] = v)
      BY <1>2, <2>1, <2>2, <3>2
    <3> QED
      BY <3>1, <3>2
  <2> QED
    BY <2>4 DEF WatermarkInv
<1> QED
  BY <1>1, <1>3, <1>4, <1>5 DEF Shape

\* The published watermark is the cutoff of the last successful job of the view: a
\* worker that lost its lease or its reservation publishes neither.
THEOREM WatermarkCorrect == Spec => []WatermarkInv
<1>1. Init => ReservationInv /\ WatermarkInv
  BY KindsAssumption
  DEF Init, ReservationInv, WatermarkInv, NewRow, NoState, Active, JobIds
<1> QED
  BY <1>1, SoundInit, SoundStep, ReservationStep, WatermarkStep, PTL DEF Spec

-----------------------------------------------------------------------------
(* What a finished job publishes, and how it may change *)

\* Inductive form of PublishedByLastAttempt: only a succeeded job has a result, so no
\* token is issued to a job while it has one.
ResultInv ==
    \A j \in JobIds : jobs[j].result # NoToken =>
        jobs[j].status = "succeeded" /\ jobs[j].result = issued[j]

\* ResultInv is kept by every step.
LEMMA ResultStep ==
    ASSUME Sound, ResultInv, [Next]_vars PROVE ResultInv'
<1>1. Shape
  BY StepShape DEF Sound
<1>2. issued \in [JobIds -> Nat]
  BY DEF Sound, Typed, TypeOK
<1>3. CASE Quiet
  BY <1>3 DEF Quiet, ResultInv
<1>4. ASSUME NEW j \in JobIds, Submitted(j) \/ Revived(j) PROVE ResultInv'
  BY <1>4 DEF Submitted, Revived, Moves, ResultInv
<1>5. ASSUME NEW j \in JobIds, Started(j) PROVE ResultInv'
  BY <1>2, <1>5 DEF Started, ResultInv, Active
<1>6. ASSUME NEW j \in JobIds, PutBack(j) \/ Ended(j) \/ Won(j) PROVE ResultInv'
  BY <1>6 DEF PutBack, Ended, Won, Moves, ResultInv, Active
<1> QED
  BY <1>1, <1>3, <1>4, <1>5, <1>6 DEF Shape

\* result_uri always names the object of the last attempt that was leased: an attempt
\* that was overtaken never publishes what it wrote.
THEOREM PublishedCorrect == Spec => []PublishedByLastAttempt
<1>1. Init => ResultInv
  BY DEF Init, ResultInv, NewRow
<1>2. ResultInv => PublishedByLastAttempt
  BY DEF ResultInv, PublishedByLastAttempt
<1> QED
  BY <1>1, <1>2, SoundInit, SoundStep, ResultStep, PTL DEF Spec

\* No late worker, sweep or second client changes the outcome of a finished job; only
\* retry does, and it gives the job a full attempt budget.
THEOREM OutcomesStand == Spec => OnlyRetryRevives
<1>1. ASSUME Sound, [Next]_vars
      PROVE  [\A j \in JobIds :
                /\ jobs[j].status = "succeeded" => jobs'[j].status = "succeeded"
                /\ jobs[j].status \in Terminal /\ jobs'[j].status # jobs[j].status =>
                      jobs'[j].status = "pending" /\ jobs'[j].attempt_count = 0]_vars
  <2>1. Shape
    BY <1>1, StepShape DEF Sound
  <2>2. ASSUME NEW j \in JobIds
        PROVE  /\ jobs[j].status = "succeeded" => jobs'[j].status = "succeeded"
               /\ jobs[j].status \in Terminal /\ jobs'[j].status # jobs[j].status =>
                     jobs'[j].status = "pending" /\ jobs'[j].attempt_count = 0
    BY <2>1 DEF Shape, Quiet, Submitted, Started, PutBack, Ended, Won, Revived, Moves,
                Active, Terminal
  <2> QED
    BY <2>2
<1> QED
  BY <1>1, SoundInit, SoundStep, PTL DEF Spec, OnlyRetryRevives
=============================================================================
