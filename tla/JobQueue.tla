------------------------------- MODULE JobQueue -------------------------------
(***************************************************************************)
(* The durable job queue of the feature store: the jobs table, the         *)
(* incremental-materialization reservations, the artifacts of historical   *)
(* queries, the workers that lease jobs and the API handlers that create,  *)
(* cancel and retry them (feature_store/jobs.py, worker.py).               *)
(*                                                                         *)
(* Every action that touches the database is one committed transaction;    *)
(* what a process remembers between two transactions (a claimed row, a     *)
(* check made before an UPDATE) is kept in exec and checked.               *)
(* OFFLINE_APPEND jobs share the queue but also move the stream ledger;    *)
(* they are not a kind of this module.                                     *)
(***************************************************************************)
EXTENDS Integers, FiniteSets

CONSTANTS
    Backfills,          \* ids of BACKFILL jobs
    Materializations,   \* ids of MATERIALIZE jobs with mode "explicit"
    Incrementals,       \* ids of MATERIALIZE jobs with mode "incremental"
    Historicals,        \* ids of HISTORICAL_QUERY jobs
    NoJob,              \* a NULL job reference
    Views,              \* pinned feature-view versions
    ViewOf,             \* [Incrementals -> Views], payload["feature_view"]
    Workers,            \* worker processes
    Clients,            \* API handlers serving a retry request
    Cutoffs,            \* the cutoffs incremental requests carry
    Chunks,             \* daily chunks of a backfill
    MaxAttempts,        \* job_max_attempts
    LeaseSeconds,       \* job_lease_seconds
    RetryBase,          \* job_retry_base_seconds
    RetryMax,           \* job_retry_max_seconds
    TTL,                \* historical_result_ttl_seconds
    MaxDelay,           \* bound: ticks between reading the clock and the statement using it
    MaxBeats,           \* bound: lease renewals of one attempt
    MaxTokens,          \* bound: a job that was leased this many times is not retried by hand
    LastRetry,          \* bound: nothing is retried by hand after this instant
    Faults              \* which of AllFaults the environment may commit

JobIds == Backfills \cup Materializations \cup Incrementals \cup Historicals

(***************************************************************************)
(* crash          a worker process dies and is restarted                   *)
(* stalled_claim  other processes run between claim_next's commit and its  *)
(*                refresh of the claimed row                               *)
(* stalled_retry  other processes run between retry's checks and its       *)
(*                UPDATE                                                   *)
(* ack_lost       a transaction commits and the session still raises       *)
(* sweep_abort    a cleanup sweep deletes files and does not commit        *)
(***************************************************************************)
AllFaults == {"crash", "stalled_claim", "stalled_retry", "ack_lost", "sweep_abort"}

NoTime  == 0     \* a NULL timestamp; the clock starts at 1
NoToken == 0     \* a NULL lease_token; the n-th token of a job stands for its n-th UUID

Active   == {"pending", "retrying", "running"}
Terminal == {"succeeded", "failed", "exhausted", "cancelled"}
Statuses == {"absent"} \cup Active \cup Terminal

ASSUME KindsAssumption ==
    /\ NoJob \notin JobIds
    /\ Incrementals \cap (Backfills \cup Materializations \cup Historicals) = {}
    /\ Historicals \cap (Backfills \cup Materializations) = {}
    /\ Backfills \cap Materializations = {}
    /\ ViewOf \in [Incrementals -> Views]
ASSUME SettingsAssumption ==
    /\ MaxAttempts \in Nat \ {0} /\ LeaseSeconds \in Nat \ {0} /\ Chunks \in Nat \ {0}
    /\ RetryBase \in Nat /\ RetryMax \in Nat /\ TTL \in Nat
    /\ MaxDelay \in Nat /\ MaxBeats \in Nat /\ MaxTokens \in Nat /\ LastRetry \in Nat
    /\ Cutoffs \subseteq Nat \ {0}
    /\ Faults \subseteq AllFaults
ASSUME PowersAssumption == \A n \in 1..MaxAttempts : 2 ^ (n - 1) \in Nat

VARIABLES
    now,       \* the wall clock
    jobs,      \* the jobs table, by id
    states,    \* materialization_states, by feature view
    issued,    \* how many lease tokens each job has been given
    inputs,    \* historical jobs whose input.json exists
    results,   \* <<job, token>> of every attempt result that exists
    exec,      \* what each worker process holds in memory
    checked    \* the job whose retry each client has checked and not yet written

vars == <<now, jobs, states, issued, inputs, results, exec, checked>>

PCs == {"idle", "claimed", "holding", "body", "query", "writing", "finalize",
        "failed", "discard"}

Row == [status : Statuses, attempt_count : 0..MaxAttempts, next_attempt_at : Nat,
        lease_token : Nat, lease_expires_at : Nat, end : Cutoffs \cup {NoTime},
        checkpoints : 0..Chunks, result : Nat, artifact_expires_at : Nat,
        artifacts_cleaned : BOOLEAN]
State == [watermark : Cutoffs \cup {NoTime}, active_job_id : Incrementals \cup {NoJob},
          last_successful_job_id : Incrementals \cup {NoJob}]
Exec == [pc : PCs, job : JobIds \cup {NoJob}, token : Nat, seen : 0..Chunks,
         beats : 0..MaxBeats, result : BOOLEAN, terminal : BOOLEAN]

NewRow(status, end) ==
    [status |-> status, attempt_count |-> 0, next_attempt_at |-> NoTime,
     lease_token |-> NoToken, lease_expires_at |-> NoTime, end |-> end,
     checkpoints |-> 0, result |-> NoToken, artifact_expires_at |-> NoTime,
     artifacts_cleaned |-> FALSE]
NoState == [watermark |-> NoTime, active_job_id |-> NoJob, last_successful_job_id |-> NoJob]
Idle == [pc |-> "idle", job |-> NoJob, token |-> NoToken, seen |-> 0, beats |-> 0,
         result |-> FALSE, terminal |-> FALSE]

Init ==
    /\ now = 1
    /\ jobs = [j \in JobIds |-> NewRow("absent", NoTime)]
    /\ states = [v \in Views |-> NoState]
    /\ issued = [j \in JobIds |-> 0]
    /\ inputs = {}
    /\ results = {}
    /\ exec = [w \in Workers |-> Idle]
    /\ checked = [c \in Clients |-> NoJob]

-----------------------------------------------------------------------------
(* Rows and reservations *)

\* The clock readings a statement executed now may carry.
Readings == {t \in 1..now : now <= t + MaxDelay}

\* Mutant: the token survives the end of the attempt.
UnleasedKeepsToken(row) == [row EXCEPT !.next_attempt_at = NoTime, !.lease_expires_at = NoTime]

\* The columns every write that ends an attempt clears.
Unleased(row) ==
    [row EXCEPT !.next_attempt_at = NoTime, !.lease_token = NoToken,
                !.lease_expires_at = NoTime]

\* Mutant: a cancelled query is given no retention deadline.
SettledKeepsCancelled(j, status, t) ==
    [Unleased(jobs[j]) EXCEPT
        !.status = status,
        !.artifact_expires_at = IF j \in Historicals /\ status # "cancelled" THEN t + TTL ELSE @]

\* A job reaches a terminal status at time t; artifacts start to age.
Settled(j, status, t) ==
    [Unleased(jobs[j]) EXCEPT
        !.status = status,
        !.artifact_expires_at = IF j \in Historicals THEN t + TTL ELSE @]

\* Mutant: a job that ends without success keeps its reservation.
ReleasedNever(j) == states

\* The states table after _release_incremental_reservation of j.
Released(j) ==
    [v \in Views |->
        IF j \in Incrementals /\ ViewOf[j] = v /\ states[v].active_job_id = j
          THEN [states[v] EXCEPT !.active_job_id = NoJob]
          ELSE states[v]]

\* Mutant: only a running job counts as holding the view.
HeldByOtherRunning(v, j) ==
    /\ states[v].active_job_id \notin {NoJob, j}
    /\ jobs[states[v].active_job_id].status = "running"

\* View v's reservation belongs to an active job other than j.
HeldByOther(v, j) ==
    /\ states[v].active_job_id \notin {NoJob, j}
    /\ jobs[states[v].active_job_id].status \in Active

\* The states table after job j takes the reservation of its view.
Reserved(j) ==
    IF j \in Incrementals THEN [states EXCEPT ![ViewOf[j]].active_job_id = j] ELSE states

\* Mutant: one attempt too many.
SpentOffByOne(j) == jobs[j].attempt_count > MaxAttempts

\* The attempts of the current budget are used up.
Spent(j) == jobs[j].attempt_count >= MaxAttempts

Backoff(n) ==
    IF RetryBase * 2 ^ (n - 1) < RetryMax THEN RetryBase * 2 ^ (n - 1) ELSE RetryMax

-----------------------------------------------------------------------------
(* API: creating jobs *)

\* JobService.create and create_historical_query: one new PENDING row, the
\* query's input written beforehand.
Create(j) ==
    /\ j \notin Incrementals
    /\ jobs[j].status = "absent"
    /\ jobs' = [jobs EXCEPT ![j] = NewRow("pending", NoTime)]
    /\ inputs' = IF j \in Historicals THEN inputs \cup {j} ELSE inputs
    /\ UNCHANGED <<now, states, issued, results, exec, checked>>

\* create_historical_query when commit succeeds and the session raises all the
\* same: the handler rolls back nothing and deletes the input of a live job.
CreateAckLost(j) ==
    /\ "ack_lost" \in Faults
    /\ j \in Historicals
    /\ jobs[j].status = "absent"
    /\ jobs' = [jobs EXCEPT ![j] = NewRow("pending", NoTime)]
    /\ UNCHANGED <<now, states, issued, inputs, results, exec, checked>>

\* A cutoff may equal the watermark but not precede it.
CutoffAllowed(v, cutoff) == cutoff >= states[v].watermark

\* create_incremental_materialization: refused when the cutoff precedes the
\* watermark; a request that finds an active job returns it and changes nothing.
CreateIncremental(j, cutoff) ==
    /\ j \in Incrementals
    /\ jobs[j].status = "absent"
    /\ ~HeldByOther(ViewOf[j], j)
    /\ CutoffAllowed(ViewOf[j], cutoff)
    /\ jobs' = [jobs EXCEPT ![j] = NewRow("pending", cutoff)]
    /\ states' = Reserved(j)
    /\ UNCHANGED <<now, issued, inputs, results, exec, checked>>

-----------------------------------------------------------------------------
(* API: cancelling and retrying jobs *)

Cancel(j, t) ==
    /\ jobs[j].status \in Active
    /\ jobs' = [jobs EXCEPT ![j] = Settled(j, "cancelled", t)]
    /\ states' = Released(j)
    /\ UNCHANGED <<now, issued, inputs, results, exec, checked>>

\* The checks retry makes on the row it loaded without a lock.
MayRetry(j, t) ==
    /\ \/ jobs[j].status \in {"failed", "exhausted"}
       \/ jobs[j].status = "cancelled" /\ j \in Historicals \cup Incrementals
    /\ ~jobs[j].artifacts_cleaned
    /\ jobs[j].artifact_expires_at = NoTime \/ jobs[j].artifact_expires_at > t
    /\ issued[j] < MaxTokens /\ now <= LastRetry

\* Mutant: a retried job goes on with the attempts it had used.
RetriedKeepsAttempts(row) ==
    [NewRow("pending", row.end) EXCEPT !.checkpoints = row.checkpoints,
                                       !.attempt_count = row.attempt_count]

\* The row a retry writes: everything but the payload and the checkpoints is reset.
Retried(row) == [NewRow("pending", row.end) EXCEPT !.checkpoints = row.checkpoints]

\* retry's transaction: the reservation, then the UPDATE that rechecks only the status.
RetryWrite(j) ==
    /\ j \in Incrementals => ~HeldByOther(ViewOf[j], j)
    /\ jobs[j].status \in {"failed", "exhausted", "cancelled"}
    /\ jobs' = [jobs EXCEPT ![j] = Retried(@)]
    /\ states' = Reserved(j)
    /\ UNCHANGED <<now, issued, inputs, results, exec>>

Retry(j, t) == MayRetry(j, t) /\ RetryWrite(j) /\ UNCHANGED checked

\* The same request when other processes run between its two halves.
RetryCheck(c, j, t) ==
    /\ "stalled_retry" \in Faults
    /\ checked[c] = NoJob
    /\ MayRetry(j, t)
    /\ checked' = [checked EXCEPT ![c] = j]
    /\ UNCHANGED <<now, jobs, states, issued, inputs, results, exec>>

RetryCommit(c) ==
    /\ checked[c] # NoJob
    /\ RetryWrite(checked[c])
    /\ checked' = [checked EXCEPT ![c] = NoJob]

\* Another active job holds the view, or the UPDATE matched no row.
RetryRefused(c) ==
    LET j == checked[c] IN
    /\ j # NoJob
    /\ \/ j \in Incrementals /\ HeldByOther(ViewOf[j], j)
       \/ jobs[j].status \in Active \cup {"succeeded"}
    /\ checked' = [checked EXCEPT ![c] = NoJob]
    /\ UNCHANGED <<now, jobs, states, issued, inputs, results, exec>>

-----------------------------------------------------------------------------
(* Workers: claiming *)

\* Mutant: leases that ran out are not recovered.
EligibleWaiting(j, t) ==
    \/ jobs[j].status = "pending"
    \/ jobs[j].status = "retrying" /\ jobs[j].next_attempt_at <= t

\* A row claim_next may select. FOR UPDATE SKIP LOCKED passes over rows other
\* transactions hold, so any eligible row may be the one taken, not only the oldest.
Eligible(j, t) ==
    \/ jobs[j].status = "pending"
    \/ jobs[j].status = "retrying" /\ jobs[j].next_attempt_at <= t
    \/ jobs[j].status = "running" /\ jobs[j].lease_expires_at <= t

\* Mutant: an attempt that takes over an expired lease inherits its token.
LeasedKeepsToken(j, t) ==
    [Unleased(jobs[j]) EXCEPT
        !.status = "running", !.attempt_count = @ + 1,
        !.lease_token = IF jobs[j].status = "running" THEN jobs[j].lease_token ELSE issued[j] + 1,
        !.lease_expires_at = t + LeaseSeconds]

\* The row claim_next writes, with a token never used before.
Leased(j, t) ==
    [Unleased(jobs[j]) EXCEPT
        !.status = "running", !.attempt_count = @ + 1,
        !.lease_token = issued[j] + 1, !.lease_expires_at = t + LeaseSeconds]

\* claim_next takes a lease. What the worker then knows of the row is what its
\* refresh after the commit returns: at once, or later under "stalled_claim".
Claim(w, j, t) ==
    /\ exec[w].pc = "idle"
    /\ Eligible(j, t)
    /\ ~Spent(j)
    /\ jobs' = [jobs EXCEPT ![j] = Leased(j, t)]
    /\ issued' = [issued EXCEPT ![j] = @ + 1]
    /\ exec' = [exec EXCEPT ![w] =
                  IF "stalled_claim" \in Faults
                    THEN [Idle EXCEPT !.pc = "claimed", !.job = j]
                    ELSE [Idle EXCEPT !.pc = "holding", !.job = j,
                            !.token = Leased(j, t).lease_token,
                            !.seen = jobs[j].checkpoints]]
    /\ UNCHANGED <<now, states, inputs, results, checked>>

Refresh(w) ==
    /\ exec[w].pc = "claimed"
    /\ exec' = [exec EXCEPT ![w] =
                  [@ EXCEPT !.pc = "holding", !.token = jobs[exec[w].job].lease_token,
                            !.seen = jobs[exec[w].job].checkpoints]]
    /\ UNCHANGED <<now, jobs, states, issued, inputs, results, checked>>

\* claim_next finds an eligible row whose attempts are used up.
Exhaust(w, j, t) ==
    /\ exec[w].pc = "idle"
    /\ Eligible(j, t)
    /\ Spent(j)
    /\ jobs' = [jobs EXCEPT ![j] = Settled(j, "exhausted", t)]
    /\ states' = Released(j)
    /\ UNCHANGED <<now, issued, inputs, results, exec, checked>>

-----------------------------------------------------------------------------
(* Workers: executing *)

\* Mutant: the fence does not compare tokens.
OwnsAnyToken(w, t) ==
    LET row == jobs[exec[w].job] IN row.status = "running" /\ row.lease_expires_at > t

\* The fence: _owns, and the WHERE clause of every write an attempt makes.
Owns(w, t) ==
    LET row == jobs[exec[w].job] IN
    /\ row.status = "running"
    /\ row.lease_token = exec[w].token
    /\ row.lease_expires_at > t

\* The worker leaves execute: the heartbeat thread is stopped.
Leave(w) == exec' = [exec EXCEPT ![w] = Idle]

\* Leave, deleting the attempt's result first when attempt_result_uri is still set.
Abandon(w) ==
    exec' = [exec EXCEPT ![w] = IF @.result THEN [@ EXCEPT !.pc = "discard"] ELSE Idle]

Goto(w, pc) == exec' = [exec EXCEPT ![w].pc = pc]

\* run() asserts that the claimed row has a token; the process dies otherwise.
AssertToken(w) ==
    /\ exec[w].pc = "holding"
    /\ exec[w].token = NoToken
    /\ Leave(w)
    /\ UNCHANGED <<now, jobs, states, issued, inputs, results, checked>>

\* The heartbeat thread starts; _execute goes on only if the lease is still held.
Start(w, t) ==
    /\ exec[w].pc = "holding"
    /\ exec[w].token # NoToken
    /\ exec' = [exec EXCEPT ![w] =
                  IF Owns(w, t) THEN [@ EXCEPT !.pc = "body", !.beats = MaxBeats] ELSE Idle]
    /\ UNCHANGED <<now, jobs, states, issued, inputs, results, checked>>

\* One round of _heartbeat: the lease is renewed, or the thread ends.
Heartbeat(w, t) ==
    /\ exec[w].beats > 0
    /\ IF Owns(w, t)
         THEN /\ jobs' = [jobs EXCEPT ![exec[w].job].lease_expires_at = t + LeaseSeconds]
              /\ exec' = [exec EXCEPT ![w].beats = @ - 1]
         ELSE /\ exec' = [exec EXCEPT ![w].beats = 0]
              /\ UNCHANGED jobs
    /\ UNCHANGED <<now, states, issued, inputs, results, checked>>

\* _require_ownership, or a fenced checkpoint that matched no row, raises LeaseLostError.
LeaseLost(w, t) ==
    /\ exec[w].pc \in {"body", "query"}
    /\ ~Owns(w, t)
    /\ Leave(w)
    /\ UNCHANGED <<now, jobs, states, issued, inputs, results, checked>>

\* _commit_checkpoints: a backfill appends a chunk to the list it has in memory,
\* a materialization records that it is done.
CommitCheckpoint(w, t) ==
    LET j == exec[w].job
        done == IF j \in Backfills THEN exec[w].seen + 1 ELSE 1
    IN /\ exec[w].pc = "body"
       /\ j \notin Historicals
       /\ j \in Backfills => exec[w].seen < Chunks
       /\ Owns(w, t)
       /\ jobs' = [jobs EXCEPT ![j].checkpoints = done]
       /\ exec' = [exec EXCEPT ![w] =
                     [@ EXCEPT !.seen = done,
                               !.pc = IF j \in Backfills THEN "body" ELSE "finalize"]]
       /\ UNCHANGED <<now, states, issued, inputs, results, checked>>

\* The chunk loop of _backfill ends: every chunk has its checkpoint.
ChunksDone(w) ==
    /\ exec[w].pc = "body"
    /\ exec[w].job \in Backfills
    /\ exec[w].seen = Chunks
    /\ Goto(w, "finalize")
    /\ UNCHANGED <<now, jobs, states, issued, inputs, results, checked>>

\* _historical_query reads its input; a missing file is an OSError, hence retryable.
ReadInput(w) ==
    /\ exec[w].pc = "body"
    /\ exec[w].job \in Historicals
    /\ Goto(w, IF exec[w].job \in inputs THEN "query" ELSE "failed")
    /\ UNCHANGED <<now, jobs, states, issued, inputs, results, checked>>

\* The last ownership check before the result is written.
QueryDone(w, t) ==
    /\ exec[w].pc = "query"
    /\ Owns(w, t)
    /\ Goto(w, "writing")
    /\ UNCHANGED <<now, jobs, states, issued, inputs, results, checked>>

WriteResult(w) ==
    /\ exec[w].pc = "writing"
    /\ results' = results \cup {<<exec[w].job, exec[w].token>>}
    /\ exec' = [exec EXCEPT ![w] = [@ EXCEPT !.pc = "finalize", !.result = TRUE]]
    /\ UNCHANGED <<now, jobs, states, issued, inputs, checked>>

\* The body raises, terminally or not; or the success transaction fails, which is
\* a database error and never terminal.
Fail(w, terminal) ==
    /\ exec[w].pc \in {"body", "query", "writing", "finalize"}
    /\ exec[w].pc = "finalize" => ~terminal
    /\ exec' = [exec EXCEPT ![w] = [@ EXCEPT !.pc = "failed", !.terminal = terminal]]
    /\ UNCHANGED <<now, jobs, states, issued, inputs, results, checked>>

-----------------------------------------------------------------------------
(* Workers: finishing *)

\* The row _finalize_success writes; result_uri names the attempt's own object.
Succeeded(w, t) ==
    LET j == exec[w].job IN
    [Settled(j, "succeeded", t) EXCEPT
        !.result = IF j \in Historicals THEN exec[w].token ELSE NoToken]

\* Mutant: the watermark advances without the job that advanced it.
PublishedAnonymously(j) ==
    IF j \in Incrementals
      THEN [states EXCEPT ![ViewOf[j]] =
              [@ EXCEPT !.watermark = jobs[j].end, !.active_job_id = NoJob]]
      ELSE states

\* _finalize_success publishes the watermark only where j still holds the reservation.
Published(j) ==
    IF j \in Incrementals
      THEN [states EXCEPT ![ViewOf[j]] =
              [watermark |-> jobs[j].end, active_job_id |-> NoJob,
               last_successful_job_id |-> j]]
      ELSE states

ReservationLost(j) == j \in Incrementals /\ states[ViewOf[j]].active_job_id # j

CommitSuccess(w, t) ==
    LET j == exec[w].job IN
    /\ exec[w].pc = "finalize"
    /\ Owns(w, t)
    /\ ~ReservationLost(j)
    /\ jobs' = [jobs EXCEPT ![j] = Succeeded(w, t)]
    /\ states' = Published(j)
    /\ UNCHANGED <<now, issued, inputs, results, checked>>

\* Mutant: attempt_result_uri is not forgotten after success.
FinalizeSuccessDiscards(w, t) ==
    CommitSuccess(w, t) /\ Goto(w, IF exec[w].result THEN "discard" ELSE "idle")

FinalizeSuccess(w, t) == CommitSuccess(w, t) /\ Leave(w)

\* The commit, or the refresh after it, raises although the transaction took effect.
FinalizeSuccessAckLost(w, t) ==
    /\ "ack_lost" \in Faults
    /\ CommitSuccess(w, t)
    /\ Goto(w, "failed")

\* No row matched, or the reservation is gone: LeaseLostError.
FinalizeRefused(w, t) ==
    /\ exec[w].pc = "finalize"
    /\ Owns(w, t) => ReservationLost(exec[w].job)
    /\ Abandon(w)
    /\ UNCHANGED <<now, jobs, states, issued, inputs, results, checked>>

\* The row _finalize_failure writes: FAILED, EXHAUSTED, or RETRYING after a backoff.
Failed(w, t) ==
    LET j == exec[w].job
    IN IF exec[w].terminal THEN Settled(j, "failed", t)
       ELSE IF Spent(j) THEN Settled(j, "exhausted", t)
       ELSE [Unleased(jobs[j]) EXCEPT !.status = "retrying",
               !.next_attempt_at = t + Backoff(jobs[j].attempt_count),
               !.artifact_expires_at = NoTime]

\* _finalize_failure; when the fence refuses it the row is left alone.
FinalizeFailure(w, t) ==
    LET j == exec[w].job
        row == Failed(w, t)
    IN /\ exec[w].pc = "failed"
       /\ IF Owns(w, t)
            THEN /\ jobs' = [jobs EXCEPT ![j] = row]
                 /\ states' = IF row.status = "retrying" THEN states ELSE Released(j)
            ELSE UNCHANGED <<jobs, states>>
       /\ Abandon(w)
       /\ UNCHANGED <<now, issued, inputs, results, checked>>

\* The finally clause of _execute deletes attempt_result_uri.
DiscardResult(w) ==
    /\ exec[w].pc = "discard"
    /\ results' = results \ {<<exec[w].job, exec[w].token>>}
    /\ Leave(w)
    /\ UNCHANGED <<now, jobs, states, issued, inputs, checked>>

\* A worker process dies: killed anywhere, or because _finalize_failure itself raised,
\* in which case the finally clause still discards the attempt's result.
Crash(w) ==
    /\ "crash" \in Faults
    /\ exec[w].pc # "idle"
    /\ Leave(w) \/ (exec[w].pc = "failed" /\ Abandon(w))
    /\ UNCHANGED <<now, jobs, states, issued, inputs, results, checked>>

-----------------------------------------------------------------------------
(* Workers: the retention sweep, and time *)

\* Mutant: the sweep does not wait for the retention deadline.
ExpiredAtOnce(t) == {j \in Historicals : jobs[j].status \in Terminal /\ ~jobs[j].artifacts_cleaned}

\* The rows cleanup_expired_artifacts selects.
Expired(t) ==
    {j \in Historicals :
        /\ jobs[j].status \in Terminal
        /\ jobs[j].artifact_expires_at # NoTime
        /\ jobs[j].artifact_expires_at <= t
        /\ ~jobs[j].artifacts_cleaned}

\* artifacts.delete_job of every job in S: the input and every attempt's result.
DeleteJobs(S) ==
    /\ inputs' = inputs \ S
    /\ results' = {r \in results : r[1] \notin S}

CleanupExpiredArtifacts(w, t) ==
    /\ exec[w].pc = "idle"
    /\ Expired(t) # {}
    /\ DeleteJobs(Expired(t))
    /\ jobs' = [j \in JobIds |->
                  IF j \in Expired(t) THEN [jobs[j] EXCEPT !.artifacts_cleaned = TRUE]
                                      ELSE jobs[j]]
    /\ UNCHANGED <<now, states, issued, exec, checked>>

\* The sweep deletes the files of some jobs, then raises before its one commit.
CleanupAborted(w, t) ==
    /\ "sweep_abort" \in Faults
    /\ exec[w].pc = "idle"
    /\ \E S \in SUBSET Expired(t) : S # {} /\ DeleteJobs(S)
    /\ UNCHANGED <<now, jobs, states, issued, exec, checked>>

\* Bound on the clock: it advances only while some deadline is still ahead of a
\* reading, since nothing distinguishes later instants.
Deadlines ==
    UNION {{jobs[j].next_attempt_at, jobs[j].lease_expires_at, jobs[j].artifact_expires_at} :
             j \in JobIds}

Tick ==
    /\ \E d \in Deadlines : d + MaxDelay > now
    /\ now' = now + 1
    /\ UNCHANGED <<jobs, states, issued, inputs, results, exec, checked>>

-----------------------------------------------------------------------------

\* One step of a worker that is executing an attempt.
Execute(w) ==
    \/ Refresh(w) \/ AssertToken(w) \/ ChunksDone(w) \/ ReadInput(w) \/ WriteResult(w)
    \/ DiscardResult(w)
    \/ \E t \in Readings :
          \/ Start(w, t) \/ LeaseLost(w, t) \/ CommitCheckpoint(w, t) \/ QueryDone(w, t)
          \/ FinalizeSuccess(w, t) \/ FinalizeSuccessAckLost(w, t)
          \/ FinalizeRefused(w, t) \/ FinalizeFailure(w, t)
    \/ \E terminal \in BOOLEAN : Fail(w, terminal)

\* One step of a worker that is between attempts.
Poll(w) == \E j \in JobIds, t \in Readings : Claim(w, j, t) \/ Exhaust(w, j, t)
Sweep(w) == \E t \in Readings : CleanupExpiredArtifacts(w, t)

Worker(w) ==
    \/ Execute(w) \/ Poll(w) \/ Sweep(w) \/ Crash(w)
    \/ \E t \in Readings : Heartbeat(w, t) \/ CleanupAborted(w, t)

API ==
    \/ \E j \in JobIds :
          \/ Create(j) \/ CreateAckLost(j)
          \/ \E cutoff \in Cutoffs : CreateIncremental(j, cutoff)
          \/ \E t \in Readings :
                Cancel(j, t) \/ Retry(j, t) \/ \E c \in Clients : RetryCheck(c, j, t)
    \/ \E c \in Clients : RetryCommit(c) \/ RetryRefused(c)

Next == Tick \/ API \/ \E w \in Workers : Worker(w)

Spec == Init /\ [][Next]_vars

(***************************************************************************)
(* Fairness: time passes, and a worker that is up keeps polling, sweeping  *)
(* and stepping through its attempt (run() is an endless loop and a body   *)
(* is assumed to return or raise). Nothing is owed by the API, by the      *)
(* heartbeat thread, or by the environment that crashes workers.           *)
(***************************************************************************)
FairSpec ==
    /\ Spec
    /\ WF_vars(Tick)
    /\ \A w \in Workers : WF_vars(Execute(w)) /\ WF_vars(Poll(w)) /\ WF_vars(Sweep(w))

-----------------------------------------------------------------------------
(* Properties *)

\* Every variable keeps its type; in particular no attempt is ever started beyond
\* max_attempts, whatever mix of expiries, failures and claims a job goes through.
TypeOK ==
    /\ now \in Nat \ {0}
    /\ jobs \in [JobIds -> Row]
    /\ states \in [Views -> State]
    /\ issued \in [JobIds -> Nat]
    /\ inputs \subseteq Historicals
    /\ results \subseteq Historicals \X Nat
    /\ exec \in [Workers -> Exec]
    /\ checked \in [Clients -> JobIds \cup {NoJob}]

\* What a worker holds in memory is consistent with where it is (needed to prove TypeOK).
ExecOK ==
    \A w \in Workers :
        /\ exec[w].pc # "idle" => exec[w].job \in JobIds
        /\ exec[w].beats > 0 => exec[w].pc # "idle"
        /\ exec[w].pc \in {"query", "writing", "discard"} \/ exec[w].result =>
              exec[w].job \in Historicals

\* A lease is recorded exactly while a job runs, and names the last token issued:
\* no transition forgets to clear the columns that heartbeats and fences match on.
LeaseInv ==
    \A j \in JobIds :
        /\ jobs[j].status = "running" <=> jobs[j].lease_token # NoToken
        /\ jobs[j].status = "running" =>
             /\ jobs[j].lease_token = issued[j]
             /\ jobs[j].lease_expires_at # NoTime
             /\ jobs[j].attempt_count > 0
        /\ jobs[j].status # "retrying" => jobs[j].next_attempt_at = NoTime

\* The reservation of a view and the jobs table agree: an incremental job that may
\* still run holds the reservation of its view, and only such a job does. So a view
\* never has two active incremental jobs, and none is left reserved by a dead one,
\* through every mix of create, cancel, retry, failure, expiry and success.
ReservationInv ==
    /\ \A j \in Incrementals :
          jobs[j].status \in Active => states[ViewOf[j]].active_job_id = j
    /\ \A v \in Views : states[v].active_job_id # NoJob =>
          /\ states[v].active_job_id \in Incrementals
          /\ ViewOf[states[v].active_job_id] = v
          /\ jobs[states[v].active_job_id].status \in Active

\* The published watermark is the cutoff of the job recorded as the last successful
\* one, and that job did succeed: a worker that lost its lease publishes neither.
WatermarkInv ==
    \A v \in Views :
        LET last == states[v].last_successful_job_id IN
        IF last = NoJob THEN states[v].watermark = NoTime
        ELSE /\ last \in Incrementals
             /\ ViewOf[last] = v
             /\ jobs[last].status = "succeeded"
             /\ states[v].watermark = jobs[last].end

\* The result a job publishes was written by the last attempt it was leased for: a
\* worker that was overtaken never publishes its own object (result_uri).
PublishedByLastAttempt ==
    \A j \in JobIds : jobs[j].result # NoToken => jobs[j].result = issued[j]

\* A finished job stays as it is until an operator retries it: a worker that comes
\* back late changes neither a success nor a cancellation, and what was retried
\* starts again with a full attempt budget.
OnlyRetryRevives ==
    [][\A j \in JobIds :
          /\ jobs[j].status = "succeeded" => jobs'[j].status = "succeeded"
          /\ jobs[j].status \in Terminal /\ jobs'[j].status # jobs[j].status =>
                jobs'[j].status = "pending" /\ jobs'[j].attempt_count = 0]_vars

\* Committed backfill chunks are never forgotten: neither a stale worker, which has
\* an older list of checkpoints in memory, nor a retry takes one back.
CheckpointsNeverRegress ==
    [][\A j \in Backfills : jobs'[j].checkpoints >= jobs[j].checkpoints]_vars

\* Each attempt's lease token is private to one worker process.
TokenIsPrivate ==
    \A w1, w2 \in Workers :
        w1 # w2 /\ exec[w1].job = exec[w2].job /\ exec[w1].token # NoToken =>
            exec[w1].token # exec[w2].token

\* The successful watermark of a view never moves back.
WatermarkMonotone ==
    [][\A v \in Views : states'[v].watermark >= states[v].watermark]_vars

\* A historical query that may still run, or that retry still accepts, has its input.
InputRetained ==
    \A j \in Historicals :
        jobs[j].status \in Active \/ (jobs[j].status \in Terminal /\ jobs[j].artifact_expires_at > now)
            => j \in inputs

\* A result that is published and within its retention period can be downloaded.
ResultRetained ==
    \A j \in Historicals :
        jobs[j].status = "succeeded" /\ jobs[j].artifact_expires_at > now
            => <<j, jobs[j].result>> \in results

\* Every job is decided: an active job comes to a terminal status, whatever workers
\* crash on the way.
EveryJobDecided ==
    \A j \in JobIds : jobs[j].status \in Active ~> jobs[j].status \in Terminal

\* The artifacts of a decided query are eventually deleted, unless it is retried.
ArtifactsReclaimed ==
    \A j \in Historicals :
        jobs[j].status \in Terminal ~>
            jobs[j].artifacts_cleaned \/ jobs[j].status \in Active

=============================================================================
