# TLA+ verification of the feature store

This directory specifies the distributed feature store
(`../src/src/feature_store`) in TLA+: its job queue, stream ingestion, registry, and the
jobs that move feature rows between its stores. It checks them with TLC on small instances, and
proves its main safety properties for all instances with TLAPS. `PROJECT.json`
maps every definition to the lines it models and lists runs, mutants, findings,
hazards and theorems. Paths below are relative to the repository
(`jobs.py` is `src/feature_store/jobs.py`).

## 1. The system: an inventory

| Part | State it keeps | Operations | Talks to |
| --- | --- | --- | --- |
| Job service, job executor (`jobs.py`, `worker.py`, `db.py`) | tables `jobs`, `materialization_states`; in each worker process the claimed row, its lease token and the list of checkpoints | create (4 kinds), cancel, retry, claim, heartbeat, checkpoint, finish, fail, sweep | API handlers and any number of workers, through Postgres |
| Query artifacts (`artifacts.py`) | one prefix per job: `input.json`, one result object per attempt | write, read, delete one object, delete a prefix | job service, workers, API downloads |
| Stream consumer and event ledger (`streaming.py`, `ledger.py`) | table `stream_events` (pending, staged, applied), per-view buffers in memory, Kafka offsets, DLQ | handle a message, register, buffer, flush, dead-letter, recover | Kafka, Redis, Delta staging, job queue |
| Offline append (`jobs.py` `_offline_append`, `offline.py`) | the view's Delta table, staging tables | load staging, drop rows already present, append, mark the ledger applied | job queue, ledger |
| Online store (`online.py`) | one Redis hash per view and entity | Lua upsert (newest event time, then event id, wins), read | stream consumer, materialization, API |
| Backfill (`jobs.py` `_backfill`) | day partitions of the view table, quarantine tables, quality counts in checkpoints | per-day read, transform, validate, replace the partition, checkpoint | job queue, offline store, quality |
| Materialization (`jobs.py` `_materialize`) | watermark and source freshness | scan from watermark - lookback to the cutoff, upsert the latest row per entity | job queue, offline and online stores |
| Point-in-time join (`pit.py`) | none (a pure function) | newest row not after the observation, TTL, tie-break by event id | offline store |
| Data quality (`quality.py`) | none (a pure function) | constraint checks, uniqueness inside a batch | backfill, stream consumer |
| Registry (`registry.py`) | immutable records, mutable lifecycle rows (metadata, deprecation) of objects and features | plan, apply, patch, deprecate with replacement, reactivate, resolve, warn | every other part |
| API, SDK, CLI, observability, demo, benchmark | none that decides anything | routing, serialization, gauges | all of the above |

### Where it is hard

* **Lost leases.** A worker that is slow rather than dead keeps running after another
  one took its job over. Each write of an attempt is *fenced*: its `WHERE` clause
  repeats status, token and expiry. Reading the clock happens before the statement runs.
* **Two tables, five paths.** The reservation of a view (`materialization_states`) and the
  job's status must change together in create, cancel, retry, exhaustion, failure and success.
* **Checks outside the transaction.** `retry` checks retention on a row it loaded without
  a lock. `claim_next` returns what a second read finds after its commit.
* **Ambiguous commits.** `create_historical_query` and `_execute` clean up after *any*
  exception, also after one raised by a transaction that did take effect.
* **Files beside the database.** Inputs and results are written and deleted outside the
  transactions that describe them.
* **Delivery.** Kafka redelivers what was not committed, the DLQ may lose what it accepted,
  Redis may fail between registration and staging.
* **Read-modify-write of Delta partitions**, which no fence protects: a backfill loads what
  it will preserve, then replaces a whole date; an append compares identities, then appends.
* **Plans against old reads.** A manifest is judged against records read before its
  commit, a lifecycle row is changed in memory and updated later; between the two only
  unique constraints stand.

### What makes each part correct

* Job queue: one owner per attempt; a view has at most one active incremental job and is
  never left reserved by a finished one; outcomes stand; the budget is respected; every
  job is decided.
* Artifacts: an input while the job may run, a result while it is published and retained,
  nothing for ever.
* Watermark: it is the cutoff of the view's last successful job, and should not move back.
* Stream: a committed offset never covers a message that is neither durable nor
  dead-lettered, and never moves back; each event is staged once, and every accepted event
  is; what is staged is online.
* Online store: each hash holds the newest event ever offered to it, in any order.
* Backfill: a finished chunk is in the view row for row, once; rows that break the contract
  are where the policy puts them; rows outside the range stay; counts are exact.
* Offline append: an event whose job succeeded is in the view, once unless its lease was lost.
* Materialization: what a scan passes over is outside its window or online already; what it
  scanned is online when it succeeds; the freshness it publishes is being served.
* Point-in-time join: the newest row up to the observation, or why there is none.
* Registry: references resolve, definitions never change, edits of metadata and of status
  do not undo each other, replacements can be used, deprecations are announced.

## 2. Modules

| Module | What it is |
| --- | --- |
| `JobQueue` | the job queue, its workers and API handlers, and the artifacts of historical queries |
| `JobLifecycle` | abstract specification: what a job's status promises to whoever submitted it |
| `JobQueueRefinement` | the refinement mapping from `JobQueue` to `JobLifecycle` |
| `MCJobQueue` | constants and symmetry for TLC |
| `StreamIngestion` | the stream consumer, its ledger, the Kafka offsets and the dead-letter topic |
| `OnlineStore` | the update script of the online store |
| `MCStreamIngestion` | messages and logs for TLC |
| `StreamIngestion_proofs` | the inductive invariants of ingestion and its safety theorems |
| `OfflineStore` | Delta tables: load, range scan, append, replacement of a date |
| `Quality` | data quality contracts |
| `PointInTime` | the point-in-time join |
| `ViewTable` | the data of one view: backfills, appends and materializations over the four modules above and `OnlineStore` |
| `MCViewTable` | rows, payloads and scenarios for TLC |
| `Registry` | records and lifecycle rows of the registry, and its deprecation warnings |
| `MCRegistry` | definitions and manifests for TLC |
| `Registry_proofs` | the inductive invariants and the theorems of the registry |
| `ViewTable_proofs` | types, admitted rows and summaries of `ViewTable`, and its steps sorted by what they change |
| `ViewTableRows_proofs` | what the tables hold: finished chunks, appended events, rows outside every backfill |
| `ViewTableReads_proofs` | what readers get: point-in-time answers, online rows, freshness |
| `JobQueue_proofs` | the inductive invariants and the safety theorems |
| `JobQueueFaultFree_proofs` | what the queue promises while particular faults stay away |
| `JobQueueRefinement_proofs` | the proof that `JobQueue` implements `JobLifecycle` |

### JobQueue and the code

| Variable | Code |
| --- | --- |
| `jobs` | the `jobs` table; `"absent"` is a job that has not been submitted |
| `states` | `materialization_states`: watermark, `active_job_id`, `last_successful_job_id` |
| `issued` | how many lease tokens a job was given: the n-th token stands for its n-th UUID |
| `inputs`, `results` | the objects that exist; a result is named by job and token, as `result_uri` does |
| `exec` | what a worker process remembers: the claimed job, the token and checkpoints it read, whether its heartbeat thread may still renew, whether `attempt_result_uri` is set, whether the exception it caught is terminal |
| `checked` | the job whose retry an API handler has checked and not yet written |
| `now` | the wall clock |

Each transaction is one action, from the row it selects to the commit; the code between
two transactions is the `pc` of the worker. A worker goes through `claimed` (committed,
not refreshed), `holding` (row returned), `body`, for queries `query` and `writing`, then
`finalize`, or `failed` when the body raised, and `discard` when the `finally` clause
has a result to delete.

* The fence `Owns` is the `WHERE` clause shared by `_owns`, `heartbeat`,
  `_commit_checkpoints`, `_finalize_success` and `_finalize_failure`.
* `Readings` are the clock values a statement may carry: taken up to `MaxDelay` ticks
  before it runs.
* `FOR UPDATE SKIP LOCKED` passes over locked rows, so any eligible row may be the next
  one; the `ORDER BY` is therefore not a guard.
* `Settled`, `Unleased`, `Retried` and `Leased` are the `.values(...)` of the updates;
  columns that only report (`error`, `failure_kind`, `worker_id`, times of start and end,
  `result_metadata`) are left out. `max_attempts` is the constant every job snapshots.
* `Faults` chooses what the environment may do: `crash`, `stalled_claim` (others run
  between a claim's commit and its refresh), `stalled_retry` (others run between
  `retry`'s checks and its update), `ack_lost` (a commit takes effect and still raises),
  `sweep_abort` (a sweep deletes files and fails before its commit).

`JobLifecycle` knows only phases, attempts and the last successful job of a lane. Its
guard `LaneFree` says that no other exclusive job of the lane is under way; in the code
nothing compares jobs with each other, that guarantee is what the reservation rows must
earn, and `ImplementsLifecycle` says that they do.

### StreamIngestion and the code

| Variable | Code |
| --- | --- |
| `log`, `committed` | what the partitions hold; the offsets of the consumer group |
| `ledger` | table `stream_events`; `content` stands for payload and fingerprint, `job` for `job_id` |
| `batches` | the `offline_append` jobs, each with its staging table |
| `redis` | the version of each online hash; the values are written together with it |
| `dlq`, `lost` | positions whose messages were dead-lettered; `lost` is what the ignored result of `producer.flush(10)` would have told |
| `unwritten` | events whose online write raised, as the metric `stream_online_writes{error}` counts them |
| `pc`, `level`, `at` | where the process is, which block an exception would leave, the message in hand |
| `position` | the next offset the client polls |
| `buffer`, `held` | `self.buffers` and `BufferedEvent.messages` |
| `acks` | `staged_messages` of a flush under way |
| `budget` | how many failures are still to come |

Every action ends at an effect outside the process (a commit in Postgres, an answer of
Redis or Kafka), so a crash or an exception can fall between any two. `level` is the
Python block: `body` is the `try` of `_handle`, whose `except` clauses lead to the dead
letter; `rescue` is inside those clauses, `loop` is the flush of the loop, and both lead to
the `finally` clause of `loop` (`exit`); from there and from `recover` the process ends.
The order of the code is kept, in particular that `_handle` buffers before it writes online
and that a flush empties a view's buffer only after the metrics that follow its commit.

* A message carries the set of verdicts validation may give it: freshness rules compare
  its event time with the clock, so a redelivered message may be judged differently.
* A message whose view rejects invalid events may be dropped on purpose; `Settled` counts
  such a message as settled whatever happened to it.
* One consumer runs at a time (`docs/ARCHITECTURE.md` 163). The set of subscribed
  partitions and the definitions are fixed. An interrupt is modelled where the loop
  spends its time, in the poll.
* `Apply` is the success of the batch's job, as the worker's transaction makes it.

`OnlineStore` keeps of a hash the pair its script compares. Event times are texts of one
width in UTC and identifiers are texts; both are modelled by natural numbers in the
order of the texts.

### ViewTable and the code

| Variable | Code |
| --- | --- |
| `table` | the view's Delta table: whether it exists, and a bag of rows (nothing makes an `event_id` unique in it) |
| `quarantine` | the quarantine table of each backfill (one per job, as `quarantine_uri` names it) |
| `online` | the version of each online hash |
| `published` | `watermark` and `source_freshness_at` of `materialization_states` |
| `status`, `attempt` | those columns of `jobs` |
| `checkpoints`, `summary` | the `backfill:` entries of `checkpoints`: their cursors, and the quality summary in the last one |
| `result` | the quality summary in `result_metadata` |
| `exec` | what an attempt holds: the cursor, the checkpoints and summary it has in memory, the rows it compared or scanned, the rows it will preserve, the write mode it has chosen |
| `scenario` | which jobs run, whether the table exists, the policy, which leases may expire under a live attempt and which jobs may be cancelled |

The bodies of the jobs are modelled step by step, a step ending where another job or
attempt could see or change what it relies on: the existence test and the load before a
replacement, the existence test that chooses the mode of an append, each commit, each
ownership check before an upsert. Leases are reduced to numbered attempts: the last one
claimed owns the job while it runs, an attempt that lost it goes on to its next check or
fenced update (`Lost`). That tokens and expiry give this is what `JobQueue` is about.
Any attempt may crash anywhere.

* A date has `DayLength` instants. `Chunks` are the cursors of a backfill (its start, then
  every midnight), so its first and last chunk can share a date with rows outside the range.
* The view's SQL is the set `Source` of rows it makes; the lookback by the TTL and the mask
  that removes it again are kept (`Transformed`, `Output`). The batch source does not change.
* A quality summary is a sum over chunks, so it is kept as how often each chunk was added.
* `Stored`, `Refused` and the two targets `view` and `quarantine` are the policy; under
  `reject` the chunk fails the job (`RejectChunk`) and its summary is published all the same.
* Ownership once lost does not come back, so two checks with nothing shared between them
  are one. The last checkpoint of an append or a materialization, fenced like the success
  that follows it, is merged with that success. Manual retry is left to `JobQueue`.
* `Ingest` is the stream consumer's online write, which precedes the staging of an event.

### Registry and the code

| Variable | Code |
| --- | --- |
| `records` | table `registry_records`; a definition is its identity, what it refers to and the features it offers; equal fingerprints are equal definitions |
| `lifecycle` | table `registry_lifecycle`, by target; `owner` stands for the three metadata columns, which are patched alike |
| `session` | what a request has read and will commit |
| `admins` | which sessions deprecate and reactivate (a scenario) |

A handler is a read step and a commit step; `deprecate` reads twice (the replacement, then
the dependents and the row), and other requests may commit between. `Flushed` is the ORM:
an `UPDATE` names the columns whose value differs from the one loaded, and
`MetadataAndStatusApart` rests on it. An insert whose identity is taken raises and rolls the
whole request back (`ApplyCommit`, `CommitLifecycle`). Texts, times and messages of a
deprecation are left out; listings and differences only read.

## 3. Runs

TLC completes every passing run within a minute or so on two cores. Except for the
registry, whose sessions never end, deadlock is not
checked because the systems really stop: the job queue when all jobs are decided and no
deadline is ahead, the consumer when it has read the finite log (polling an empty
partition changes nothing), the view table when its jobs are decided.

| Run | Instance | What it shows |
| --- | --- | --- |
| `JobQueueIncremental` | two incremental jobs of one view, two workers, two cutoffs, two attempts, crashes, manual retries up to instant 2 | `ReservationInv`, `WatermarkInv`, and the refinement of the lifecycle |
| `JobQueueLeases` | a two-chunk backfill, two workers, leases of 2 ticks, readings up to one tick old, one renewal, backoff, a manual retry | `TokenIsPrivate`, `CheckpointsNeverRegress` |
| `JobQueueArtifacts` | one query, two workers under fairness, crashes, aborted sweeps, a manual retry | `InputRetained`, `ResultRetained`, `EveryJobDecided`, `ArtifactsReclaimed` |
| `JobQueueFaults` | one query, two workers, one retrying client, every fault | `TypeOK`, `LeaseInv`, `PublishedByLastAttempt`, `OnlyRetryRevives` |
| `JobQueueRegress` | two incremental jobs, no fault | finding: a retry moves the watermark back |
| `JobQueueRetryRace` | one query, a stalled retry | finding: a retried job without input |
| `JobQueueAckLost` | one query, a lost acknowledgement | finding: a published result is deleted |
| `JobQueueSharedToken` | one backfill, a stalled claim | finding: two workers hold one token |
| `StreamIngestion` | two partitions (two messages and one), two views, batches of two, two failures of ten kinds | `TypeOK`, `CommittedIsSettled`, `StagedExactlyOnce`, `StagedIsOnlineOrFailed`, `OffsetsNeverRegress`, `EveryMessageSettled`, `PendingIsStaged` |
| `StreamRedis` | the same, one failed online write | finding: an event that is staged and never online |

| `Registry` | two sessions; four manifests that compete for one view (two versions of its content, a service that needs one of them) and share an entity and a source; four targets to deprecate, one to describe | `TypeOK`, `NoDanglingReference`, `ReplacementActive`, `DeprecationAnnounced`, `DefinitionsImmutable`, `MetadataAndStatusApart` |
| `ViewTable` | thirteen scenarios of up to three jobs of one view, two attempts each, crashes everywhere | `TypeOK`, `OnlyAdmittedRows`, `ChunksCountedOnce`, `ChunksExact`, `RowsOutsideKept`, `AppendedOnce`, `FreshnessServed`, `PointInTimeCorrect`, `OnlineKeepsUp` |

**Why the bounds are enough.** For the job queue the interesting cases need two actors and one takeover:
two workers (one overtaken, one overtaking), two attempts (one lost, one more), two jobs
competing for one view, two chunks (one that only the stale worker does not know),
two cutoffs (an older and a newer). The lease is at least one tick so that both sides of
the comparison with its expiry occur; `MaxDelay = 1` lets a reading be on the other
side of an expiry than the statement that uses it. `MaxTokens` and `LastRetry` bound how
often and how late an operator retries, `MaxBeats` how often one attempt renews its
lease; without them the state space is infinite. The clock stops when every recorded
deadline is behind every reading, because later instants are indistinguishable.

For ingestion they need one message that meets another of the same event: the log ends in
every combination of an event, the same identity with other content, an event of another
view and a second event or an invalid message, with one more copy of the event in the
other partition. Two views let a flush fail half way; two failures (`MaxFaults`) are one
that leaves something behind (a committed batch with a full buffer, a registration that
raised, a dead letter that was lost) and one more that falls into the recovery from it.
Batches of two are reached by size and, when partly filled, by time.

For the view table they need an attempt that crashes or is overtaken between two of its
writes and one more that repeats them (two attempts); a backfill of two chunks of which
the first starts within a date; a row before the range on that date and one inside it; a
chunk whose rows break uniqueness and the maximum age, one row of the TTL lookback, two
rows of one instant; staged events on a date of their own, one of them in the table
already, and one that reuses a batch row's identity; a row that arrives behind the watermark,
inside the lookback and before it. The scenarios pair every kind of writer with every
other, in a table old and new, and put materializations beside them; with three
attempts the properties held too, in four times the states.

For the registry they need two requests, one of which commits between two steps of the
other, targets of both granularities, a replacement chain of two links, and a service
whose view comes from another manifest.

**Fairness.** For the job queue `FairSpec` assumes that time passes, and that a worker between attempts
keeps polling and sweeping and one inside an attempt keeps stepping: `worker.run` is an
endless loop without a blocking wait but its poll interval, and a body is assumed to
return or raise. A process that crashes is restarted by its supervisor. Nothing is
assumed of operators, of heartbeats, or of the faults.

For ingestion it is weak fairness of `Consume`, the disjunction of what one process does
when nothing fails: its loop waits for nothing but the poll, and a supervisor starts it
again when it ended. Failures are finitely many (`budget`). Nothing is assumed of workers.

## 4. Findings

1. `retry` never compares an incremental job's stored cutoff with the watermark, so a
   newer success can be followed by an older one (`JobQueueRegress`). It then
   publishes an older watermark, and the next run scans again what was covered.
2. `retry` checks retention without a lock and updates on the status alone
   (`JobQueueRetryRace`): the sweep may delete the input in between, and the retried job,
   marked as not cleaned, runs out of attempts on a missing file.
3. The `finally` clause of `_execute` deletes the object of an attempt whose success
   was committed but not acknowledged (`JobQueueAckLost`).
4. `claim_next` reads the row again after its commit (`JobQueueSharedToken`): a worker
   that is slow there adopts the token of the one that took over, and both pass every
   fence. A cancellation in the same window clears the token, and the assertion in
   `worker.run` ends the process (action `AssertToken`).
5. `_handle` buffers an event before it writes it online (`StreamRedis`). When Redis fails,
   the message is dead-lettered, but the `flush` of the `except` clause stages the
   buffered event and commits its offset: the offline table gets it, the online store
   does not, and nothing repeats the write. `StagedIsOnlineOrFailed` shows that this is
   the only way the two stores come apart.

`docs/BUGS.md` 45-47 says that an unknown view terminates the consumer; the handler has
since caught every `Exception` (`streaming.py` 214), and the model follows the code. The
loss of a dead letter (`docs/BUGS.md` 69) is modelled; `CommittedIsSettled` shows that
nothing else is lost.

Not runs of their own, but behaviours that the conditions in the properties mark:

* Two backfills of one date, or a backfill and an append, lose rows: the replacement drops
  what another job added after the load (`jobs.py` 1011-1019). `ChunksExact` and
  `AppendedOnce` are stated for dates that one job writes alone.
* An overtaken append and its replacement may both append (`jobs.py` 1110;
  `docs/ARCHITECTURE.md` 159 says delivery to the offline table is at least once across
  lease loss): `AppendedOnce` promises the upper bound without a takeover only. An
  overtaken backfill duplicates its rows in a table that does not exist yet, because
  it appends there.
* A batch row that reuses the `event_id` of a staged event with other content makes every
  later append of the view fail for good (`RejectAppend`).
* Rows that arrive behind the watermark by more than the lookback are never materialized:
  `OnlineKeepsUp` states the window. The online store knows no TTL and keeps rows that a
  backfill removed.
* Two sessions that deprecate A in favour of B and B in favour of A both succeed: a cycle
  that every later `_validate_replacement` refuses (`docs/ROADMAP.md` 100-101 leaves it
  open). A concurrent reactivation can leave a row active with a replacement.
  `ReplacementActive` therefore assumes one session at a time that changes lifecycles
  (`OneAdmin`); `Registry` contains the others too, for its remaining properties.
* The parent view of a replacement feature can be deprecated later (`registry.py` 563-566
  looks only when the replacement is chosen).

## 5. Proofs

### JobQueue

All theorems hold for every set of jobs, views, workers and clients, every value of the
settings and every subset of the faults. They assume only the named assumptions of
`JobQueue`: the kinds of jobs are disjoint, settings are natural numbers (budget, lease
and chunk count positive), and powers of two are natural numbers (`PowersAssumption`;
the provers know no laws of exponentiation).

The argument has two layers.

* `Typed == TypeOK /\ ExecOK /\ LeaseInv` is inductive (`TypedInit`, `TypedStep`).
  `TypeOK` alone is not: that a claim keeps `attempt_count` in its range needs the guard
  `~Spent`, that a worker's writes hit a job needs `ExecOK`, and that a failed attempt's
  backoff is a number needs `attempt_count > 0` while running, which is part of
  `LeaseInv`. `TypeCorrect` and `LeasesCorrect` follow.
* `StepShape` says that every step of the specification starts, puts back, ends, wins,
  submits or revives exactly one job, or is quiet. The thirty actions are looked at
  once, there; the invariants that follow are proved over the seven shapes. It needs
  `SpentInv` (a waiting job has an attempt left): otherwise a claim could exhaust a job
  that never ran, which is no shape.

On top of the shapes:

| Theorem | Statement | Inductive strengthening |
| --- | --- | --- |
| `TypeCorrect` | `Spec => []TypeOK` | `Typed` |
| `LeasesCorrect` | `Spec => []LeaseInv` | `Typed` |
| `ReservationCorrect` | `Spec => []ReservationInv` | with `Sound` (types and budget); `ReservationInv` itself is what excludes a second active job |
| `WatermarkCorrect` | `Spec => []WatermarkInv` | with `ReservationInv` |
| `PublishedCorrect` | `Spec => []PublishedByLastAttempt` | `ResultInv`: only a succeeded job has a result, so no token is issued past it |
| `OutcomesStand` | `Spec => OnlyRetryRevives` | the shapes alone |
| `Refinement` | `Spec => ImplementsLifecycle` | `Ready`: `Sound`, `ReservationInv`, an absent job has used no attempts |

Four promises hold only while particular faults stay away; the theorems of
`JobQueueFaultFree_proofs` say which. `StepKinds` sorts the actions once more: a step is
`Ordinary` (it issues no token, commits no checkpoint or success and deletes no object) or
one of seven special ones.

| Theorem | Condition | Inductive strengthening |
| --- | --- | --- |
| `TokensPrivate` | no `stalled_claim` | `PrivateInv`: every remembered token was issued to the job it is remembered for, so the next one is new |
| `CheckpointsKept` | no `stalled_claim` | `SeenInv`: whoever remembers the token in the row also remembers the checkpoints in the row |
| `InputsRetained` | no `stalled_retry`, no `ack_lost`, and no `sweep_abort` unless all clocks agree (`MaxDelay = 0`) | `InputInv`: a decided query without its input is past its deadline or marked by the sweep, the two things retry looks at |
| `ResultsRetained` | no `stalled_claim`, no `ack_lost` | `ResultHeldInv`: the object that the holder of a lease will publish exists, and no process remembers the token of a published one |

The conditions on `stalled_claim`, `stalled_retry` and `ack_lost` are necessary for
`TokensPrivate`, `InputsRetained` and `ResultsRetained` in turn: section 4 has the
counterexamples.

A corollary of `ReservationCorrect`: the branch of `_finalize_success` that finds the
reservation lost (`jobs.py` 711-713) cannot be taken.

### StreamIngestion

The theorems hold for every set of views, events, partitions and logs, every batch size,
every number of failures and every set of them. They assume that the identifiers and
event times are natural numbers (event times positive, so that no event compares like a
missing hash), that a content names an entity, and that logs are sequences of messages.

`Typed == TypeOK /\ PlaceInv /\ MemoryInv` is inductive. `PlaceInv` says which blocks a
place of the program can be in and that buffers are empty once a flush has come to its
commits; `MemoryInv` that partitions are committed no further than they are read and
that what is buffered is in the ledger. Over it:

| Theorem | Statement | Inductive strengthening |
| --- | --- | --- |
| `TypeCorrect` | `Spec => []TypeOK` | `Typed` |
| `StagedOnceCorrect` | `Spec => []StagedExactlyOnce` | `BatchInv`: a row names no job before it is staged. `LedgerShape` reduces the steps to four: register, stage, apply, or leave the ledger alone |
| `StoresAgree` | `Spec => []StagedIsOnlineOrFailed` | `OnlineInv`: an event is online, or its write raised, from the moment it is buffered. `UpsertKeepsNewest` and `AtLeastTransitive` say that later writes of other events do not undo it |
| `OffsetsCorrect` | `Spec => OffsetsNeverRegress` | `OffsetsInv`: no message that waits for its commit lies below the committed offset, and the message in hand is the last one read from its partition |
| `NothingIsLost` | `Spec => []CommittedIsSettled` | `SettledInv`: each partition is safe up to every message that waits for its commit, the message in hand is safe once it is registered or dead-lettered, and before a poll all that was read is safe. With `OffsetsInv` and with `RowsKept` (no step forgets a row) |

`SettledInv` is why the code is right to commit only the newest staged offset of a
partition: the messages below it need not be in the batch, yet each was registered,
dead-lettered or dropped by its policy before the next one was read.

### ViewTable

The theorems hold for every set of jobs, rows, contract, policy, TTL, lookback and length of
a date, any number of attempts and every set of scenarios. They assume the named assumptions
of `ViewTable`: the kinds of jobs are disjoint, payloads are ranges of positive instants,
the rows have the columns of a row, there are finitely many of them (`RowsAssumption`: the
tables are files), and no two appends hold the same ledger row (`BatchesAssumption`, which
`StreamIngestion` promises as `StagedExactlyOnce`).

The first inductive invariant is `Sound`:

* `TypeOK`, `OnlyAdmittedRows` and `ChunksCountedOnce` themselves;
* `Fitting`: what an attempt holds in memory fits its job, whether it still owns it or not.
  The cursor of a backfill is one of its chunks; all chunks before it are done; its summary
  counts exactly the chunks it has seen; while it writes a chunk it has not seen that one,
  and under `reject` the chunk has no refused row; an append holds staged rows; what a
  replacement will preserve is admitted;
* `Current`: the attempt that owns a backfill has seen exactly the chunks in the row of the
  job, so its next checkpoint adds exactly one. Fencing is what makes this inductive:
  nobody else writes the row;
* `Within`: the chunks in that row are chunks of the job.

`TypeCorrect`, `RowsAdmitted` and `SummariesExact` follow.

`StepKinds` then sorts the actions by what they change: a step is `Calm` (no table changes,
and an attempt at most begins, ends or moves to its start), `Reading` (a step of a
materialization between its claim and its success) or `Working` (a step in which a backfill
or an append works on a table). The rest is proved over these, in two modules. What tables hold
rests on `Base`, which adds to `Sound`:

* `Scoped`: only jobs of the scenario run, and of a job that no attempt overtakes only the
  latest attempt is live (`OnlyOne`);
* `Founded`: a table that does not exist is empty, and none is dropped;
* `Standing`: in a view that exists from the start a backfill replaces dates and never
  appends.

| Theorem | Statement | Inductive strengthening |
| --- | --- | --- |
| `OutsideRowsKept` | `Spec => []RowsOutsideKept` | `Kept`: what an attempt read before its write still has the row, so a replacement keeps it and an append does not add it again |
| `EventsAppendedOnce` | `Spec => []AppendedOnce` | `Brought`: an append that has compared identities will add the row unless the view has it; if its job is not overtaken, it adds only what the view lacks |
| `CheckpointsExact` | `Spec => []ChunksExact` | `Exact`: at the checkpoint both tables hold the chunk, before the view is written the quarantine table does, what a replacement preserves has no row of the chunk, and a lone append finds none |
| `AnswersArePointInTime` | `Spec => []PointInTimeCorrect` | types; `AnswerCorrect` holds for every set of rows and every observation (`NewestExists`: a finite set of rows has a newest one) |
| `FreshnessIsServed` | `Spec => []FreshnessServed` | `Covered`: what a materialization scanned is online, or due, or a newer row is one of these |
| `OnlineKeepsUpAlways` | `Spec => OnlineKeepsUp` | `Covered`, at the success, when nothing is due |

`Exact` speaks of two sorts of jobs. Where the view exists from the start every attempt of
a backfill, overtaken or not, replaces the date by the same rows, so which of them commits
last does not matter. Where it does not, the first write appends, and two attempts beside
each other can append twice; the promise then needs a job that is not overtaken. The
quarantine table never exists at the start, so its half of `ChunksExact` always does.
`Brought` needs `BatchesAssumption`: nobody else adds the row between the comparison and
the append.

### Registry

The theorems hold for every set of identities, definitions, manifests and any number of
sessions. They assume the shapes that `models.py` gives definitions (`ShapesAssumption`):
the kind is part of the identity, only views have dependencies and features, only services
have references.

| Theorem | Statement | Inductive strengthening |
| --- | --- | --- |
| `TypeCorrect` | `Spec => []TypeOK` | itself |
| `ReferencesResolve` | `Spec => []NoDanglingReference` | what a planned manifest would create resolves among the stored records and itself, and records only grow: a conflict is caught by the unique constraint, not by the plan |
| `RecordsImmutable` | `Spec => DefinitionsImmutable` | an identity is stored once |
| `MetadataIndependent` | `Spec => MetadataAndStatusApart` | what a request will write differs from what it has read only in the columns of its operation |
| `ReplacementsActive` | `Spec => []ReplacementActive` | `AdminInv`: while one session changes lifecycles (`OneAdmin`), what it has read of statuses and replacements is still true when it writes |
| `DeprecationsAnnounced` | `Spec => []DeprecationAnnounced` | `KnownTargets`: a lifecycle row, and a request that means to write one, is about a stored definition |

All but `ReplacementsActive` hold whoever changes lifecycles. `AdminInv` is inductive for three reasons:
patches change no status (from `WritesOwnColumns`, the invariant of `MetadataIndependent`);
stored definitions keep their kinds, so a compatible replacement stays compatible (from
the invariant of `RecordsImmutable`); and a deprecation checks both that its replacement is
active and that its target replaces nothing, so neither end of a link is deprecated later by
the only session that could.
For `DeprecationsAnnounced`, `ShapesAssumption` is what ends every path of use: it goes from
a service to features, to their views and to entities and sources, and no further, and the
targets the code collects contain all of them.

**Only model-checked.** The four liveness properties, `EveryJobDecided`,
`ArtifactsReclaimed`, `EveryMessageSettled` and `PendingIsStaged`: fairness is out of this
prover's reach. Every other invariant and action property of the passing runs is stated by
a theorem above.

## 6. What is not modelled

No state and no decision: rendering, metrics, the HTTP layer and the SDK, the demo and
benchmark scripts. Migrations run once, outside the services. DuckDB, Arrow, Delta, Redis,
Kafka and Postgres are modelled by what the code relies on.

Behaviour that the modules leave out:

* the online read path (`online.py` 71 ff.): it only reads; that the key of an event is made
  of all its entity values and that of a read of the join keys it is given (`online.py` 32)
  is a matter of two definitions agreeing, which a manifest, not a step, decides;
* two stream consumers: the recovery at startup takes the `PENDING` rows of a consumer that is
  still alive (`streaming.py` 340). The documentation supports one consumer
  (`docs/ARCHITECTURE.md` 163), so rebalancing is left out too;
* topics are listed once, at startup (`streaming.py` 83): the registry does not change while a
  consumer of `StreamIngestion` runs;
* orphaned staging tables (`streaming.py` 333): no later step reads them;
* the effect on the ledger of cancelling an `OFFLINE_APPEND` job (`jobs.py` 714): its rows
  stay `STAGED` for ever, and nothing says what should become of them. `ViewTable` has the
  cancellation, `StreamIngestion` the ledger;
* the validation of single documents (names, types, patterns), ages and rendering in
  point-in-time joins, and what only reads: listings, diffs, streaming a result to a client.

What the modules reach and no property forbids, because neither the code nor its
documentation promises otherwise, is in `PROJECT.json` under the hazards without a property.
