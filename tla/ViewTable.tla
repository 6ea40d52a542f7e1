----------------------------- MODULE ViewTable -----------------------------
(***************************************************************************)
(* The data of one feature view: its Delta table, the jobs that write it   *)
(* (backfills, appends of staged stream events), the jobs that copy it to  *)
(* the online store (materializations) and the two stores' answers (the    *)
(* bodies of _backfill, _offline_append, _materialize in jobs.py).         *)
(*                                                                         *)
(* Leases are those of JobQueue, reduced to what the bodies see of them:   *)
(* the attempts of a job are numbered, the last one claimed owns the job   *)
(* while it runs, and an attempt that lost it goes on until its next       *)
(* ownership check.  Only ownership checks and fenced updates of the jobs  *)
(* table tell a lost attempt so; writes to the stores do not.              *)
(***************************************************************************)
EXTENDS OfflineStore, Quality, PointInTime, OnlineStore

CONSTANTS
    Entities,        \* the entities of the view
    Backfills,       \* BACKFILL jobs
    Appends,         \* OFFLINE_APPEND jobs
    Incrementals,    \* MATERIALIZE jobs with mode "incremental"
    Explicits,       \* MATERIALIZE jobs with mode "explicit"
    Start,           \* payload["start"] of backfills and explicit materializations
    End,             \* payload["end"] of backfills and materializations
    Staged,          \* the rows of each append's staging table
    Source,          \* what the view's SQL makes of the batch source
    Seed,            \* rows the table may hold at the start
    Contract,        \* the quality contract of the view's feature
    TTL,             \* ttl_seconds, 0 for none
    Lookback,        \* lookback_seconds of incremental materializations
    MaxAttempts,     \* job_max_attempts
    Scenarios        \* bound: which jobs run, and under which faults

Materializations == Incrementals \cup Explicits
Jobs     == Backfills \cup Appends \cup Materializations
Attempts == Jobs \X (1..MaxAttempts)

(***************************************************************************)
(* A scenario: the jobs that are submitted, whether the table exists, the  *)
(* view's quality policy, the jobs whose lease may expire under a live     *)
(* attempt and the jobs that may be cancelled.  Any attempt may crash.     *)
(***************************************************************************)
ScenarioType ==
    [jobs : SUBSET Jobs, exists : BOOLEAN, policy : Policies,
     overtaken : SUBSET Jobs, cancelled : SUBSET Jobs]

RowType == [entity : Entities, event_timestamp : Nat \ {0}, event_id : Nat,
            value : Int \cup {Null}]

\* The end of the chunk at c: the next midnight, or the end of the job.
ChunkEnd(b, c) ==
    LET midnight == (Date(c) + 1) * DayLength
    IN  IF End[b] < midnight THEN End[b] ELSE midnight

\* The cursors of a backfill: its start, then every midnight before its end.
Chunks(b) ==
    {c \in Start[b]..(End[b] - 1) : c = Start[b] \/ Date(c) * DayLength = c}

Cursors == UNION {Chunks(b) : b \in Backfills}

ASSUME JobsAssumption ==
    /\ Backfills \cap Appends = {} /\ Backfills \cap Materializations = {}
    /\ Appends \cap Materializations = {} /\ Incrementals \cap Explicits = {}
ASSUME PayloadAssumption ==
    /\ Start \in [Backfills \cup Explicits -> Nat \ {0}]
    /\ End \in [Backfills \cup Materializations -> Nat \ {0}]
    /\ \A j \in Backfills \cup Explicits : Start[j] < End[j]
    /\ Staged \in [Appends -> SUBSET Rows]
    /\ Source \subseteq Rows /\ Seed \subseteq Rows
ASSUME ViewAssumption ==
    /\ Rows \subseteq RowType /\ DayLength \in Nat \ {0}
    /\ TTL \in Nat /\ Lookback \in Nat /\ MaxAttempts \in Nat \ {0}
ASSUME ScenariosAssumption == Scenarios \subseteq ScenarioType
\* The table, the batch source and the staging tables are finite files.
ASSUME RowsAssumption == IsFiniteSet(Rows)
\* A ledger row is staged in one batch (StagedExactlyOnce in StreamIngestion).
ASSUME BatchesAssumption ==
    \A i, j \in Appends : i # j => Staged[i] \cap Staged[j] = {}

VARIABLES
    scenario,     \* fixed at the start
    table,        \* the view's Delta table
    quarantine,   \* the quarantine table of each backfill
    online,       \* the versions of the online store, by entity
    published,    \* watermark and source_freshness_at of the view
    status,       \* status of each job
    attempt,      \* attempt_count of each job
    checkpoints,  \* the chunks in the checkpoints of each backfill
    summary,      \* the quality summary of the last checkpoint
    result,       \* the quality summary in result_metadata
    exec          \* what each attempt holds in memory

vars == <<scenario, table, quarantine, online, published, status, attempt,
          checkpoints, summary, result, exec>>

Unsettled == {"pending", "retrying", "running"}
Statuses  == Unsettled \cup {"absent", "succeeded", "failed", "exhausted", "cancelled"}

PCs == {"idle", "start", "deciding", "appending", "adding", "replacing", "checkpoint",
        "checking", "upserting", "finish"}

(***************************************************************************)
(* A quality summary adds up the counts of chunks, and a chunk's counts    *)
(* are a function of its rows: a summary is kept as how often each chunk   *)
(* has been added.                                                         *)
(***************************************************************************)
Summaries == [Cursors -> Nat]
Nothing   == [c \in Cursors |-> 0]
Counting(counts, c) == [counts EXCEPT ![c] = @ + 1]

Execs == [pc : PCs, cursor : Nat, seen : SUBSET Cursors, counted : Summaries,
          rows : SUBSET Rows, due : SUBSET Rows, keep : Bags,
          into : {"view", "quarantine"}, creates : BOOLEAN]

Idle == [pc |-> "idle", cursor |-> 0, seen |-> {}, counted |-> Nothing, rows |-> {},
         due |-> {}, keep |-> NoRows, into |-> "view", creates |-> FALSE]

Init ==
    /\ scenario \in Scenarios
    /\ table = IF scenario.exists THEN Appended(NoTable, Seed) ELSE NoTable
    /\ quarantine = [b \in Backfills |-> NoTable]
    /\ online = [e \in Entities |-> NoHash]
    /\ published = [watermark |-> 0, source_freshness_at |-> 0]
    /\ status = [j \in Jobs |-> "absent"]
    /\ attempt = [j \in Jobs |-> 0]
    /\ checkpoints = [b \in Backfills |-> {}]
    /\ summary = [b \in Backfills |-> Nothing]
    /\ result = [b \in Backfills |-> Nothing]
    /\ exec = [p \in Attempts |-> Idle]

stores == <<table, quarantine, online>>
progress == <<checkpoints, summary, result>>

-----------------------------------------------------------------------------
(* Submitting, leasing and ending jobs *)

\* The version of an entity that a row is.
Version(r) == [event_timestamp |-> r.event_timestamp, event_id |-> r.event_id]

\* The stream consumer writes an event that it will stage to the online store.
Ingest(j, r) ==
    /\ j \in Appends \cap scenario.jobs
    /\ status[j] = "absent"
    /\ r \in Staged[j]
    /\ online' = [online EXCEPT ![r.entity] = Upsert(@, Version(r))]
    /\ UNCHANGED <<scenario, table, quarantine, published, status, attempt, progress, exec>>

\* A job is created: an append when its events are online, an incremental
\* materialization when no other holds the view and its cutoff is not passed.
Submit(j) ==
    /\ j \in scenario.jobs
    /\ status[j] = "absent"
    /\ j \in Appends => \A r \in Staged[j] : AtLeast(online[r.entity], r)
    /\ j \in Incrementals =>
         /\ \A i \in Incrementals : status[i] \notin Unsettled
         /\ End[j] >= published.watermark
    /\ status' = [status EXCEPT ![j] = "pending"]
    /\ UNCHANGED <<scenario, stores, published, attempt, progress, exec>>

\* The attempt that was claimed last, while the job runs.
Owns(p) == status[p[1]] = "running" /\ attempt[p[1]] = p[2]

\* claim_next may lease the job: its last attempt is gone, or slower than its lease.
Claimable(j) ==
    \/ status[j] \in {"pending", "retrying"}
    \/ /\ status[j] = "running"
       /\ exec[<<j, attempt[j]>>].pc = "idle" \/ j \in scenario.overtaken

\* Mutant: the quality summary starts again at every attempt.
StartedFresh(j) ==
    IF j \in Backfills
      THEN [Idle EXCEPT !.pc = "start", !.cursor = Start[j], !.seen = checkpoints[j]]
      ELSE [Idle EXCEPT !.pc = "start"]

\* Mutant: a backfill starts at the midnight before its start.
StartedAtMidnight(j) ==
    IF j \in Backfills
      THEN [Idle EXCEPT !.pc = "start", !.cursor = Date(Start[j]) * DayLength,
                        !.seen = checkpoints[j], !.counted = summary[j]]
      ELSE [Idle EXCEPT !.pc = "start"]

\* What an attempt knows when it starts: the checkpoints in the row of its job.
Started(j) ==
    IF j \in Backfills
      THEN [Idle EXCEPT !.pc = "start", !.cursor = Start[j],
                        !.seen = checkpoints[j], !.counted = summary[j]]
      ELSE [Idle EXCEPT !.pc = "start"]

Claim(j) ==
    /\ Claimable(j)
    /\ attempt[j] < MaxAttempts
    /\ status' = [status EXCEPT ![j] = "running"]
    /\ attempt' = [attempt EXCEPT ![j] = @ + 1]
    /\ exec' = [exec EXCEPT ![<<j, attempt[j] + 1>>] = Started(j)]
    /\ UNCHANGED <<scenario, stores, published, progress>>

\* claim_next finds the attempts used up.
Exhaust(j) ==
    /\ Claimable(j)
    /\ attempt[j] = MaxAttempts
    /\ status' = [status EXCEPT ![j] = "exhausted"]
    /\ UNCHANGED <<scenario, stores, published, attempt, progress, exec>>

Cancel(j) ==
    /\ j \in scenario.cancelled
    /\ status[j] \in Unsettled
    /\ status' = [status EXCEPT ![j] = "cancelled"]
    /\ UNCHANGED <<scenario, stores, published, attempt, progress, exec>>

\* The worker process dies.
Crash(p) ==
    /\ exec[p].pc # "idle"
    /\ exec' = [exec EXCEPT ![p] = Idle]
    /\ UNCHANGED <<scenario, stores, published, status, attempt, progress>>

\* An ownership check or a fenced update finds the lease lost.
Lost(p) ==
    /\ exec[p].pc \in {"start", "checkpoint", "checking", "finish"}
    /\ ~Owns(p)
    /\ exec' = [exec EXCEPT ![p] = Idle]
    /\ UNCHANGED <<scenario, stores, published, status, attempt, progress>>

\* _finalize_failure, fenced: the attempt of a job ends with an exception.
\* It also writes result_metadata, the summary of a quality failure.
Failed(p, terminal, counts) ==
    LET j == p[1] IN
    /\ exec' = [exec EXCEPT ![p] = Idle]
    /\ IF Owns(p)
         THEN /\ status' = [status EXCEPT ![j] =
                    IF terminal THEN "failed"
                    ELSE IF p[2] = MaxAttempts THEN "exhausted" ELSE "retrying"]
              /\ result' = IF j \in Backfills THEN [result EXCEPT ![j] = counts] ELSE result
         ELSE UNCHANGED <<status, result>>
    /\ UNCHANGED <<scenario, stores, published, attempt, checkpoints, summary>>

-----------------------------------------------------------------------------
(* Writing a Delta table: the steps that backfills and appends share *)

In(r, from, to) == from <= r.event_timestamp /\ r.event_timestamp < to

\* load_range with the TTL lookback, the view's SQL, and the mask that keeps
\* the chunk's own rows.
Transformed(b, c) == {r \in Source : In(r, c - TTL, ChunkEnd(b, c))}

Output(b, c) == {r \in Transformed(b, c) : In(r, c, ChunkEnd(b, c))}

\* The rows of a chunk that break the contract.
Refused(b, c) == Invalid(Contract, Output(b, c), ChunkEnd(b, c))

\* Mutant: quarantined rows are written to the view too.
StoredAll(policy, b, c) == Output(b, c)

\* The rows of a chunk that go to the view.
Stored(policy, b, c) ==
    IF policy = "quarantine" THEN Output(b, c) \ Refused(b, c) ELSE Output(b, c)

Target(p) == IF exec[p].into = "view" THEN table ELSE quarantine[p[1]]

\* The rows the attempt is about to write.
Writing(p) ==
    LET j == p[1]
        c == exec[p].cursor
    IN  IF j \in Appends THEN exec[p].rows
        ELSE IF exec[p].into = "view" THEN Stored(scenario.policy, j, c)
        ELSE Refused(j, c)

\* Mutant: the replacement of a date drops its rows outside the chunk.
PreservedNone(p) == NoRows

\* Mutant: the rows that the chunk is to replace are kept as well.
PreservedWhole(p) ==
    IF exec[p].into = "quarantine" THEN NoRows
    ELSE [r \in Rows |->
            IF Date(r.event_timestamp) = Date(exec[p].cursor) THEN table.rows[r] ELSE 0]

\* The rows of the chunk's date that the chunk does not replace.
Preserved(p) ==
    LET c == exec[p].cursor IN
    IF exec[p].into = "quarantine" THEN NoRows
    ELSE [r \in Rows |->
            IF /\ Date(r.event_timestamp) = Date(c)
               /\ ~In(r, c, ChunkEnd(p[1], c))
              THEN table.rows[r] ELSE 0]

\* The step after a write, or after a chunk with nothing to write.
Continue(p, x) ==
    [x EXCEPT !.pc = IF p[1] \in Appends THEN "finish"
                     ELSE IF x.into = "quarantine" THEN "deciding" ELSE "checkpoint",
              !.into = "view", !.keep = NoRows, !.creates = FALSE]

\* A backfill looks whether its target exists, and loads what it will keep.
Decide(p) ==
    /\ exec[p].pc = "deciding"
    /\ exec' = [exec EXCEPT ![p] =
          IF Target(p).exists THEN [@ EXCEPT !.pc = "replacing", !.keep = Preserved(p)]
          ELSE IF Writing(p) = {} THEN Continue(p, @)
          ELSE [@ EXCEPT !.pc = "appending"]]
    /\ UNCHANGED <<scenario, stores, published, status, attempt, progress>>

\* The commit of a Delta write.
Commits(p, new) ==
    /\ IF exec[p].into = "view"
         THEN table' = new /\ UNCHANGED quarantine
         ELSE quarantine' = [quarantine EXCEPT ![p[1]] = new] /\ UNCHANGED table
    /\ exec' = [exec EXCEPT ![p] = Continue(p, @)]
    /\ UNCHANGED <<scenario, online, published, status, attempt, progress>>

\* overwrite_partition with what was loaded before and the new rows.
Replace(p) ==
    /\ exec[p].pc = "replacing"
    /\ Commits(p, Overwritten(Target(p), Date(exec[p].cursor),
                              Plus(exec[p].keep, Writing(p))))

\* append chooses its mode.
Probe(p) ==
    /\ exec[p].pc = "appending"
    /\ exec' = [exec EXCEPT ![p] = [@ EXCEPT !.pc = "adding", !.creates = ~Target(p).exists]]
    /\ UNCHANGED <<scenario, stores, published, status, attempt, progress>>

Add(p) ==
    /\ exec[p].pc = "adding"
    /\ exec[p].creates => ~Target(p).exists
    /\ Commits(p, Appended(Target(p), Writing(p)))

\* Mode "error", and another attempt created the table meanwhile.
AddRefused(p) ==
    /\ exec[p].pc = "adding"
    /\ exec[p].creates /\ Target(p).exists
    /\ Failed(p, FALSE, Nothing)

-----------------------------------------------------------------------------
(* BACKFILL *)

\* A loop head that finds a chunk to do.
AtChunk(p) ==
    /\ p[1] \in Backfills
    /\ exec[p].pc = "start"
    /\ exec[p].cursor < End[p[1]]
    /\ Owns(p)

\* The chunk is in the checkpoints of the job.
SkipChunk(p) ==
    /\ AtChunk(p)
    /\ exec[p].cursor \in exec[p].seen
    /\ exec' = [exec EXCEPT ![p] = [@ EXCEPT !.cursor = ChunkEnd(p[1], exec[p].cursor)]]
    /\ UNCHANGED <<scenario, stores, published, status, attempt, progress>>

\* The chunk is read, transformed and validated.  Nothing it reads changes
\* meanwhile, so that the ownership checks before and after are one.
RunChunk(p) ==
    LET refused == Refused(p[1], exec[p].cursor) IN
    /\ AtChunk(p)
    /\ exec[p].cursor \notin exec[p].seen
    /\ scenario.policy = "reject" => refused = {}
    /\ exec' = [exec EXCEPT ![p] =
                  [@ EXCEPT !.pc = "deciding",
                            !.into = IF scenario.policy = "quarantine" /\ refused # {}
                                       THEN "quarantine" ELSE "view"]]
    /\ UNCHANGED <<scenario, stores, published, status, attempt, progress>>

\* DataQualityError: the job fails, with a summary that includes the chunk.
RejectChunk(p) ==
    /\ AtChunk(p)
    /\ exec[p].cursor \notin exec[p].seen
    /\ scenario.policy = "reject" /\ Refused(p[1], exec[p].cursor) # {}
    /\ Failed(p, TRUE, Counting(exec[p].counted, exec[p].cursor))

\* The summary in the checkpoint of a chunk.
Checkpointed(p) == Counting(exec[p].counted, exec[p].cursor)

\* _commit_checkpoints, fenced, with the list the attempt holds in memory.
Checkpoint(p) ==
    LET j == p[1] IN
    /\ exec[p].pc = "checkpoint"
    /\ Owns(p)
    /\ checkpoints' = [checkpoints EXCEPT ![j] = exec[p].seen \cup {exec[p].cursor}]
    /\ summary' = [summary EXCEPT ![j] = Checkpointed(p)]
    /\ exec' = [exec EXCEPT ![p] =
                  [@ EXCEPT !.pc = "start", !.seen = checkpoints'[j],
                            !.counted = summary'[j],
                            !.cursor = ChunkEnd(j, exec[p].cursor)]]
    /\ UNCHANGED <<scenario, stores, published, status, attempt, result>>

-----------------------------------------------------------------------------
(* OFFLINE_APPEND *)

\* Two contents under one event_id, in the staging table, the view or both.
Conflicting(rows) == \E r, x \in rows : r.event_id = x.event_id /\ r # x

\* Mutant: rows the table holds already are appended again.
UnseenAll(staged, present) == staged

\* _unseen_rows: the staged rows that the view does not hold.
Unseen(staged, present) == staged \ present

\* The staging table and the view are compared.  Ownership, once lost, does
\* not come back: the check before and the one after the comparison are one.
Compare(p) ==
    LET j == p[1]
        present == Load(table)
        unseen  == Unseen(Staged[j], present)
    IN  /\ j \in Appends
        /\ exec[p].pc = "start" /\ Owns(p)
        /\ ~Conflicting(present \cup Staged[j])
        /\ exec' = [exec EXCEPT ![p] =
                      [@ EXCEPT !.rows = unseen,
                                !.pc = IF unseen = {} THEN "finish" ELSE "appending"]]
        /\ UNCHANGED <<scenario, stores, published, status, attempt, progress>>

\* ValueError: the same identity with another content.
RejectAppend(p) ==
    /\ p[1] \in Appends
    /\ exec[p].pc = "start" /\ Owns(p)
    /\ Conflicting(Load(table) \cup Staged[p[1]])
    /\ Failed(p, TRUE, Nothing)

-----------------------------------------------------------------------------
(* MATERIALIZE *)

\* Everything at first, then from the watermark less the lookback.
ScanStart(j) ==
    IF j \in Explicits THEN Start[j]
    ELSE IF published.watermark = 0 THEN 0
    ELSE published.watermark - Lookback

\* Mutant: the oldest row of an entity is offered.
LatestReversed(rows) ==
    {r \in rows : \A x \in rows : x.entity = r.entity => ~Precedes(r, x)}

\* The latest row of every entity of the scan.  Of two rows that tie the query
\* returns one; they are the same version, and the online store takes one.
Latest(rows) ==
    {r \in rows : \A x \in rows : x.entity = r.entity => ~Precedes(x, r)}

\* The view is scanned.
Scan(p) ==
    LET j    == p[1]
        rows == LoadRange(table, ScanStart(j), End[j])
    IN  /\ j \in Materializations
        /\ exec[p].pc = "start" /\ Owns(p)
        /\ table.exists
        /\ exec' = [exec EXCEPT ![p] =
                      [@ EXCEPT !.rows = rows, !.due = Latest(rows),
                                !.pc = IF rows = {} THEN "finish" ELSE "checking"]]
        /\ UNCHANGED <<scenario, stores, published, status, attempt, progress>>

\* TableNotFoundError, which is retried.
ScanFails(p) ==
    /\ p[1] \in Materializations
    /\ exec[p].pc = "start" /\ Owns(p)
    /\ ~table.exists
    /\ Failed(p, FALSE, Nothing)

\* The ownership check before each upsert.
CheckUpsert(p) ==
    /\ exec[p].pc = "checking" /\ Owns(p)
    /\ exec' = [exec EXCEPT ![p] = [@ EXCEPT !.pc = "upserting"]]
    /\ UNCHANGED <<scenario, stores, published, status, attempt, progress>>

UpsertRow(p, r) ==
    /\ exec[p].pc = "upserting"
    /\ r \in exec[p].due
    /\ online' = [online EXCEPT ![r.entity] = Upsert(@, Version(r))]
    /\ exec' = [exec EXCEPT ![p] =
                  [@ EXCEPT !.due = exec[p].due \ {r},
                            !.pc = IF exec[p].due = {r} THEN "finish" ELSE "checking"]]
    /\ UNCHANGED <<scenario, table, quarantine, published, status, attempt, progress>>

-----------------------------------------------------------------------------
(* Success *)

\* Mutant: the cutoff counts as the time of an event.
EventTimesAndCutoff(p) ==
    {End[p[1]], published.source_freshness_at} \cup {r.event_timestamp : r \in exec[p].rows}

\* The newest events of this scan and of those before it.
EventTimes(p) ==
    {published.source_freshness_at} \cup {r.event_timestamp : r \in exec[p].rows}

\* The job's work is done.
Done(p) ==
    \/ exec[p].pc = "finish"
    \/ p[1] \in Backfills /\ exec[p].pc = "start" /\ exec[p].cursor >= End[p[1]]

\* The last checkpoint and _finalize_success, fenced alike: the summary is
\* published, and an incremental job's cutoff becomes the watermark.
Succeed(p) ==
    LET j == p[1] IN
    /\ Done(p) /\ Owns(p)
    /\ status' = [status EXCEPT ![j] = "succeeded"]
    /\ exec' = [exec EXCEPT ![p] = Idle]
    /\ result' = IF j \in Backfills THEN [result EXCEPT ![j] = exec[p].counted] ELSE result
    /\ IF j \in Incrementals
         THEN \E newest \in EventTimes(p) :
                /\ \A t \in EventTimes(p) : t <= newest
                /\ published' = [watermark |-> End[j], source_freshness_at |-> newest]
         ELSE published' = published
    /\ UNCHANGED <<scenario, stores, attempt, checkpoints, summary>>

JobStep(j) ==
    \/ \E r \in Rows : Ingest(j, r)
    \/ Submit(j) \/ Claim(j) \/ Exhaust(j) \/ Cancel(j)

WriteStep(p) == Decide(p) \/ Replace(p) \/ Probe(p) \/ Add(p) \/ AddRefused(p)

BodyStep(p) ==
    \/ SkipChunk(p) \/ RunChunk(p) \/ RejectChunk(p) \/ Checkpoint(p)
    \/ Compare(p) \/ RejectAppend(p)
    \/ Scan(p) \/ ScanFails(p) \/ CheckUpsert(p)
    \/ \E r \in exec[p].due : UpsertRow(p, r)

Next ==
    \/ \E j \in Jobs : JobStep(j)
    \/ \E p \in Attempts :
         Crash(p) \/ Lost(p) \/ WriteStep(p) \/ BodyStep(p) \/ Succeed(p)

Spec == Init /\ [][Next]_vars

-----------------------------------------------------------------------------
(* Properties *)

TypeOK ==
    /\ scenario \in Scenarios
    /\ table \in Tables
    /\ quarantine \in [Backfills -> Tables]
    /\ online \in [Entities -> Versions \cup {NoHash}]
    /\ published \in [watermark : Nat, source_freshness_at : Nat]
    /\ status \in [Jobs -> Statuses]
    /\ attempt \in [Jobs -> 0..MaxAttempts]
    /\ checkpoints \in [Backfills -> SUBSET Cursors]
    /\ summary \in [Backfills -> Summaries]
    /\ result \in [Backfills -> Summaries]
    /\ exec \in [Attempts -> Execs]

\* A row has a right to be in the view: it was there at the start, it was
\* staged, or a backfill's quality policy lets it through.
Admitted(policy, r) ==
    \/ r \in Seed
    \/ \E j \in Appends : r \in Staged[j]
    \/ \E b \in Backfills : \E c \in Chunks(b) :
         r \in Output(b, c) /\ (r \in Refused(b, c) => policy = "report")

\* Every row of the view is admitted.  In particular a batch row that breaks the
\* contract is stored only under the report policy, whatever attempts crash,
\* overtake each other or write from stale reads.
OnlyAdmittedRows == \A r \in Load(table) : Admitted(scenario.policy, r)

\* How often each chunk of S belongs in a summary.
Once(S) == [c \in Cursors |-> IF c \in S THEN 1 ELSE 0]

\* The quality summary of a backfill counts each finished chunk exactly once,
\* through every crash and replay (_quality_summary restores it from the last
\* checkpoint); a success reports all chunks, a quality failure those finished
\* and the chunk it failed at.
ChunksCountedOnce ==
    \A b \in Backfills :
        /\ summary[b] = Once(checkpoints[b])
        /\ status[b] = "succeeded" => result[b] = Once(Chunks(b))
        /\ status[b] = "failed" =>
             \E c \in Chunks(b) \ checkpoints[b] : result[b] = Once(checkpoints[b] \cup {c})

\* The dates that a job of the scenario writes.
DatesOf(j) ==
    IF j \in Appends THEN {Date(r.event_timestamp) : r \in Staged[j]}
    ELSE IF j \in Backfills THEN {Date(c) : c \in Chunks(j)} ELSE {}

\* No other job writes the date.
WritesAlone(j, date) == \A i \in scenario.jobs \ {j} : date \notin DatesOf(i)

\* "Replayed backfills replace affected partitions rather than duplicating
\* their rows": a chunk in the checkpoints is in the view row for row, once,
\* also after crashes between its writes and, when the table existed, beside an
\* attempt that lost its lease; and its refused rows are in quarantine.
ChunksExact ==
    \A b \in Backfills : \A c \in checkpoints[b] :
        WritesAlone(b, Date(c)) =>
            \A r \in Rows : In(r, c, ChunkEnd(b, c)) =>
                /\ scenario.exists \/ b \notin scenario.overtaken =>
                     (table.rows[r] = IF r \in Stored(scenario.policy, b, c) THEN 1 ELSE 0)
                /\ scenario.policy = "quarantine" /\ b \notin scenario.overtaken =>
                     (quarantine[b].rows[r] = IF r \in Refused(b, c) THEN 1 ELSE 0)

\* A backfill that starts within a date leaves the earlier rows of that date.
RowsOutsideKept ==
    scenario.exists =>
        \A r \in Seed :
            \/ table.rows[r] = 1
            \/ \E b \in Backfills \cap scenario.jobs : In(r, Start[b], End[b])

\* A staged event whose job succeeded is in the view, and in it only once as
\* long as no attempt of the job is overtaken: a crash between the write and
\* the success is repaired by comparing identities.  Dates that a backfill
\* replaces are the backfill's.
AppendedOnce ==
    \A j \in Appends : \A r \in Staged[j] :
        (\A b \in Backfills \cap scenario.jobs : Date(r.event_timestamp) \notin DatesOf(b)) =>
            /\ status[j] = "succeeded" => table.rows[r] >= 1
            /\ j \notin scenario.overtaken => table.rows[r] <= 1

\* The freshness that is published is that of a row online reads can return.
FreshnessServed ==
    published.source_freshness_at # 0 =>
        \E e \in Entities : online[e].event_timestamp >= published.source_freshness_at

\* The historical answer, by the definition of the documentation: present with
\* a row not after the observation, not older than the TTL and with no later
\* one between; missing without any row up to the observation; else expired.
Answers(rows, e, t, answer) ==
    LET past  == {r \in rows : r.entity = e /\ r.event_timestamp <= t}
        fresh == {r \in past : TTL = 0 \/ t - r.event_timestamp <= TTL}
    IN  /\ answer.status \in {"present", "missing", "expired"}
        /\ answer.status = "present" =>
             answer.row \in fresh /\ \A r \in fresh : AtLeast(answer.row, r)
        /\ answer.status = "missing" => past = {}
        /\ answer.status = "expired" => past # {} /\ fresh = {}

\* Historical queries give that answer on every table the jobs can leave.
PointInTimeCorrect ==
    \A e \in Entities, t \in {r.event_timestamp : r \in Rows} :
        Answers(Load(table), e, t, PointInTime(Load(table), e, t, TTL))

\* What a scan and a successful materialization promise online reads.
KeepsUp(p) ==
    LET j == p[1] IN
    /\ Scan(p) => \A r \in Load(table) : r.event_timestamp < End[j] =>
         \/ r \in exec'[p].rows
         \/ AtLeast(online[r.entity], r)
         \/ r.event_timestamp <
              IF j \in Explicits THEN Start[j] ELSE published.watermark - Lookback
    /\ j \in Materializations /\ Succeed(p) =>
         \A e \in Entities :
            LET answer == PointInTime(Load(table), e, End[j] - 1, TTL) IN
            answer.status = "present" =>
                AtLeast(online[e], answer.row) \/ answer.row \notin exec[p].rows

\* Online reads keep up with historical ones.  A scan passes over a row below
\* the cutoff only if the row lies before the window, [watermark - lookback or
\* start, cutoff), or is online already; and when the materialization succeeds,
\* the row that a historical query just below the cutoff returns is online, or
\* a later one, unless the scan did not have it.
OnlineKeepsUp == [][\A p \in Attempts : KeepsUp(p)]_vars

=============================================================================
