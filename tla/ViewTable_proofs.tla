-------------------------- MODULE ViewTable_proofs --------------------------
(***************************************************************************)
(* Theorems about ViewTable, for every set of jobs, rows and scenarios.    *)
(*                                                                         *)
(* One inductive invariant, Sound, carries all of them.  Its core is Fits: *)
(* what an attempt may hold in memory at each step of its job's body.  It  *)
(* says of an attempt, whether it still owns its job or not, that what it  *)
(* is about to write is admitted, and that its chunks and its quality      *)
(* summary agree.  Current ties the owner's memory to the row of its job.  *)
(***************************************************************************)
EXTENDS ViewTable, TLAPS

-----------------------------------------------------------------------------
(* The chunks of a backfill *)

\* Dates divide time into intervals of DayLength.
LEMMA Division ==
    ASSUME NEW c \in Nat
    PROVE  /\ Date(c) \in Nat
           /\ Date(c) * DayLength <= c
           /\ c < (Date(c) + 1) * DayLength
BY ViewAssumption, SMTT(20) DEF Date

\* A midnight is the start of its own date.
LEMMA Midnights ==
    ASSUME NEW d \in Nat
    PROVE  d * DayLength \in Nat /\ Date(d * DayLength) = d
BY ViewAssumption, SMTT(20) DEF Date

\* A later date starts no earlier than the next midnight.
LEMMA LaterDates ==
    ASSUME NEW d \in Nat, NEW f \in Nat, d < f
    PROVE  (d + 1) * DayLength <= f * DayLength
BY ViewAssumption, SMTT(20)

\* The payload of a backfill is a range.
LEMMA PayloadRange ==
    ASSUME NEW b \in Backfills
    PROVE  Start[b] \in Nat /\ End[b] \in Nat /\ Start[b] < End[b]
BY PayloadAssumption

\* Cursors are instants of the range.
LEMMA ChunkType ==
    ASSUME NEW b \in Backfills, NEW c \in Chunks(b)
    PROVE  c \in Nat /\ c \in Cursors /\ Start[b] <= c /\ c < End[b]
BY PayloadRange DEF Chunks, Cursors

\* A backfill starts with a chunk.
LEMMA FirstChunk ==
    ASSUME NEW b \in Backfills
    PROVE  Start[b] \in Chunks(b) /\ \A c \in Chunks(b) : Start[b] <= c
BY PayloadRange DEF Chunks

\* The end of a chunk is the next cursor, or the end of the job.
LEMMA NextChunk ==
    ASSUME NEW b \in Backfills, NEW c \in Chunks(b)
    PROVE  /\ ChunkEnd(b, c) \in Chunks(b) \cup {End[b]}
           /\ ChunkEnd(b, c) \in Nat
           /\ \A d \in Chunks(b) : d < ChunkEnd(b, c) => d <= c
<1> DEFINE midnight == (Date(c) + 1) * DayLength
<1>1. c \in Nat /\ Start[b] <= c /\ c < End[b] /\ Start[b] \in Nat /\ End[b] \in Nat
  BY ChunkType, PayloadRange
<1>2. Date(c) + 1 \in Nat /\ c < midnight
  BY <1>1, Division
<1>3. midnight \in Nat /\ Date(midnight) * DayLength = midnight
  BY <1>2, Midnights
<1> HIDE DEF midnight
<1>4. ChunkEnd(b, c) = IF End[b] < midnight THEN End[b] ELSE midnight
  BY DEF ChunkEnd, midnight
<1>5. midnight < End[b] => midnight \in Chunks(b)
  BY <1>1, <1>2, <1>3 DEF Chunks
<1>6. ASSUME NEW d \in Chunks(b), d < ChunkEnd(b, c), c < d PROVE FALSE
  <2>1. d \in Nat /\ d # Start[b] /\ d < midnight
    BY <1>1, <1>3, <1>4, <1>6, ChunkType
  <2>2. Date(d) * DayLength = d
    BY <2>1 DEF Chunks
  <2>3. Date(d) \in Nat /\ Date(c) \in Nat
    BY <1>1, <2>1, Division
  <2>4. CASE Date(c) < Date(d)
    <3>1. midnight <= Date(d) * DayLength
      BY <2>3, <2>4, LaterDates DEF midnight
    <3> QED BY <3>1, <2>1, <2>2, <1>3
  <2>5. CASE Date(d) < Date(c)
    <3>1. (Date(d) + 1) * DayLength <= Date(c) * DayLength
      BY <2>3, <2>5, LaterDates
    <3>2. d < (Date(d) + 1) * DayLength /\ Date(c) * DayLength <= c
      BY <1>1, <2>1, Division
    <3>3. (Date(d) + 1) * DayLength \in Nat /\ Date(c) * DayLength \in Nat
      BY <2>3, Midnights
    <3> QED BY <3>1, <3>2, <3>3, <1>6, <1>1, <2>1
  <2>6. CASE Date(d) = Date(c)
    <3>1. Date(c) * DayLength <= c /\ Date(c) * DayLength \in Nat
      BY <1>1, <2>3, Division, Midnights
    <3> QED BY <3>1, <2>2, <2>6, <1>6, <1>1, <2>1
  <2> QED BY <2>3, <2>4, <2>5, <2>6
<1>7. ASSUME NEW d \in Chunks(b), d < ChunkEnd(b, c) PROVE d <= c
  <2>1. d \in Nat
    BY ChunkType
  <2> QED BY <1>6, <1>7, <2>1, <1>1
<1>8. ChunkEnd(b, c) \in Nat
  BY <1>1, <1>3, <1>4
<1>9. ChunkEnd(b, c) \in Chunks(b) \cup {End[b]}
  BY <1>1, <1>3, <1>4, <1>5
<1> QED BY <1>7, <1>8, <1>9

-----------------------------------------------------------------------------
(* Summaries *)

LEMMA OnceType ==
    ASSUME NEW S PROVE Once(S) \in Summaries
BY DEF Once, Summaries

LEMMA NothingOnce ==
    Nothing \in Summaries /\ Nothing = Once({})
BY DEF Nothing, Once, Summaries

\* Adding a chunk that a summary does not count yet counts it once.
LEMMA CountingOnce ==
    ASSUME NEW S \in SUBSET Cursors, NEW c \in Cursors, c \notin S
    PROVE  Counting(Once(S), c) = Once(S \cup {c})
<1> DEFINE counts == Counting(Once(S), c)
<1>1. /\ counts = [Once(S) EXCEPT ![c] = Once(S)[c] + 1]
      /\ Once(S) = [d \in Cursors |-> IF d \in S THEN 1 ELSE 0]
  BY DEF Counting, Once
<1>2. counts = [d \in Cursors |-> IF d = c THEN Once(S)[c] + 1 ELSE Once(S)[d]]
  BY <1>1
<1>3. \A d \in Cursors : (IF d = c THEN Once(S)[c] + 1 ELSE Once(S)[d])
                          = (IF d \in S \cup {c} THEN 1 ELSE 0)
  BY <1>1
<1>4. counts = [d \in Cursors |-> IF d \in S \cup {c} THEN 1 ELSE 0]
  BY <1>2, <1>3, Zenon
<1> QED BY <1>4 DEF Once

-----------------------------------------------------------------------------
(* The inductive invariant *)

\* The steps of a backfill between the choice of a chunk and its checkpoint.
Body == {"deciding", "appending", "adding", "replacing", "checkpoint"}

\* The memory of a live attempt of backfill b.
FitsBackfill(policy, b, x) ==
    /\ x.pc \in Body \cup {"start"}
    /\ x.cursor \in Chunks(b) \cup {End[b]}
    /\ x.seen \subseteq Chunks(b)
    /\ x.counted = Once(x.seen)
    /\ \A c \in Chunks(b) : c < x.cursor => c \in x.seen
    /\ x.pc \in Body => /\ x.cursor \in Chunks(b) /\ x.cursor \notin x.seen
                        /\ policy = "reject" => Refused(b, x.cursor) = {}

\* The memory of an attempt of job j.
Fits(policy, j, x) ==
    /\ x \in Execs
    /\ x.pc # "idle" /\ j \in Backfills => FitsBackfill(policy, j, x)
    /\ j \in Appends => x.rows \subseteq Staged[j] /\ x.into = "view"
    /\ x.pc \in {"deciding", "replacing", "checkpoint"} => j \in Backfills
    /\ x.pc \in {"appending", "adding"} => j \in Backfills \cup Appends
    /\ x.pc \in {"checking", "upserting"} => j \in Materializations
    /\ \A r \in Rows : x.keep[r] > 0 => Admitted(policy, r)

Fitting == \A p \in Attempts : Fits(scenario.policy, p[1], exec[p])

\* The owner of a backfill has the chunks of its row in memory.
Current ==
    \A p \in Attempts :
        p[1] \in Backfills /\ Owns(p) /\ exec[p].pc # "idle" =>
            exec[p].seen = checkpoints[p[1]]

Within == \A b \in Backfills : checkpoints[b] \subseteq Chunks(b)

Sound ==
    /\ TypeOK /\ Fitting /\ Current /\ Within
    /\ OnlyAdmittedRows /\ ChunksCountedOnce

\* A job is of one kind.
LEMMA Kinds ==
    ASSUME NEW p \in Attempts
    PROVE  /\ p[1] \in Jobs /\ p[2] \in 1..MaxAttempts
           /\ p[1] \in Appends => p[1] \notin Backfills
           /\ p[1] \in Materializations => p[1] \notin Backfills /\ p[1] \notin Appends
BY JobsAssumption DEF Attempts, Jobs

LEMMA PolicyType ==
    ASSUME TypeOK
    PROVE  scenario.policy \in Policies
BY ScenariosAssumption DEF TypeOK, ScenarioType

LEMMA BagType ==
    NoRows \in Bags /\ NoTable \in Tables
BY DEF NoRows, NoTable, Bags, Tables

\* An attempt that has ended remembers nothing.
LEMMA IdleFits ==
    ASSUME NEW policy, NEW j
    PROVE  Fits(policy, j, Idle)
<1>1. Idle \in Execs
  BY BagType, NothingOnce DEF Idle, Execs, PCs
<1>2. /\ Idle.pc = "idle" /\ Idle.rows = {} /\ Idle.into = "view"
      /\ \A r \in Rows : Idle.keep[r] = 0
  BY DEF Idle, NoRows
<1> QED BY <1>1, <1>2 DEF Fits

\* An attempt that starts knows what its job's row says.
LEMMA StartedFits ==
    ASSUME Sound, NEW j \in Jobs
    PROVE  Fits(scenario.policy, j, Started(j)) /\ Started(j).pc = "start"
<1>1. CASE j \in Backfills
  <2>1. /\ checkpoints[j] \subseteq Chunks(j) /\ checkpoints[j] \in SUBSET Cursors
        /\ summary[j] = Once(checkpoints[j]) /\ summary[j] \in Summaries
    BY <1>1, OnceType DEF Sound, TypeOK, Within, ChunksCountedOnce
  <2>2. Start[j] \in Chunks(j) /\ Start[j] \in Nat /\ \A c \in Chunks(j) : ~(c < Start[j])
    BY <1>1, FirstChunk, PayloadRange, ChunkType
  <2>3. /\ Started(j) \in Execs
        /\ Started(j).pc = "start" /\ Started(j).cursor = Start[j]
        /\ Started(j).seen = checkpoints[j] /\ Started(j).counted = summary[j]
        /\ Started(j).rows = {} /\ Started(j).into = "view" /\ Started(j).keep = NoRows
    BY <1>1, <2>1, <2>2, BagType, NothingOnce DEF Started, Idle, Execs, PCs
  <2>4. FitsBackfill(scenario.policy, j, Started(j))
    BY <2>1, <2>2, <2>3 DEF FitsBackfill, Body
  <2>5. \A r \in Rows : Started(j).keep[r] = 0
    BY <2>3 DEF NoRows
  <2> QED BY <1>1, <2>3, <2>4, <2>5 DEF Fits
<1>2. CASE j \notin Backfills
  <2>1. /\ Started(j) \in Execs /\ Started(j).pc = "start"
        /\ Started(j).rows = {} /\ Started(j).into = "view" /\ Started(j).keep = NoRows
    BY <1>2, BagType, NothingOnce DEF Started, Idle, Execs, PCs
  <2>2. \A r \in Rows : Started(j).keep[r] = 0
    BY <2>1 DEF NoRows
  <2> QED BY <1>2, <2>1, <2>2 DEF Fits
<1> QED BY <1>1, <1>2

-----------------------------------------------------------------------------
(* Steps that change the memory of one attempt *)

LEMMA ExecStep ==
    ASSUME Sound, NEW p \in Attempts, NEW x, Fits(scenario.policy, p[1], x),
           exec' = [exec EXCEPT ![p] = x], scenario' = scenario
    PROVE  /\ exec' \in [Attempts -> Execs] /\ Fitting'
           /\ exec'[p] = x
           /\ \A q \in Attempts : q # p => exec'[q] = exec[q]
<1>1. exec \in [Attempts -> Execs] /\ x \in Execs
  BY DEF Sound, TypeOK, Fits
<1>2. exec'[p] = x /\ \A q \in Attempts : q # p => exec'[q] = exec[q]
  BY <1>1
<1>3. exec' \in [Attempts -> Execs]
  BY <1>1
<1>4. ASSUME NEW q \in Attempts PROVE Fits(scenario'.policy, q[1], exec'[q])
  <2>1. Fits(scenario.policy, q[1], exec[q])
    BY DEF Sound, Fitting
  <2> QED BY <1>2, <2>1
<1> QED BY <1>2, <1>3, <1>4 DEF Fitting

\* Nothing but that memory and the stores changes, and the attempt ends or
\* goes on with the chunks it has seen.
LEMMA MemoryStep ==
    ASSUME Sound, NEW p \in Attempts, NEW x, Fits(scenario.policy, p[1], x),
           exec' = [exec EXCEPT ![p] = x],
           x.pc # "idle" => exec[p].pc # "idle" /\ x.seen = exec[p].seen,
           UNCHANGED <<scenario, status, attempt, checkpoints, summary, result>>
    PROVE  /\ exec' \in [Attempts -> Execs]
           /\ Fitting' /\ Current' /\ Within' /\ ChunksCountedOnce'
<1>1. /\ exec' \in [Attempts -> Execs] /\ Fitting' /\ exec'[p] = x
      /\ \A q \in Attempts : q # p => exec'[q] = exec[q]
  BY ExecStep
<1>2. \A q \in Attempts : Owns(q)' <=> Owns(q)
  BY DEF Owns
<1>3. Current'
  BY <1>1, <1>2 DEF Sound, Current
<1>4. Within' /\ ChunksCountedOnce'
  BY DEF Sound, Within, ChunksCountedOnce
<1> QED BY <1>1, <1>3, <1>4

-----------------------------------------------------------------------------
(* Tables *)

LEMMA PlusAdmitted ==
    ASSUME NEW policy, NEW bag \in Bags, NEW S \in SUBSET Rows
    PROVE  /\ Plus(bag, S) \in Bags
           /\ /\ \A r \in Rows : bag[r] > 0 => Admitted(policy, r)
              /\ \A r \in S : Admitted(policy, r)
              => \A r \in Rows : Plus(bag, S)[r] > 0 => Admitted(policy, r)
<1>1. Plus(bag, S) \in Bags /\ \A r \in Rows : bag[r] \in Nat
  BY DEF Plus, Bags
<1>2. \A r \in Rows : Plus(bag, S)[r] = IF r \in S THEN bag[r] + 1 ELSE bag[r]
  BY DEF Plus
<1> QED BY <1>1, <1>2

LEMMA OverwrittenRows ==
    ASSUME NEW t \in Tables, NEW date, NEW bag \in Bags
    PROVE  /\ Overwritten(t, date, bag) \in Tables
           /\ \A r \in Rows : \/ Overwritten(t, date, bag).rows[r] = bag[r]
                              \/ Overwritten(t, date, bag).rows[r] = t.rows[r]
<1> DEFINE rows == [r \in Rows |->
                      IF Date(r.event_timestamp) = date THEN bag[r] ELSE t.rows[r]]
<1>1. t.rows \in Bags /\ \A r \in Rows : bag[r] \in Nat /\ t.rows[r] \in Nat
  BY DEF Tables, Bags
<1>2. rows \in Bags
  BY <1>1 DEF Bags
<1>3. \A r \in Rows : rows[r] = bag[r] \/ rows[r] = t.rows[r]
  OBVIOUS
<1> HIDE DEF rows
<1>4. Overwritten(t, date, bag) = [exists |-> TRUE, rows |-> rows]
  BY DEF Overwritten, rows
<1> QED BY <1>2, <1>3, <1>4 DEF Tables

LEMMA AppendedRows ==
    ASSUME NEW t \in Tables, NEW S \in SUBSET Rows
    PROVE  /\ Appended(t, S) \in Tables
           /\ Appended(t, S).rows = Plus(t.rows, S)
           /\ t.rows \in Bags
<1>1. t.rows \in Bags
  BY DEF Tables
<1>2. Plus(t.rows, S) \in Bags
  BY <1>1, PlusAdmitted
<1> QED BY <1>1, <1>2 DEF Appended, Tables

\* What a backfill stores is admitted.
LEMMA StoredAdmitted ==
    ASSUME NEW policy \in Policies, NEW b \in Backfills, NEW c \in Chunks(b),
           policy = "reject" => Refused(b, c) = {}
    PROVE  /\ Stored(policy, b, c) \subseteq Rows
           /\ Refused(b, c) \subseteq Rows
           /\ \A r \in Stored(policy, b, c) : Admitted(policy, r)
<1>1. Output(b, c) \subseteq Rows
  BY PayloadAssumption DEF Output, Transformed
<1>2. Refused(b, c) \subseteq Rows
  BY <1>1 DEF Refused, Invalid
<1>3. policy \in {"reject", "quarantine", "report"}
  BY DEF Policies
<1>4. ASSUME NEW r \in Stored(policy, b, c)
      PROVE  r \in Output(b, c) /\ (r \in Refused(b, c) => policy = "report")
  BY <1>3 DEF Stored
<1> QED BY <1>1, <1>2, <1>4 DEF Admitted, Stored

\* The rows of the view are admitted, counted one by one.
LEMMA ViewAdmitted ==
    ASSUME Sound
    PROVE  \A r \in Rows : table.rows[r] > 0 => Admitted(scenario.policy, r)
BY DEF Sound, OnlyAdmittedRows, Load

\* What an attempt at a write step writes.
LEMMA WritingAdmitted ==
    ASSUME Sound, NEW p \in Attempts, exec[p].pc \in {"deciding", "adding", "replacing"}
    PROVE  /\ Writing(p) \in SUBSET Rows
           /\ exec[p].into = "view" =>
                \A r \in Writing(p) : Admitted(scenario.policy, r)
           /\ exec[p].into = "quarantine" => p[1] \in Backfills
           /\ p[1] \in Backfills \cup Appends
<1> DEFINE j == p[1]
<1>1. Fits(scenario.policy, j, exec[p]) /\ exec[p] \in Execs
  BY DEF Sound, Fitting, Fits
<1>2. j \in Backfills \cup Appends
  BY <1>1 DEF Fits
<1>3. CASE j \in Appends
  <2>1. exec[p].rows \subseteq Staged[j] /\ exec[p].into = "view" /\ Staged[j] \subseteq Rows
    BY <1>1, <1>3, PayloadAssumption DEF Fits
  <2>2. Writing(p) = exec[p].rows
    BY <1>3 DEF Writing
  <2>3. \A r \in Writing(p) : Admitted(scenario.policy, r)
    BY <2>1, <2>2, <1>3 DEF Admitted
  <2> QED BY <2>1, <2>2, <2>3, <1>2
<1>4. CASE j \in Backfills
  <2> DEFINE c == exec[p].cursor
  <2>1. FitsBackfill(scenario.policy, j, exec[p])
    BY <1>1, <1>4 DEF Fits
  <2>2. c \in Chunks(j) /\ (scenario.policy = "reject" => Refused(j, c) = {})
    BY <2>1 DEF FitsBackfill, Body
  <2>3. scenario.policy \in Policies
    BY PolicyType DEF Sound
  <2>4. j \notin Appends
    BY <1>4, Kinds
  <2>5. Writing(p) = IF exec[p].into = "view" THEN Stored(scenario.policy, j, c)
                     ELSE Refused(j, c)
    BY <2>4 DEF Writing
  <2>6. /\ Stored(scenario.policy, j, c) \subseteq Rows /\ Refused(j, c) \subseteq Rows
        /\ \A r \in Stored(scenario.policy, j, c) : Admitted(scenario.policy, r)
    BY <1>4, <2>2, <2>3, StoredAdmitted
  <2> QED BY <1>4, <2>5, <2>6
<1> QED BY <1>2, <1>3, <1>4

-----------------------------------------------------------------------------
(* Steps within the memory of an attempt *)

\* Only that memory and the online store change.
LEMMA QuietStep ==
    ASSUME Sound, NEW p \in Attempts, NEW x, Fits(scenario.policy, p[1], x),
           exec' = [exec EXCEPT ![p] = x],
           x.pc # "idle" => exec[p].pc # "idle" /\ x.seen = exec[p].seen,
           UNCHANGED <<scenario, table, quarantine, published, status, attempt, progress>>,
           online' \in [Entities -> Versions \cup {NoHash}]
    PROVE  Sound'
<1>1. UNCHANGED <<scenario, status, attempt, checkpoints, summary, result>>
  BY DEF progress
<1>2. /\ exec' \in [Attempts -> Execs]
      /\ Fitting' /\ Current' /\ Within' /\ ChunksCountedOnce'
  BY <1>1, MemoryStep
<1>3. TypeOK'
  BY <1>1, <1>2 DEF Sound, TypeOK
<1>4. OnlyAdmittedRows'
  BY DEF Sound, OnlyAdmittedRows, Load
<1> QED BY <1>2, <1>3, <1>4 DEF Sound

LEMMA OnlineSame ==
    ASSUME Sound, online' = online
    PROVE  online' \in [Entities -> Versions \cup {NoHash}]
BY DEF Sound, TypeOK

LEMMA FitsNow ==
    ASSUME Sound, NEW p \in Attempts
    PROVE  Fits(scenario.policy, p[1], exec[p]) /\ exec[p] \in Execs
BY DEF Sound, Fitting, Fits

\* A crash, and the end of an attempt that lost its lease.
LEMMA EndStep ==
    ASSUME Sound, NEW p \in Attempts, Crash(p) \/ Lost(p)
    PROVE  Sound'
<1>1. /\ exec' = [exec EXCEPT ![p] = Idle] /\ online' = online
      /\ UNCHANGED <<scenario, table, quarantine, published, status, attempt, progress>>
  BY DEF Crash, Lost, stores
<1>2. Idle.pc = "idle"
  BY DEF Idle
<1> QED BY <1>1, <1>2, IdleFits, OnlineSame, QuietStep

\* The rows a backfill keeps come from the view.
LEMMA PreservedAdmitted ==
    ASSUME Sound, NEW p \in Attempts
    PROVE  /\ Preserved(p) \in Bags
           /\ \A r \in Rows : Preserved(p)[r] > 0 => Admitted(scenario.policy, r)
<1>1. \A r \in Rows : table.rows[r] \in Nat
  BY DEF Sound, TypeOK, Tables, Bags
<1>2. \A r \in Rows : Preserved(p)[r] \in {0, table.rows[r]}
  BY DEF Preserved, NoRows
<1>3. Preserved(p) \in Bags
  BY <1>1 DEF Preserved, NoRows, Bags
<1> QED BY <1>1, <1>2, <1>3, ViewAdmitted

\* The step after a write is one the job's body has.
LEMMA ContinueFits ==
    ASSUME Sound, NEW p \in Attempts, exec[p].pc \in {"deciding", "adding", "replacing"}
    PROVE  /\ Fits(scenario.policy, p[1], Continue(p, exec[p]))
           /\ Continue(p, exec[p]).pc # "idle"
           /\ Continue(p, exec[p]).seen = exec[p].seen
<1> DEFINE x == exec[p]
           y == Continue(p, x)
           pc == IF p[1] \in Appends THEN "finish"
                 ELSE IF x.into = "quarantine" THEN "deciding" ELSE "checkpoint"
<1>1. Fits(scenario.policy, p[1], x) /\ x \in Execs /\ p[1] \in Backfills \cup Appends
  BY FitsNow, WritingAdmitted
<1>2. pc \in PCs
  BY DEF PCs
<1>3. y = [x EXCEPT !.pc = pc, !.into = "view", !.keep = NoRows, !.creates = FALSE]
  BY DEF Continue
<1>4. /\ y \in Execs /\ y.pc = pc /\ y.into = "view" /\ y.keep = NoRows
      /\ y.cursor = x.cursor /\ y.seen = x.seen /\ y.counted = x.counted /\ y.rows = x.rows
  BY <1>1, <1>2, <1>3, BagType DEF Execs
<1>5. ASSUME p[1] \in Backfills PROVE FitsBackfill(scenario.policy, p[1], y)
  <2>1. FitsBackfill(scenario.policy, p[1], x) /\ x.pc \in Body
    BY <1>1, <1>5 DEF Fits, Body
  <2>2. y.pc \in Body
    BY <1>4, <1>5, Kinds DEF Body
  <2> QED BY <1>4, <2>1, <2>2 DEF FitsBackfill
<1>6. \A r \in Rows : y.keep[r] = 0
  BY <1>4 DEF NoRows
<1>7. y.pc \in {"finish", "deciding", "checkpoint"} /\ (y.pc # "finish" => p[1] \in Backfills)
  BY <1>1, <1>4
<1> QED BY <1>1, <1>4, <1>5, <1>6, <1>7 DEF Fits

\* A backfill looks at its target.
LEMMA DecideStep ==
    ASSUME Sound, NEW p \in Attempts, Decide(p)
    PROVE  Sound'
<1> DEFINE x == exec[p]
<1>1. /\ x.pc = "deciding" /\ online' = online
      /\ UNCHANGED <<scenario, table, quarantine, published, status, attempt, progress>>
  BY DEF Decide, stores
<1>2. /\ Fits(scenario.policy, p[1], x) /\ x \in Execs
      /\ p[1] \in Backfills /\ p[1] \notin Appends
  BY <1>1, FitsNow, Kinds DEF Fits
<1>3. FitsBackfill(scenario.policy, p[1], x)
  BY <1>1, <1>2 DEF Fits
<1>4. CASE Target(p).exists
  <2> DEFINE y == [x EXCEPT !.pc = "replacing", !.keep = Preserved(p)]
  <2>1. exec' = [exec EXCEPT ![p] = y]
    BY <1>4 DEF Decide
  <2>2. /\ y \in Execs /\ y.pc = "replacing" /\ y.keep = Preserved(p)
        /\ y.cursor = x.cursor /\ y.seen = x.seen /\ y.counted = x.counted
        /\ y.rows = x.rows /\ y.into = x.into
    BY <1>2, PreservedAdmitted DEF Execs, PCs
  <2> HIDE DEF y
  <2>3. FitsBackfill(scenario.policy, p[1], y)
    BY <1>1, <1>3, <2>2 DEF FitsBackfill, Body
  <2>4. Fits(scenario.policy, p[1], y)
    BY <1>2, <2>2, <2>3, PreservedAdmitted DEF Fits
  <2> QED BY <1>1, <2>1, <2>2, <2>4, OnlineSame, QuietStep
<1>5. CASE ~Target(p).exists /\ Writing(p) = {}
  <2>1. exec' = [exec EXCEPT ![p] = Continue(p, x)]
    BY <1>5 DEF Decide
  <2> QED BY <1>1, <2>1, ContinueFits, OnlineSame, QuietStep
<1>6. CASE ~Target(p).exists /\ Writing(p) # {}
  <2> DEFINE y == [x EXCEPT !.pc = "appending"]
  <2>1. exec' = [exec EXCEPT ![p] = y]
    BY <1>6 DEF Decide
  <2>2. /\ y \in Execs /\ y.pc = "appending" /\ y.keep = x.keep
        /\ y.cursor = x.cursor /\ y.seen = x.seen /\ y.counted = x.counted
        /\ y.rows = x.rows /\ y.into = x.into
    BY <1>2 DEF Execs, PCs
  <2> HIDE DEF y
  <2>3. FitsBackfill(scenario.policy, p[1], y)
    BY <1>1, <1>3, <2>2 DEF FitsBackfill, Body
  <2>4. Fits(scenario.policy, p[1], y)
    BY <1>2, <2>2, <2>3 DEF Fits
  <2> QED BY <1>1, <2>1, <2>2, <2>4, OnlineSame, QuietStep
<1> QED BY <1>4, <1>5, <1>6

\* append chooses its mode.
LEMMA ProbeStep ==
    ASSUME Sound, NEW p \in Attempts, Probe(p)
    PROVE  Sound'
<1> DEFINE x == exec[p]
           y == [x EXCEPT !.pc = "adding", !.creates = ~Target(p).exists]
<1>1. /\ x.pc = "appending" /\ online' = online /\ exec' = [exec EXCEPT ![p] = y]
      /\ UNCHANGED <<scenario, table, quarantine, published, status, attempt, progress>>
  BY DEF Probe, stores
<1>2. Fits(scenario.policy, p[1], x) /\ x \in Execs
  BY FitsNow
<1>3. /\ y \in Execs /\ y.pc = "adding" /\ y.keep = x.keep
      /\ y.cursor = x.cursor /\ y.seen = x.seen /\ y.counted = x.counted
      /\ y.rows = x.rows /\ y.into = x.into
  BY <1>2 DEF Execs, PCs
<1> HIDE DEF y
<1>4. p[1] \in Backfills => FitsBackfill(scenario.policy, p[1], y)
  BY <1>1, <1>2, <1>3 DEF Fits, FitsBackfill, Body
<1>5. Fits(scenario.policy, p[1], y)
  BY <1>1, <1>2, <1>3, <1>4 DEF Fits
<1> QED BY <1>1, <1>3, <1>5, OnlineSame, QuietStep

\* A loop head of a backfill.
LEMMA AtChunkFacts ==
    ASSUME Sound, NEW p \in Attempts, AtChunk(p)
    PROVE  /\ p[1] \in Backfills /\ p[1] \notin Appends /\ exec[p].pc = "start"
           /\ Owns(p)
           /\ Fits(scenario.policy, p[1], exec[p]) /\ exec[p] \in Execs
           /\ FitsBackfill(scenario.policy, p[1], exec[p])
           /\ exec[p].cursor \in Chunks(p[1]) /\ exec[p].cursor \in Cursors
           /\ exec[p].seen = checkpoints[p[1]]
<1>1. p[1] \in Backfills /\ exec[p].pc = "start" /\ exec[p].cursor < End[p[1]] /\ Owns(p)
  BY DEF AtChunk
<1>2. Fits(scenario.policy, p[1], exec[p]) /\ exec[p] \in Execs
  BY FitsNow
<1>3. FitsBackfill(scenario.policy, p[1], exec[p])
  BY <1>1, <1>2 DEF Fits
<1>4. exec[p].cursor \in Chunks(p[1])
  BY <1>1, <1>3, PayloadRange DEF FitsBackfill
<1>5. exec[p].seen = checkpoints[p[1]]
  BY <1>1 DEF Sound, Current
<1> QED BY <1>1, <1>2, <1>3, <1>4, <1>5, Kinds, ChunkType

\* A chunk that is in the checkpoints is passed over.
LEMMA SkipChunkStep ==
    ASSUME Sound, NEW p \in Attempts, SkipChunk(p)
    PROVE  Sound'
<1> DEFINE x == exec[p]
           b == p[1]
           y == [x EXCEPT !.cursor = ChunkEnd(b, x.cursor)]
<1>1. /\ AtChunk(p) /\ x.cursor \in x.seen /\ online' = online
      /\ exec' = [exec EXCEPT ![p] = y]
      /\ UNCHANGED <<scenario, table, quarantine, published, status, attempt, progress>>
  BY DEF SkipChunk, stores
<1>2. /\ b \in Backfills /\ b \notin Appends /\ x.pc = "start"
      /\ Fits(scenario.policy, b, x) /\ x \in Execs /\ FitsBackfill(scenario.policy, b, x)
      /\ x.cursor \in Chunks(b)
  BY <1>1, AtChunkFacts
<1>3. /\ ChunkEnd(b, x.cursor) \in Chunks(b) \cup {End[b]}
      /\ ChunkEnd(b, x.cursor) \in Nat
      /\ \A d \in Chunks(b) : d < ChunkEnd(b, x.cursor) => d <= x.cursor
  BY <1>2, NextChunk
<1>4. /\ y \in Execs /\ y.pc = "start" /\ y.keep = x.keep
      /\ y.cursor = ChunkEnd(b, x.cursor) /\ y.seen = x.seen /\ y.counted = x.counted
      /\ y.rows = x.rows /\ y.into = x.into
  BY <1>2, <1>3 DEF Execs
<1> HIDE DEF y
<1>5. \A c \in Chunks(b) : c < y.cursor => c \in y.seen
  <2>1. \A c \in Chunks(b) : c \in Nat
    BY <1>2, ChunkType
  <2>2. \A c \in Chunks(b) : c < x.cursor => c \in x.seen
    BY <1>2 DEF FitsBackfill
  <2> QED BY <1>1, <1>2, <1>3, <1>4, <2>1, <2>2
<1>6. FitsBackfill(scenario.policy, b, y)
  BY <1>2, <1>3, <1>4, <1>5 DEF FitsBackfill, Body
<1>7. Fits(scenario.policy, b, y)
  BY <1>2, <1>4, <1>6 DEF Fits
<1> QED BY <1>1, <1>2, <1>4, <1>7, OnlineSame, QuietStep

\* A chunk is validated and goes on to the writes.
LEMMA RunChunkStep ==
    ASSUME Sound, NEW p \in Attempts, RunChunk(p)
    PROVE  Sound'
<1> DEFINE x == exec[p]
           b == p[1]
           into == IF scenario.policy = "quarantine" /\ Refused(b, x.cursor) # {}
                     THEN "quarantine" ELSE "view"
           y == [x EXCEPT !.pc = "deciding", !.into = into]
<1>1. /\ AtChunk(p) /\ x.cursor \notin x.seen /\ online' = online
      /\ scenario.policy = "reject" => Refused(b, x.cursor) = {}
      /\ exec' = [exec EXCEPT ![p] = y]
      /\ UNCHANGED <<scenario, table, quarantine, published, status, attempt, progress>>
  BY DEF RunChunk, stores
<1>2. /\ b \in Backfills /\ b \notin Appends /\ x.pc = "start"
      /\ Fits(scenario.policy, b, x) /\ x \in Execs /\ FitsBackfill(scenario.policy, b, x)
      /\ x.cursor \in Chunks(b)
  BY <1>1, AtChunkFacts
<1>3. into \in {"view", "quarantine"}
  OBVIOUS
<1> HIDE DEF into
<1>4. /\ y \in Execs /\ y.pc = "deciding" /\ y.keep = x.keep
      /\ y.cursor = x.cursor /\ y.seen = x.seen /\ y.counted = x.counted
      /\ y.rows = x.rows
  BY <1>2, <1>3 DEF Execs, PCs
<1> HIDE DEF y
<1>5. FitsBackfill(scenario.policy, b, y)
  BY <1>1, <1>2, <1>4 DEF FitsBackfill, Body
<1>6. Fits(scenario.policy, b, y)
  BY <1>2, <1>4, <1>5 DEF Fits
<1> QED BY <1>1, <1>2, <1>4, <1>6, OnlineSame, QuietStep

\* A memory change that none of the conditions on backfills and writes is about.
LEMMA OtherFits ==
    ASSUME NEW policy, NEW j, NEW x, Fits(policy, j, x), NEW y \in Execs,
           j \notin Backfills, y.pc \in {"appending", "finish", "checking", "upserting"},
           y.pc = "appending" => j \in Appends,
           y.pc \in {"checking", "upserting"} => j \in Materializations,
           y.keep = x.keep, y.into = x.into, j \in Appends => y.rows \subseteq Staged[j]
    PROVE  Fits(policy, j, y)
BY DEF Fits

\* An append has compared the tables.
LEMMA CompareStep ==
    ASSUME Sound, NEW p \in Attempts, Compare(p)
    PROVE  Sound'
<1> DEFINE x == exec[p]
           j == p[1]
           unseen == Unseen(Staged[j], Load(table))
           pc == IF unseen = {} THEN "finish" ELSE "appending"
           y == [x EXCEPT !.rows = unseen, !.pc = pc]
<1>1. /\ j \in Appends /\ x.pc = "start" /\ online' = online
      /\ exec' = [exec EXCEPT ![p] = y]
      /\ UNCHANGED <<scenario, table, quarantine, published, status, attempt, progress>>
  BY DEF Compare, stores
<1>2. j \notin Backfills /\ Fits(scenario.policy, j, x) /\ x \in Execs
  BY <1>1, Kinds, FitsNow
<1>3. unseen \subseteq Staged[j] /\ Staged[j] \subseteq Rows
  BY <1>1, PayloadAssumption DEF Unseen
<1>4. pc \in {"appending", "finish"}
  OBVIOUS
<1> HIDE DEF unseen, pc
<1>5. /\ y \in Execs /\ y.pc = pc /\ y.rows = unseen /\ y.keep = x.keep
      /\ y.into = x.into /\ y.seen = x.seen
  BY <1>2, <1>3, <1>4 DEF Execs, PCs
<1> HIDE DEF y
<1>6. Fits(scenario.policy, j, y)
  BY <1>1, <1>2, <1>3, <1>4, <1>5, OtherFits
<1> QED BY <1>1, <1>5, <1>6, OnlineSame, QuietStep

\* A materialization has scanned the view.
LEMMA ScanStep ==
    ASSUME Sound, NEW p \in Attempts, Scan(p)
    PROVE  Sound'
<1> DEFINE x == exec[p]
           j == p[1]
           rows == LoadRange(table, ScanStart(j), End[j])
           latest == Latest(rows)
           pc == IF rows = {} THEN "finish" ELSE "checking"
           y == [x EXCEPT !.rows = rows, !.due = latest, !.pc = pc]
<1>1. /\ j \in Materializations /\ x.pc = "start" /\ online' = online
      /\ exec' = [exec EXCEPT ![p] = y]
      /\ UNCHANGED <<scenario, table, quarantine, published, status, attempt, progress>>
  BY DEF Scan, stores
<1>2. j \notin Backfills /\ j \notin Appends /\ Fits(scenario.policy, j, x) /\ x \in Execs
  BY <1>1, Kinds, FitsNow
<1>3. rows \subseteq Rows /\ latest \subseteq Rows
  BY DEF LoadRange, Load, Latest
<1>4. pc \in {"checking", "finish"}
  OBVIOUS
<1> HIDE DEF rows, latest, pc
<1>5. /\ y \in Execs /\ y.pc = pc /\ y.keep = x.keep /\ y.into = x.into /\ y.seen = x.seen
  BY <1>2, <1>3, <1>4 DEF Execs, PCs
<1> HIDE DEF y
<1>6. Fits(scenario.policy, j, y)
  BY <1>1, <1>2, <1>4, <1>5, OtherFits
<1> QED BY <1>1, <1>5, <1>6, OnlineSame, QuietStep

\* Only materializations come to the steps of an upsert.
LEMMA UpsertKind ==
    ASSUME Sound, NEW p \in Attempts, exec[p].pc \in {"checking", "upserting"}
    PROVE  p[1] \notin Backfills
BY FitsNow DEF Fits, FitsBackfill, Body

LEMMA CheckUpsertStep ==
    ASSUME Sound, NEW p \in Attempts, CheckUpsert(p)
    PROVE  Sound'
<1> DEFINE x == exec[p]
           y == [x EXCEPT !.pc = "upserting"]
<1>1. /\ x.pc = "checking" /\ online' = online /\ exec' = [exec EXCEPT ![p] = y]
      /\ UNCHANGED <<scenario, table, quarantine, published, status, attempt, progress>>
  BY DEF CheckUpsert, stores
<1>2. p[1] \notin Backfills /\ Fits(scenario.policy, p[1], x) /\ x \in Execs
  BY <1>1, UpsertKind, FitsNow
<1>3. /\ y \in Execs /\ y.pc = "upserting" /\ y.rows = x.rows /\ y.keep = x.keep
      /\ y.into = x.into /\ y.seen = x.seen
  BY <1>2 DEF Execs, PCs
<1> HIDE DEF y
<1>4. Fits(scenario.policy, p[1], y)
  BY <1>1, <1>2, <1>3, OtherFits DEF Fits
<1> QED BY <1>1, <1>3, <1>4, OnlineSame, QuietStep

\* A row is a version of its entity.
LEMMA UpsertType ==
    ASSUME Sound, NEW r \in Rows,
           online' = [online EXCEPT ![r.entity] = Upsert(@, Version(r))]
    PROVE  online' \in [Entities -> Versions \cup {NoHash}]
<1>1. r.entity \in Entities /\ r.event_timestamp \in Nat \ {0} /\ r.event_id \in Nat
  BY ViewAssumption DEF RowType
<1>2. Version(r) \in Versions
  BY <1>1 DEF Version, Versions
<1>3. online \in [Entities -> Versions \cup {NoHash}]
  BY DEF Sound, TypeOK
<1>4. Upsert(online[r.entity], Version(r)) \in Versions \cup {NoHash}
  BY <1>1, <1>2, <1>3 DEF Upsert
<1> QED BY <1>1, <1>3, <1>4

LEMMA UpsertRowStep ==
    ASSUME Sound, NEW p \in Attempts, NEW r \in exec[p].due, UpsertRow(p, r)
    PROVE  Sound'
<1> DEFINE x == exec[p]
           due == x.due \ {r}
           pc == IF x.due = {r} THEN "finish" ELSE "checking"
           y == [x EXCEPT !.due = due, !.pc = pc]
<1>1. /\ x.pc = "upserting" /\ exec' = [exec EXCEPT ![p] = y]
      /\ online' = [online EXCEPT ![r.entity] = Upsert(@, Version(r))]
      /\ UNCHANGED <<scenario, table, quarantine, published, status, attempt, progress>>
  BY DEF UpsertRow
<1>2. p[1] \notin Backfills /\ Fits(scenario.policy, p[1], x) /\ x \in Execs
  BY <1>1, UpsertKind, FitsNow
<1>3. due \subseteq Rows /\ r \in Rows
  BY <1>2 DEF Execs
<1>4. pc \in {"checking", "finish"}
  OBVIOUS
<1> HIDE DEF due, pc
<1>5. /\ y \in Execs /\ y.pc = pc /\ y.rows = x.rows /\ y.keep = x.keep
      /\ y.into = x.into /\ y.seen = x.seen
  BY <1>2, <1>3, <1>4 DEF Execs, PCs
<1> HIDE DEF y
<1>6. Fits(scenario.policy, p[1], y)
  BY <1>1, <1>2, <1>4, <1>5, OtherFits DEF Fits
<1> QED BY <1>1, <1>3, <1>5, <1>6, UpsertType, QuietStep

-----------------------------------------------------------------------------
(* Steps that write a Delta table *)

LEMMA TargetType ==
    ASSUME Sound, NEW p \in Attempts, exec[p].pc \in {"adding", "replacing"}
    PROVE  /\ Target(p) \in Tables /\ Target(p).rows \in Bags
           /\ exec[p].into = "view" => Target(p) = table
<1>1. table \in Tables /\ quarantine \in [Backfills -> Tables] /\ exec[p].into \in {"view", "quarantine"}
  BY FitsNow DEF Sound, TypeOK, Execs
<1>2. Target(p) \in Tables /\ (exec[p].into = "view" => Target(p) = table)
  BY <1>1, WritingAdmitted DEF Target
<1> QED BY <1>2 DEF Tables

\* A commit to the view of admitted rows, or one to a quarantine table.
LEMMA CommitStep ==
    ASSUME Sound, NEW p \in Attempts, exec[p].pc \in {"adding", "replacing"},
           NEW new \in Tables, Commits(p, new),
           exec[p].into = "view" =>
               \A r \in Rows : new.rows[r] > 0 => Admitted(scenario.policy, r)
    PROVE  Sound'
<1> DEFINE y == Continue(p, exec[p])
<1>1. /\ exec' = [exec EXCEPT ![p] = y]
      /\ UNCHANGED <<scenario, online, published, status, attempt, progress>>
  BY DEF Commits
<1>2. /\ Fits(scenario.policy, p[1], y) /\ y.pc # "idle" /\ y.seen = exec[p].seen
  BY ContinueFits
<1> HIDE DEF y
<1>3. UNCHANGED <<scenario, status, attempt, checkpoints, summary, result>>
  BY <1>1 DEF progress
<1>4. exec[p].pc # "idle" /\ exec[p].into \in {"view", "quarantine"}
  BY FitsNow DEF Execs
<1>5. /\ exec' \in [Attempts -> Execs]
      /\ Fitting' /\ Current' /\ Within' /\ ChunksCountedOnce'
  BY <1>1, <1>2, <1>3, <1>4, MemoryStep
<1>6. table \in Tables /\ quarantine \in [Backfills -> Tables]
  BY DEF Sound, TypeOK
<1>7. /\ exec[p].into = "view" => table' = new /\ quarantine' = quarantine
      /\ exec[p].into = "quarantine" =>
           table' = table /\ quarantine' = [quarantine EXCEPT ![p[1]] = new]
  BY DEF Commits
<1>8. table' \in Tables /\ quarantine' \in [Backfills -> Tables]
  BY <1>4, <1>6, <1>7
<1>9. TypeOK'
  BY <1>1, <1>3, <1>5, <1>8 DEF Sound, TypeOK
<1>10. \A r \in Rows : table'.rows[r] > 0 => Admitted(scenario'.policy, r)
  BY <1>1, <1>4, <1>7, ViewAdmitted
<1>11. OnlyAdmittedRows'
  BY <1>10 DEF OnlyAdmittedRows, Load
<1> QED BY <1>5, <1>9, <1>11 DEF Sound

\* overwrite_partition.
LEMMA ReplaceStep ==
    ASSUME Sound, NEW p \in Attempts, Replace(p)
    PROVE  Sound'
<1> DEFINE bag == Plus(exec[p].keep, Writing(p))
           new == Overwritten(Target(p), Date(exec[p].cursor), bag)
<1>1. exec[p].pc = "replacing" /\ Commits(p, new)
  BY DEF Replace
<1>2. /\ exec[p].keep \in Bags
      /\ \A r \in Rows : exec[p].keep[r] > 0 => Admitted(scenario.policy, r)
  BY FitsNow DEF Fits, Execs
<1>3. /\ Writing(p) \in SUBSET Rows
      /\ exec[p].into = "view" => \A r \in Writing(p) : Admitted(scenario.policy, r)
  BY <1>1, WritingAdmitted
<1>4. /\ bag \in Bags
      /\ exec[p].into = "view" =>
           \A r \in Rows : bag[r] > 0 => Admitted(scenario.policy, r)
  BY <1>2, <1>3, PlusAdmitted
<1>5. Target(p) \in Tables /\ (exec[p].into = "view" => Target(p) = table)
  BY <1>1, TargetType
<1> HIDE DEF bag
<1>6. /\ new \in Tables
      /\ \A r \in Rows : new.rows[r] = bag[r] \/ new.rows[r] = Target(p).rows[r]
  BY <1>4, <1>5, OverwrittenRows
<1> HIDE DEF new
<1>7. exec[p].into = "view" =>
        \A r \in Rows : new.rows[r] > 0 => Admitted(scenario.policy, r)
  BY <1>4, <1>5, <1>6, ViewAdmitted
<1> QED BY <1>1, <1>6, <1>7, CommitStep

\* append's write.
LEMMA AddStep ==
    ASSUME Sound, NEW p \in Attempts, Add(p)
    PROVE  Sound'
<1> DEFINE new == Appended(Target(p), Writing(p))
<1>1. exec[p].pc = "adding" /\ Commits(p, new)
  BY DEF Add
<1>2. /\ Writing(p) \in SUBSET Rows
      /\ exec[p].into = "view" => \A r \in Writing(p) : Admitted(scenario.policy, r)
  BY <1>1, WritingAdmitted
<1>3. /\ Target(p) \in Tables /\ Target(p).rows \in Bags
      /\ exec[p].into = "view" => Target(p) = table
  BY <1>1, TargetType
<1>4. new \in Tables /\ new.rows = Plus(Target(p).rows, Writing(p))
  BY <1>2, <1>3, AppendedRows
<1> HIDE DEF new
<1>5. exec[p].into = "view" =>
        \A r \in Rows : Target(p).rows[r] > 0 => Admitted(scenario.policy, r)
  BY <1>3, ViewAdmitted
<1>6. exec[p].into = "view" =>
        \A r \in Rows : new.rows[r] > 0 => Admitted(scenario.policy, r)
  BY <1>2, <1>3, <1>4, <1>5, PlusAdmitted
<1> QED BY <1>1, <1>4, <1>6, CommitStep

-----------------------------------------------------------------------------
(* Steps that end an attempt, and those of the jobs table *)

\* What of Sound the stores and the rest of the state have when no table changes.
LEMMA StoresSame ==
    ASSUME Sound, UNCHANGED <<scenario, table>>
    PROVE  OnlyAdmittedRows'
BY DEF Sound, OnlyAdmittedRows, Load

\* After an attempt ended, its memory and that of the others fit.
LEMMA EndedFits ==
    ASSUME Sound, NEW p \in Attempts, exec' = [exec EXCEPT ![p] = Idle], scenario' = scenario
    PROVE  /\ exec' \in [Attempts -> Execs] /\ Fitting'
           /\ exec'[p].pc = "idle"
           /\ \A q \in Attempts : q # p => exec'[q] = exec[q]
<1>1. Fits(scenario.policy, p[1], Idle)
  BY IdleFits
<1>2. Idle.pc = "idle"
  BY DEF Idle
<1> QED BY <1>1, <1>2, ExecStep

\* A status that is neither running nor one that reports a summary.
LEMMA StatusStep ==
    ASSUME Sound, NEW j \in Jobs, NEW s \in Statuses \ {"running", "succeeded", "failed"},
           status' = [status EXCEPT ![j] = s],
           UNCHANGED <<scenario, table, quarantine, published, attempt, progress, exec>>,
           online' = online
    PROVE  Sound'
<1>1. UNCHANGED <<checkpoints, summary, result>>
  BY DEF progress
<1>2. status \in [Jobs -> Statuses]
  BY DEF Sound, TypeOK
<1>3. /\ status' \in [Jobs -> Statuses] /\ status'[j] = s
      /\ \A i \in Jobs : i # j => status'[i] = status[i]
  BY <1>2
<1>4. TypeOK'
  BY <1>1, <1>3 DEF Sound, TypeOK
<1>5. Fitting' /\ Within'
  BY <1>1 DEF Sound, Fitting, Within
<1>6. ASSUME NEW p \in Attempts PROVE Owns(p)' => Owns(p)
  BY <1>3, Kinds DEF Owns
<1>7. Current'
  BY <1>1, <1>6 DEF Sound, Current
<1>8. \A b \in Backfills : b \in Jobs
  BY DEF Jobs
<1>9. ChunksCountedOnce'
  BY <1>1, <1>3, <1>8 DEF Sound, ChunksCountedOnce
<1> QED BY <1>4, <1>5, <1>7, <1>9, StoresSame DEF Sound

LEMMA JobStatusSteps ==
    ASSUME Sound, NEW j \in Jobs, Submit(j) \/ Exhaust(j) \/ Cancel(j)
    PROVE  Sound'
<1>1. /\ status' = [status EXCEPT ![j] = "pending"]
         \/ status' = [status EXCEPT ![j] = "exhausted"]
         \/ status' = [status EXCEPT ![j] = "cancelled"]
      /\ UNCHANGED <<scenario, table, quarantine, published, attempt, progress, exec>>
      /\ online' = online
  BY DEF Submit, Exhaust, Cancel, stores
<1>2. {"pending", "exhausted", "cancelled"} \subseteq Statuses \ {"running", "succeeded", "failed"}
  BY DEF Statuses, Unsettled
<1> QED BY <1>1, <1>2, StatusStep

\* The stream consumer's upsert.
LEMMA IngestStep ==
    ASSUME Sound, NEW j \in Jobs, NEW r \in Rows, Ingest(j, r)
    PROVE  Sound'
<1>1. /\ UNCHANGED <<scenario, table, quarantine, published, status, attempt, exec>>
      /\ UNCHANGED <<checkpoints, summary, result>>
      /\ online' = [online EXCEPT ![r.entity] = Upsert(@, Version(r))]
  BY DEF Ingest, progress
<1>2. online' \in [Entities -> Versions \cup {NoHash}]
  BY <1>1, UpsertType
<1>3. TypeOK'
  BY <1>1, <1>2 DEF Sound, TypeOK
<1>4. \A q \in Attempts : Owns(q)' <=> Owns(q)
  BY <1>1 DEF Owns
<1>5. Fitting' /\ Current' /\ Within' /\ ChunksCountedOnce'
  BY <1>1, <1>4 DEF Sound, Fitting, Current, Within, ChunksCountedOnce
<1> QED BY <1>1, <1>3, <1>5, StoresSame DEF Sound

\* A lease.
LEMMA ClaimStep ==
    ASSUME Sound, NEW j \in Jobs, Claim(j)
    PROVE  Sound'
<1> DEFINE n == attempt[j] + 1
           p == <<j, n>>
<1>1. /\ attempt[j] < MaxAttempts
      /\ status' = [status EXCEPT ![j] = "running"]
      /\ attempt' = [attempt EXCEPT ![j] = n]
      /\ exec' = [exec EXCEPT ![p] = Started(j)]
      /\ UNCHANGED <<scenario, table, quarantine, online, published>>
      /\ UNCHANGED <<checkpoints, summary, result>>
  BY DEF Claim, stores, progress
<1>2. /\ attempt \in [Jobs -> 0..MaxAttempts] /\ status \in [Jobs -> Statuses]
      /\ MaxAttempts \in Nat
  BY ViewAssumption DEF Sound, TypeOK
<1>3. n \in 1..MaxAttempts /\ n \in 0..MaxAttempts
  BY <1>1, <1>2
<1>4. p \in Attempts /\ p[1] = j /\ p[2] = n
  BY <1>3 DEF Attempts
<1> HIDE DEF n, p
<1>5. Fits(scenario.policy, p[1], Started(j)) /\ Started(j).pc = "start"
  BY <1>4, StartedFits
<1>6. /\ exec' \in [Attempts -> Execs] /\ Fitting' /\ exec'[p] = Started(j)
      /\ \A q \in Attempts : q # p => exec'[q] = exec[q]
  BY <1>1, <1>4, <1>5, ExecStep
<1>7. /\ attempt' \in [Jobs -> 0..MaxAttempts] /\ attempt'[j] = n
      /\ \A i \in Jobs : i # j => attempt'[i] = attempt[i]
      /\ status'[j] = "running" /\ \A i \in Jobs : i # j => status'[i] = status[i]
      /\ status' \in [Jobs -> Statuses]
  BY <1>1, <1>2, <1>3 DEF Statuses, Unsettled
<1>8. TypeOK'
  BY <1>1, <1>6, <1>7 DEF Sound, TypeOK
<1>9. ASSUME NEW q \in Attempts, q[1] \in Backfills, Owns(q)', exec'[q].pc # "idle"
      PROVE  exec'[q].seen = checkpoints'[q[1]]
  <2>1. CASE q = p
    <3>1. Started(j).seen = checkpoints[j]
      BY <1>4, <1>9, <2>1 DEF Started, Idle
    <3> QED BY <1>1, <1>4, <1>6, <2>1, <3>1
  <2>2. CASE q # p /\ q[1] # j
    <3>1. Owns(q)
      BY <1>7, <1>9, <2>2, Kinds DEF Owns
    <3> QED BY <1>1, <1>6, <1>9, <2>2, <3>1 DEF Sound, Current
  <2>3. CASE q # p /\ q[1] = j
    <3>1. q = <<q[1], q[2]>> /\ p = <<j, n>>
      BY DEF Attempts, p
    <3>2. q[2] = n
      BY <1>7, <1>9, <2>3 DEF Owns
    <3> QED BY <2>3, <3>1, <3>2
  <2> QED BY <2>1, <2>2, <2>3
<1>10. Current'
  BY <1>9 DEF Current
<1>11. \A b \in Backfills : b \in Jobs
  BY DEF Jobs
<1>12. Within' /\ ChunksCountedOnce'
  BY <1>1, <1>7, <1>11 DEF Sound, Within, ChunksCountedOnce
<1> QED BY <1>1, <1>6, <1>8, <1>10, <1>12, StoresSame DEF Sound

\* The summary of a chunk that was not counted before.
LEMMA CountedNext ==
    ASSUME Sound, NEW b \in Backfills, NEW x \in Execs, FitsBackfill(scenario.policy, b, x),
           x.cursor \in Chunks(b), x.cursor \notin x.seen
    PROVE  /\ Counting(x.counted, x.cursor) = Once(x.seen \cup {x.cursor})
           /\ Counting(x.counted, x.cursor) \in Summaries
<1>1. x.counted = Once(x.seen) /\ x.seen \in SUBSET Cursors /\ x.cursor \in Cursors
  BY ChunkType DEF FitsBackfill, Execs
<1>2. Counting(x.counted, x.cursor) = Once(x.seen \cup {x.cursor})
  BY <1>1, CountingOnce
<1> QED BY <1>2, OnceType

\* An attempt that ends with an exception: a quality failure reports the
\* chunks of its row and one more.
LEMMA FailedStep ==
    ASSUME Sound, NEW p \in Attempts, NEW terminal \in BOOLEAN, NEW counts \in Summaries,
           Failed(p, terminal, counts),
           p[1] \in Backfills /\ terminal =>
               \E c \in Chunks(p[1]) \ checkpoints[p[1]] :
                   counts = Once(checkpoints[p[1]] \cup {c})
    PROVE  Sound'
<1> DEFINE j == p[1]
           s == IF terminal THEN "failed"
                ELSE IF p[2] = MaxAttempts THEN "exhausted" ELSE "retrying"
<1>1. /\ exec' = [exec EXCEPT ![p] = Idle]
      /\ UNCHANGED <<scenario, table, quarantine, online, published, attempt>>
      /\ UNCHANGED <<checkpoints, summary>>
      /\ Owns(p) => /\ status' = [status EXCEPT ![j] = s]
                    /\ result' = IF j \in Backfills THEN [result EXCEPT ![j] = counts]
                                 ELSE result
      /\ ~Owns(p) => UNCHANGED <<status, result>>
  BY DEF Failed, stores
<1>2. /\ exec' \in [Attempts -> Execs] /\ Fitting' /\ exec'[p].pc = "idle"
      /\ \A q \in Attempts : q # p => exec'[q] = exec[q]
  BY <1>1, EndedFits
<1>3. j \in Jobs /\ \A b \in Backfills : b \in Jobs
  BY Kinds DEF Jobs
<1>4. /\ s \in {"failed", "exhausted", "retrying"} /\ (s = "failed" <=> terminal)
  OBVIOUS
<1> HIDE DEF s
<1>5. /\ status' \in [Jobs -> Statuses] /\ \A i \in Jobs : i # j => status'[i] = status[i]
      /\ Owns(p) => status'[j] = s
      /\ ~Owns(p) => status'[j] = status[j]
  BY <1>1, <1>3, <1>4 DEF Sound, TypeOK, Statuses, Unsettled
<1>6. /\ result' \in [Backfills -> Summaries]
      /\ \A b \in Backfills : b # j \/ ~Owns(p) => result'[b] = result[b]
      /\ Owns(p) /\ j \in Backfills => result'[j] = counts
  BY <1>1 DEF Sound, TypeOK
<1>7. TypeOK'
  BY <1>1, <1>2, <1>5, <1>6 DEF Sound, TypeOK
<1>8. ASSUME NEW q \in Attempts PROVE Owns(q)' => Owns(q)
  BY <1>1, <1>4, <1>5, Kinds DEF Owns
<1>9. Current'
  BY <1>1, <1>2, <1>8 DEF Sound, Current
<1>10. Within'
  BY <1>1 DEF Sound, Within
<1>11. ASSUME NEW b \in Backfills
       PROVE  /\ summary'[b] = Once(checkpoints'[b])
              /\ status'[b] = "succeeded" => result'[b] = Once(Chunks(b))
              /\ status'[b] = "failed" =>
                   \E c \in Chunks(b) \ checkpoints'[b] :
                       result'[b] = Once(checkpoints'[b] \cup {c})
  <2>1. /\ summary[b] = Once(checkpoints[b])
        /\ status[b] = "succeeded" => result[b] = Once(Chunks(b))
        /\ status[b] = "failed" =>
             \E c \in Chunks(b) \ checkpoints[b] : result[b] = Once(checkpoints[b] \cup {c})
    BY DEF Sound, ChunksCountedOnce
  <2>2. CASE b # j \/ ~Owns(p)
    BY <1>1, <1>3, <1>5, <1>6, <2>1, <2>2
  <2>3. CASE b = j /\ Owns(p)
    BY <1>1, <1>4, <1>5, <1>6, <2>1, <2>3
  <2> QED BY <2>2, <2>3
<1>12. ChunksCountedOnce'
  BY <1>11 DEF ChunksCountedOnce
<1> QED BY <1>1, <1>2, <1>7, <1>9, <1>10, <1>12, StoresSame DEF Sound

LEMMA FailureSteps ==
    ASSUME Sound, NEW p \in Attempts,
           AddRefused(p) \/ RejectChunk(p) \/ RejectAppend(p) \/ ScanFails(p)
    PROVE  Sound'
<1>1. CASE AddRefused(p) \/ ScanFails(p)
  <2>1. Failed(p, FALSE, Nothing)
    BY <1>1 DEF AddRefused, ScanFails
  <2> QED BY <2>1, NothingOnce, FailedStep
<1>2. CASE RejectAppend(p)
  <2>1. Failed(p, TRUE, Nothing) /\ p[1] \notin Backfills
    BY <1>2, Kinds DEF RejectAppend
  <2> QED BY <2>1, NothingOnce, FailedStep
<1>3. CASE RejectChunk(p)
  <2> DEFINE x == exec[p]
             counts == Counting(x.counted, x.cursor)
  <2>1. AtChunk(p) /\ x.cursor \notin x.seen /\ Failed(p, TRUE, counts)
    BY <1>3 DEF RejectChunk
  <2>2. /\ p[1] \in Backfills /\ x \in Execs /\ FitsBackfill(scenario.policy, p[1], x)
        /\ x.cursor \in Chunks(p[1]) /\ x.seen = checkpoints[p[1]]
    BY <2>1, AtChunkFacts
  <2>3. counts = Once(x.seen \cup {x.cursor}) /\ counts \in Summaries
    BY <2>1, <2>2, CountedNext
  <2> HIDE DEF counts
  <2>4. \E c \in Chunks(p[1]) \ checkpoints[p[1]] :
            counts = Once(checkpoints[p[1]] \cup {c})
    BY <2>1, <2>2, <2>3
  <2> QED BY <2>1, <2>3, <2>4, FailedStep
<1> QED BY <1>1, <1>2, <1>3

\* A chunk's checkpoint.
LEMMA CheckpointStep ==
    ASSUME Sound, NEW p \in Attempts, Checkpoint(p)
    PROVE  Sound'
<1> DEFINE x == exec[p]
           b == p[1]
           seen == x.seen \cup {x.cursor}
           counted == Counting(x.counted, x.cursor)
           y == [x EXCEPT !.pc = "start", !.seen = seen, !.counted = counted,
                          !.cursor = ChunkEnd(b, x.cursor)]
<1>1. /\ x.pc = "checkpoint" /\ Owns(p)
      /\ UNCHANGED <<scenario, table, quarantine, online, published, status, attempt, result>>
      /\ checkpoints' = [checkpoints EXCEPT ![b] = seen]
      /\ summary' = [summary EXCEPT ![b] = counted]
  BY DEF Checkpoint, Checkpointed, stores
<1>2. Fits(scenario.policy, b, x) /\ x \in Execs
  BY FitsNow
<1>3. b \in Backfills /\ b \notin Appends /\ FitsBackfill(scenario.policy, b, x)
  BY <1>1, <1>2, Kinds DEF Fits
<1>4. x.cursor \in Chunks(b) /\ x.cursor \notin x.seen /\ x.seen = checkpoints[b]
  BY <1>1, <1>3 DEF FitsBackfill, Body, Sound, Current
<1>5. counted = Once(seen) /\ counted \in Summaries
  BY <1>2, <1>3, <1>4, CountedNext
<1>6. seen \subseteq Chunks(b) /\ seen \in SUBSET Cursors
  BY <1>3, <1>4, ChunkType DEF FitsBackfill
<1>7. checkpoints \in [Backfills -> SUBSET Cursors] /\ summary \in [Backfills -> Summaries]
  BY DEF Sound, TypeOK
<1>8. /\ checkpoints' \in [Backfills -> SUBSET Cursors] /\ summary' \in [Backfills -> Summaries]
      /\ checkpoints'[b] = seen /\ summary'[b] = counted
      /\ \A a \in Backfills : a # b => /\ checkpoints'[a] = checkpoints[a]
                                       /\ summary'[a] = summary[a]
  BY <1>1, <1>3, <1>5, <1>6, <1>7
<1>9. exec' = [exec EXCEPT ![p] = y]
  <2>1. exec' = [exec EXCEPT ![p] =
                   [x EXCEPT !.pc = "start", !.seen = checkpoints'[b], !.counted = summary'[b],
                             !.cursor = ChunkEnd(b, x.cursor)]]
    BY DEF Checkpoint
  <2> QED BY <2>1, <1>8
<1>10. /\ ChunkEnd(b, x.cursor) \in Chunks(b) \cup {End[b]}
       /\ ChunkEnd(b, x.cursor) \in Nat
       /\ \A d \in Chunks(b) : d < ChunkEnd(b, x.cursor) => d <= x.cursor
  BY <1>3, <1>4, NextChunk
<1> HIDE DEF counted
<1>11. /\ y \in Execs /\ y.pc = "start" /\ y.keep = x.keep
       /\ y.cursor = ChunkEnd(b, x.cursor) /\ y.seen = seen /\ y.counted = counted
       /\ y.rows = x.rows /\ y.into = x.into
  BY <1>2, <1>5, <1>6, <1>10 DEF Execs, PCs
<1> HIDE DEF y
<1>12. \A c \in Chunks(b) : c < y.cursor => c \in y.seen
  <2>1. \A c \in Chunks(b) : c \in Nat
    BY <1>3, ChunkType
  <2>2. \A c \in Chunks(b) : c < x.cursor => c \in x.seen
    BY <1>3 DEF FitsBackfill
  <2> QED BY <1>4, <1>10, <1>11, <2>1, <2>2
<1>13. FitsBackfill(scenario.policy, b, y)
  BY <1>5, <1>6, <1>10, <1>11, <1>12 DEF FitsBackfill, Body
<1>14. Fits(scenario.policy, b, y)
  BY <1>2, <1>3, <1>11, <1>13 DEF Fits
<1>15. /\ exec' \in [Attempts -> Execs] /\ Fitting' /\ exec'[p] = y
       /\ \A q \in Attempts : q # p => exec'[q] = exec[q]
  BY <1>1, <1>9, <1>14, ExecStep
<1>16. TypeOK'
  BY <1>1, <1>8, <1>15 DEF Sound, TypeOK
<1>17. ASSUME NEW q \in Attempts, q[1] \in Backfills, Owns(q)', exec'[q].pc # "idle"
       PROVE  exec'[q].seen = checkpoints'[q[1]]
  <2>1. Owns(q)
    BY <1>1, <1>17 DEF Owns
  <2>2. CASE q = p
    BY <1>8, <1>11, <1>15, <2>2
  <2>3. CASE q # p /\ q[1] # b
    BY <1>8, <1>15, <1>17, <2>1, <2>3 DEF Sound, Current
  <2>4. CASE q # p /\ q[1] = b
    <3>1. q[2] = p[2]
      BY <1>1, <2>1, <2>4 DEF Owns
    <3>2. q = <<q[1], q[2]>> /\ p = <<p[1], p[2]>>
      BY DEF Attempts
    <3> QED BY <2>4, <3>1, <3>2
  <2> QED BY <2>2, <2>3, <2>4
<1>18. Current'
  BY <1>17 DEF Current
<1>19. Within'
  BY <1>6, <1>8 DEF Sound, Within
<1>20. status[b] = "running"
  BY <1>1 DEF Owns
<1>21. ASSUME NEW a \in Backfills
       PROVE  /\ summary'[a] = Once(checkpoints'[a])
              /\ status'[a] = "succeeded" => result'[a] = Once(Chunks(a))
              /\ status'[a] = "failed" =>
                   \E c \in Chunks(a) \ checkpoints'[a] :
                       result'[a] = Once(checkpoints'[a] \cup {c})
  BY <1>1, <1>5, <1>8, <1>20 DEF Sound, ChunksCountedOnce
<1>22. ChunksCountedOnce'
  BY <1>21 DEF ChunksCountedOnce
<1> QED BY <1>1, <1>15, <1>16, <1>18, <1>19, <1>22, StoresSame DEF Sound

\* A success.
LEMMA SucceedStep ==
    ASSUME Sound, NEW p \in Attempts, Succeed(p)
    PROVE  Sound'
<1> DEFINE x == exec[p]
           j == p[1]
<1>1. /\ Done(p) /\ Owns(p) /\ exec' = [exec EXCEPT ![p] = Idle]
      /\ status' = [status EXCEPT ![j] = "succeeded"]
      /\ result' = IF j \in Backfills THEN [result EXCEPT ![j] = x.counted] ELSE result
      /\ UNCHANGED <<scenario, table, quarantine, online, attempt, checkpoints, summary>>
  BY DEF Succeed, stores
<1>2. Fits(scenario.policy, j, x) /\ x \in Execs
  BY FitsNow
<1>3. j \in Jobs /\ \A b \in Backfills : b \in Jobs
  BY Kinds DEF Jobs
<1>4. /\ exec' \in [Attempts -> Execs] /\ Fitting' /\ exec'[p].pc = "idle"
      /\ \A q \in Attempts : q # p => exec'[q] = exec[q]
  BY <1>1, EndedFits
<1>5. published' \in [watermark : Nat, source_freshness_at : Nat]
  <2>1. published \in [watermark : Nat, source_freshness_at : Nat]
    BY DEF Sound, TypeOK
  <2>2. CASE j \notin Incrementals
    BY <1>1, <2>1, <2>2 DEF Succeed
  <2>3. CASE j \in Incrementals
    <3>1. EventTimes(p) \subseteq Nat
      <4>1. \A r \in Rows : r.event_timestamp \in Nat
        BY ViewAssumption DEF RowType
      <4> QED BY <1>2, <2>1, <4>1 DEF EventTimes, Execs
    <3>2. End[j] \in Nat
      BY <2>3, PayloadAssumption DEF Materializations
    <3>3. PICK newest \in EventTimes(p) :
            published' = [watermark |-> End[j], source_freshness_at |-> newest]
      BY <2>3 DEF Succeed
    <3> QED BY <3>1, <3>2, <3>3
  <2> QED BY <2>2, <2>3
<1>6. /\ status' \in [Jobs -> Statuses] /\ status'[j] = "succeeded"
      /\ \A i \in Jobs : i # j => status'[i] = status[i]
  BY <1>1, <1>3 DEF Sound, TypeOK, Statuses
<1>7. x.counted \in Summaries
  BY <1>2 DEF Execs
<1>8. /\ result' \in [Backfills -> Summaries]
      /\ \A b \in Backfills : b # j => result'[b] = result[b]
      /\ j \in Backfills => result'[j] = x.counted
  BY <1>1, <1>7 DEF Sound, TypeOK
<1>9. TypeOK'
  BY <1>1, <1>4, <1>5, <1>6, <1>8 DEF Sound, TypeOK
<1>10. ASSUME NEW q \in Attempts PROVE Owns(q)' => Owns(q)
  BY <1>1, <1>6, Kinds DEF Owns
<1>11. Current'
  BY <1>1, <1>4, <1>10 DEF Sound, Current
<1>12. Within'
  BY <1>1 DEF Sound, Within
<1>13. ASSUME j \in Backfills PROVE x.counted = Once(Chunks(j))
  <2>1. x.pc # "idle"
    BY <1>1 DEF Done
  <2>2. FitsBackfill(scenario.policy, j, x)
    BY <1>2, <1>13, <2>1 DEF Fits
  <2>3. x.cursor >= End[j] /\ x.cursor \in Nat
    BY <1>1, <1>2, <2>2 DEF Done, FitsBackfill, Body, Execs
  <2>4. \A c \in Chunks(j) : c < x.cursor
    BY <1>13, <2>3, ChunkType, PayloadRange
  <2>5. x.seen = Chunks(j)
    BY <2>2, <2>4 DEF FitsBackfill
  <2> QED BY <2>2, <2>5 DEF FitsBackfill
<1>14. ASSUME NEW b \in Backfills
       PROVE  /\ summary'[b] = Once(checkpoints'[b])
              /\ status'[b] = "succeeded" => result'[b] = Once(Chunks(b))
              /\ status'[b] = "failed" =>
                   \E c \in Chunks(b) \ checkpoints'[b] :
                       result'[b] = Once(checkpoints'[b] \cup {c})
  <2>1. CASE b = j
    <3>1. summary'[b] = Once(checkpoints'[b])
      BY <1>1 DEF Sound, ChunksCountedOnce
    <3> QED BY <2>1, <3>1, <1>6, <1>8, <1>13
  <2>2. CASE b # j
    BY <1>1, <1>3, <1>6, <1>8, <2>2 DEF Sound, ChunksCountedOnce
  <2> QED BY <2>1, <2>2
<1>15. ChunksCountedOnce'
  BY <1>14 DEF ChunksCountedOnce
<1> QED BY <1>1, <1>4, <1>9, <1>11, <1>12, <1>15, StoresSame DEF Sound

-----------------------------------------------------------------------------
(* Steps by what they change *)

\* A step that writes no table and at most begins, ends or moves on an attempt.
Calm ==
    /\ UNCHANGED <<scenario, table, quarantine, checkpoints>>
    /\ \/ exec' = exec
       \/ \E p \in Attempts :
            /\ exec'[p].pc \in {"idle", "start"}
            /\ \A q \in Attempts : q # p => exec'[q] = exec[q]

\* The steps of a materialization between its claim and its success.
Reading(p) == Scan(p) \/ CheckUpsert(p) \/ \E r \in exec[p].due : UpsertRow(p, r)

\* The steps in which a backfill or an append works on a table.
Working(p) ==
    \/ Compare(p) \/ RunChunk(p) \/ Decide(p) \/ Replace(p) \/ Probe(p) \/ Add(p)
    \/ Checkpoint(p)

LEMMA MemoryOf ==
    ASSUME Sound, NEW p \in Attempts, NEW x, exec' = [exec EXCEPT ![p] = x]
    PROVE  exec'[p] = x /\ \A q \in Attempts : q # p => exec'[q] = exec[q]
BY DEF Sound, TypeOK

LEMMA EndCalm ==
    ASSUME Sound, NEW p \in Attempts,
           \/ Crash(p) \/ Lost(p) \/ AddRefused(p) \/ RejectChunk(p) \/ RejectAppend(p)
           \/ ScanFails(p) \/ Succeed(p)
    PROVE  Calm
<1>1. /\ exec' = [exec EXCEPT ![p] = Idle]
      /\ UNCHANGED <<scenario, table, quarantine, checkpoints>>
  <2>1. ASSUME NEW terminal, NEW counts, Failed(p, terminal, counts)
        PROVE  /\ exec' = [exec EXCEPT ![p] = Idle]
               /\ UNCHANGED <<scenario, table, quarantine, checkpoints>>
    BY <2>1 DEF Failed, stores
  <2>2. CASE Crash(p) \/ Lost(p) \/ Succeed(p)
    BY <2>2 DEF Crash, Lost, Succeed, stores, progress
  <2>3. CASE AddRefused(p) \/ RejectAppend(p) \/ ScanFails(p)
    BY <2>1, <2>3 DEF AddRefused, RejectAppend, ScanFails
  <2>4. CASE RejectChunk(p)
    BY <2>1, <2>4 DEF RejectChunk
  <2> QED BY <2>2, <2>3, <2>4
<1>2. exec'[p] = Idle /\ \A q \in Attempts : q # p => exec'[q] = exec[q]
  BY <1>1, MemoryOf
<1>3. Idle.pc \in {"idle", "start"}
  BY DEF Idle
<1> QED BY <1>1, <1>2, <1>3 DEF Calm

LEMMA JobCalm ==
    ASSUME Sound, NEW j \in Jobs, JobStep(j)
    PROVE  Calm
<1>1. CASE Claim(j)
  <2> DEFINE p == <<j, attempt[j] + 1>>
  <2>1. /\ exec' = [exec EXCEPT ![p] = Started(j)] /\ attempt[j] < MaxAttempts
        /\ UNCHANGED <<scenario, table, quarantine, checkpoints>>
    BY <1>1 DEF Claim, stores, progress
  <2>2. attempt[j] \in 0..MaxAttempts /\ MaxAttempts \in Nat
    BY ViewAssumption DEF Sound, TypeOK
  <2>3. p \in Attempts
    BY <2>1, <2>2 DEF Attempts
  <2> HIDE DEF p
  <2>4. exec'[p] = Started(j) /\ \A q \in Attempts : q # p => exec'[q] = exec[q]
    BY <2>1, <2>3, MemoryOf
  <2>5. Started(j).pc = "start"
    BY StartedFits
  <2> QED BY <2>1, <2>3, <2>4, <2>5 DEF Calm
<1>2. CASE Submit(j) \/ Exhaust(j) \/ Cancel(j) \/ \E r \in Rows : Ingest(j, r)
  BY <1>2 DEF Submit, Exhaust, Cancel, Ingest, Calm, stores, progress
<1> QED BY <1>1, <1>2 DEF JobStep

LEMMA SkipCalm ==
    ASSUME Sound, NEW p \in Attempts, SkipChunk(p)
    PROVE  Calm
<1> DEFINE x == exec[p]
           y == [x EXCEPT !.cursor = ChunkEnd(p[1], x.cursor)]
<1>1. /\ x.pc = "start" /\ exec' = [exec EXCEPT ![p] = y]
      /\ UNCHANGED <<scenario, table, quarantine, checkpoints>>
  BY DEF SkipChunk, AtChunk, stores, progress
<1>2. y.pc = x.pc
  BY FitsNow DEF Execs
<1> HIDE DEF y
<1>3. exec'[p] = y /\ \A q \in Attempts : q # p => exec'[q] = exec[q]
  BY <1>1, MemoryOf
<1> QED BY <1>1, <1>2, <1>3 DEF Calm

\* Only materializations read, and they write no table.
LEMMA ReadingFacts ==
    ASSUME Sound, NEW p \in Attempts, Reading(p)
    PROVE  /\ p[1] \in Materializations
           /\ exec'[p].pc \in {"checking", "upserting", "finish"}
           /\ UNCHANGED <<scenario, table, quarantine, checkpoints>>
<1>1. p[1] \in Materializations
  BY FitsNow DEF Reading, Scan, CheckUpsert, UpsertRow, Fits
<1>2. UNCHANGED <<scenario, table, quarantine, checkpoints>>
  BY DEF Reading, Scan, CheckUpsert, UpsertRow, stores, progress
<1>3. CASE Scan(p)
  <2> DEFINE rows == LoadRange(table, ScanStart(p[1]), End[p[1]])
             pc == IF rows = {} THEN "finish" ELSE "checking"
             y == [exec[p] EXCEPT !.rows = rows, !.due = Latest(rows), !.pc = pc]
  <2>1. exec' = [exec EXCEPT ![p] = y]
    BY <1>3 DEF Scan
  <2>2. pc \in {"finish", "checking"}
    OBVIOUS
  <2> HIDE DEF rows, pc
  <2>3. y.pc = pc
    BY FitsNow DEF Execs
  <2> HIDE DEF y
  <2> QED BY <1>1, <1>2, <2>1, <2>2, <2>3, MemoryOf
<1>4. CASE CheckUpsert(p)
  <2> DEFINE y == [exec[p] EXCEPT !.pc = "upserting"]
  <2>1. exec' = [exec EXCEPT ![p] = y]
    BY <1>4 DEF CheckUpsert
  <2>2. y.pc = "upserting"
    BY FitsNow DEF Execs
  <2> HIDE DEF y
  <2> QED BY <1>1, <1>2, <2>1, <2>2, MemoryOf
<1>5. ASSUME NEW r \in exec[p].due, UpsertRow(p, r)
      PROVE  exec'[p].pc \in {"checking", "upserting", "finish"}
  <2> DEFINE pc == IF exec[p].due = {r} THEN "finish" ELSE "checking"
             y == [exec[p] EXCEPT !.due = exec[p].due \ {r}, !.pc = pc]
  <2>1. exec' = [exec EXCEPT ![p] = y]
    BY <1>5 DEF UpsertRow
  <2>2. pc \in {"finish", "checking"}
    OBVIOUS
  <2> HIDE DEF pc
  <2>3. y.pc = pc
    BY FitsNow DEF Execs
  <2> HIDE DEF y
  <2> QED BY <2>1, <2>2, <2>3, MemoryOf
<1> QED BY <1>1, <1>2, <1>3, <1>4, <1>5 DEF Reading

\* Every step is of one of three kinds.
LEMMA StepKinds ==
    ASSUME Sound, [Next]_vars
    PROVE  Calm \/ \E p \in Attempts : Reading(p) \/ Working(p)
<1>1. CASE UNCHANGED vars
  BY <1>1 DEF vars, Calm
<1>2. CASE \E j \in Jobs : JobStep(j)
  BY <1>2, JobCalm
<1>3. ASSUME NEW p \in Attempts,
             Crash(p) \/ Lost(p) \/ WriteStep(p) \/ BodyStep(p) \/ Succeed(p)
      PROVE  Calm \/ Reading(p) \/ Working(p)
  BY <1>3, EndCalm, SkipCalm DEF WriteStep, BodyStep, Reading, Working
<1> QED BY <1>1, <1>2, <1>3 DEF Next

\* A step of one attempt's body leaves the jobs and the others' memory alone.
LEMMA BodySteps ==
    ASSUME Sound, NEW p \in Attempts, Reading(p) \/ Working(p)
    PROVE  /\ UNCHANGED <<scenario, published, status, attempt>>
           /\ \A q \in Attempts : q # p => exec'[q] = exec[q]
<1>1. PICK x : exec' = [exec EXCEPT ![p] = x]
  BY DEF Reading, Working, Scan, CheckUpsert, UpsertRow, Compare, RunChunk, Decide, Replace,
         Probe, Add, Commits, Checkpoint
<1>2. UNCHANGED <<scenario, published, status, attempt>>
  BY DEF Reading, Working, Scan, CheckUpsert, UpsertRow, Compare, RunChunk, Decide, Replace,
         Probe, Add, Commits, Checkpoint
<1> QED BY <1>1, <1>2, MemoryOf

-----------------------------------------------------------------------------
(* The theorems *)

LEMMA SoundInit == Init => Sound
<1> SUFFICES ASSUME Init PROVE Sound
  OBVIOUS
<1>1. \A p \in Attempts : exec[p] = Idle
  BY DEF Init
<1>2. Idle \in Execs
  BY IdleFits DEF Fits
<1>3. Seed \in SUBSET Rows
  BY PayloadAssumption
<1>4. /\ Appended(NoTable, Seed) \in Tables
      /\ Appended(NoTable, Seed).rows = Plus(NoRows, Seed)
  BY <1>3, BagType, AppendedRows DEF NoTable
<1>5. /\ \A r \in Rows : NoRows[r] > 0 => Admitted(scenario.policy, r)
      /\ \A r \in Seed : Admitted(scenario.policy, r)
  BY DEF NoRows, Admitted
<1>6. \A r \in Rows : Plus(NoRows, Seed)[r] > 0 => Admitted(scenario.policy, r)
  BY <1>3, <1>5, BagType, PlusAdmitted
<1>7. table \in Tables
  BY <1>4, BagType DEF Init
<1>8. \A r \in Rows : table.rows[r] > 0 => Admitted(scenario.policy, r)
  <2>1. CASE scenario.exists
    BY <1>4, <1>6, <2>1 DEF Init
  <2>2. CASE ~scenario.exists
    BY <1>5, <2>2 DEF Init, NoTable
  <2> QED BY <2>1, <2>2
<1>9. 0 \in 0..MaxAttempts
  BY ViewAssumption
<1>10. TypeOK
  <2>1. quarantine \in [Backfills -> Tables] /\ exec \in [Attempts -> Execs]
    BY <1>2, BagType DEF Init
  <2>2. summary \in [Backfills -> Summaries] /\ result \in [Backfills -> Summaries]
    BY NothingOnce DEF Init
  <2> QED BY <1>7, <1>9, <2>1, <2>2 DEF Init, TypeOK, Statuses
<1>11. Fitting
  BY <1>1, IdleFits DEF Fitting
<1>12. Current
  BY <1>1 DEF Current, Idle
<1>13. Within
  BY DEF Init, Within
<1>14. OnlyAdmittedRows
  BY <1>8 DEF OnlyAdmittedRows, Load
<1>15. ChunksCountedOnce
  <2>1. \A b \in Backfills : b \in Jobs
    BY DEF Jobs
  <2> QED BY <2>1, NothingOnce DEF Init, ChunksCountedOnce
<1> QED BY <1>10, <1>11, <1>12, <1>13, <1>14, <1>15 DEF Sound

LEMMA SoundNext == Sound /\ [Next]_vars => Sound'
<1> SUFFICES ASSUME Sound, [Next]_vars PROVE Sound'
  OBVIOUS
<1>1. ASSUME NEW j \in Jobs, JobStep(j) PROVE Sound'
  BY <1>1, IngestStep, ClaimStep, JobStatusSteps DEF JobStep
<1>2. ASSUME NEW p \in Attempts, WriteStep(p) PROVE Sound'
  BY <1>2, DecideStep, ReplaceStep, ProbeStep, AddStep, FailureSteps DEF WriteStep
<1>3. ASSUME NEW p \in Attempts, BodyStep(p) PROVE Sound'
  BY <1>3, SkipChunkStep, RunChunkStep, CheckpointStep, CompareStep, ScanStep,
     CheckUpsertStep, UpsertRowStep, FailureSteps DEF BodyStep
<1>4. ASSUME NEW p \in Attempts, Crash(p) \/ Lost(p) \/ Succeed(p) PROVE Sound'
  BY <1>4, EndStep, SucceedStep
<1>5. CASE UNCHANGED vars
  <2>1. \A p \in Attempts : Owns(p)' <=> Owns(p)
    BY <1>5 DEF vars, Owns
  <2>2. TypeOK' /\ Fitting' /\ Within' /\ ChunksCountedOnce' /\ OnlyAdmittedRows'
    BY <1>5 DEF vars, Sound, TypeOK, Fitting, Within, ChunksCountedOnce, OnlyAdmittedRows, Load
  <2>3. Current'
    BY <1>5, <2>1 DEF vars, Sound, Current
  <2> QED BY <2>2, <2>3 DEF Sound
<1> QED BY <1>1, <1>2, <1>3, <1>4, <1>5 DEF Next

LEMMA AlwaysSound == Spec => []Sound
BY SoundInit, SoundNext, PTL DEF Spec

\* The stores, the jobs and the memory of every attempt have their types.
THEOREM TypeCorrect == Spec => []TypeOK
<1>1. Sound => TypeOK
  BY DEF Sound
<1> QED BY <1>1, AlwaysSound, PTL

\* No interleaving of crashed, overtaken or cancelled attempts brings a row into
\* the view that neither a staging table nor a backfill's quality policy let in
\* (_backfill's reject and quarantine branches, _unseen_rows).
THEOREM RowsAdmitted == Spec => []OnlyAdmittedRows
<1>1. Sound => OnlyAdmittedRows
  BY DEF Sound
<1> QED BY <1>1, AlwaysSound, PTL

\* The quality summaries of checkpoints and results count each chunk once
\* (_quality_summary and _has_backfill_checkpoint across attempts).
THEOREM SummariesExact == Spec => []ChunksCountedOnce
<1>1. Sound => ChunksCountedOnce
  BY DEF Sound
<1> QED BY <1>1, AlwaysSound, PTL

=============================================================================
