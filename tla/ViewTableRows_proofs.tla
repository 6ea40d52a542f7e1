------------------------ MODULE ViewTableRows_proofs ------------------------
(***************************************************************************)
(* Theorems about which rows a view holds, row by row: what a backfill     *)
(* leaves alone, what an append adds, and what a checkpoint promises.      *)
(*                                                                         *)
(* Writers decide what to write from reads that others may outdate, so     *)
(* each theorem has an invariant that says, for every step of a body, what *)
(* still holds of the row when the attempt acts on what it read.  Scoped   *)
(* limits the attempts that may act at all: those of submitted jobs, and   *)
(* one at a time of a job whose lease nobody takes over.                   *)
(***************************************************************************)
EXTENDS ViewTable_proofs

-----------------------------------------------------------------------------
(* Which attempts are live *)

Live(p) == exec[p].pc # "idle"

\* No two attempts of the job run at one time.
Single(j) ==
    \A p \in Attempts : p[1] = j /\ Live(p) =>
        p[2] = attempt[j] /\ status[j] \notin {"pending", "retrying"}

Scoped ==
    /\ \A j \in Jobs : status[j] # "absent" => j \in scenario.jobs
    /\ \A p \in Attempts : Live(p) => status[p[1]] # "absent"
    /\ \A j \in Jobs \ scenario.overtaken : Single(j)

LEMMA OnlyOne ==
    ASSUME Scoped, NEW p \in Attempts, NEW q \in Attempts, Live(p), Live(q),
           p[1] = q[1], p[1] \notin scenario.overtaken
    PROVE  p = q
<1>1. p[1] \in Jobs \ scenario.overtaken
  BY Kinds
<1>2. p[2] = q[2]
  BY <1>1 DEF Scoped, Single
<1> QED BY <1>2 DEF Attempts

\* Steps that begin no attempt and put no job back into the queue under one.
LEMMA ScopedKept ==
    ASSUME Scoped, UNCHANGED <<scenario, attempt>>,
           \A q \in Attempts : exec'[q].pc # "idle" => Live(q),
           \A j \in Jobs :
               \/ status'[j] = status[j]
               \/ /\ status[j] # "absent"
                  /\ status'[j] \notin {"absent", "pending"}
                  /\ status'[j] = "retrying" /\ j \notin scenario.overtaken =>
                        \A q \in Attempts : q[1] = j => exec'[q].pc = "idle"
    PROVE  Scoped'
<1>1. \A j \in Jobs : status'[j] # "absent" => j \in scenario'.jobs
  BY DEF Scoped
<1>2. \A q \in Attempts : exec'[q].pc # "idle" => status'[q[1]] # "absent"
  BY Kinds DEF Scoped
<1>3. ASSUME NEW j \in Jobs \ scenario.overtaken, NEW q \in Attempts, q[1] = j,
             exec'[q].pc # "idle"
      PROVE  q[2] = attempt'[j] /\ status'[j] \notin {"pending", "retrying"}
  BY <1>3 DEF Scoped, Single
<1> QED BY <1>1, <1>2, <1>3 DEF Scoped, Single, Live

LEMMA EndScoped ==
    ASSUME Sound, Scoped, NEW p \in Attempts,
           \/ Crash(p) \/ Lost(p) \/ AddRefused(p) \/ RejectChunk(p) \/ RejectAppend(p)
           \/ ScanFails(p) \/ Succeed(p)
    PROVE  Scoped'
<1> DEFINE j == p[1]
<1>1. /\ exec' = [exec EXCEPT ![p] = Idle] /\ UNCHANGED <<scenario, attempt>>
      /\ \/ status' = status
         \/ /\ Owns(p)
            /\ \E s \in {"failed", "exhausted", "retrying", "succeeded"} :
                  status' = [status EXCEPT ![j] = s]
  <2>1. ASSUME NEW terminal, NEW counts, Failed(p, terminal, counts)
        PROVE  /\ exec' = [exec EXCEPT ![p] = Idle] /\ UNCHANGED <<scenario, attempt>>
               /\ \/ status' = status
                  \/ /\ Owns(p)
                     /\ \E s \in {"failed", "exhausted", "retrying", "succeeded"} :
                           status' = [status EXCEPT ![j] = s]
    BY <2>1 DEF Failed, stores
  <2>2. CASE Crash(p) \/ Lost(p) \/ Succeed(p)
    BY <2>2 DEF Crash, Lost, Succeed, stores, progress
  <2>3. CASE AddRefused(p) \/ RejectAppend(p) \/ ScanFails(p)
    BY <2>1, <2>3 DEF AddRefused, RejectAppend, ScanFails
  <2>4. CASE RejectChunk(p)
    BY <2>1, <2>4 DEF RejectChunk
  <2> QED BY <2>2, <2>3, <2>4
<1>2. exec'[p] = Idle /\ \A q \in Attempts : q # p => exec'[q] = exec[q]
  BY <1>1, MemoryOf
<1>3. exec'[p].pc = "idle"
  BY <1>2 DEF Idle
<1>4. \A q \in Attempts : exec'[q].pc # "idle" => Live(q)
  BY <1>2, <1>3 DEF Live
<1>5. j \in Jobs /\ status \in [Jobs -> Statuses]
  BY Kinds DEF Sound, TypeOK
<1>6. CASE status' = status
  BY <1>1, <1>4, <1>6, ScopedKept
<1>7. ASSUME Owns(p), NEW s \in {"failed", "exhausted", "retrying", "succeeded"},
             status' = [status EXCEPT ![j] = s]
      PROVE  Scoped'
  <2>1. status'[j] = s /\ \A i \in Jobs : i # j => status'[i] = status[i]
    BY <1>5, <1>7
  <2>2. status[j] = "running" /\ attempt[j] = p[2]
    BY <1>7 DEF Owns
  <2>3. ASSUME j \notin scenario.overtaken, NEW q \in Attempts, q[1] = j
        PROVE  exec'[q].pc = "idle"
    <3>1. CASE q = p
      BY <1>3, <3>1
    <3>2. CASE q # p
      <4>1. q[2] # p[2]
        BY <2>3, <3>2 DEF Attempts
      <4>2. ~Live(q)
        BY <1>5, <2>2, <2>3, <4>1 DEF Scoped, Single
      <4> QED BY <1>2, <3>2, <4>2 DEF Live
    <3> QED BY <3>1, <3>2
  <2> QED BY <1>1, <1>4, <2>1, <2>2, <2>3, ScopedKept
<1> QED BY <1>1, <1>6, <1>7

LEMMA ClaimScoped ==
    ASSUME Sound, Scoped, NEW j \in Jobs, Claim(j)
    PROVE  Scoped'
<1> DEFINE n == attempt[j] + 1
           p == <<j, n>>
<1>1. /\ Claimable(j) /\ attempt[j] < MaxAttempts /\ scenario' = scenario
      /\ status' = [status EXCEPT ![j] = "running"]
      /\ attempt' = [attempt EXCEPT ![j] = n]
      /\ exec' = [exec EXCEPT ![p] = Started(j)]
  BY DEF Claim
<1>2. /\ attempt \in [Jobs -> 0..MaxAttempts] /\ status \in [Jobs -> Statuses]
      /\ MaxAttempts \in Nat
  BY ViewAssumption DEF Sound, TypeOK
<1>3. p \in Attempts /\ p[1] = j /\ p[2] = n
  BY <1>1, <1>2 DEF Attempts
<1> HIDE DEF n, p
<1>4. \A q \in Attempts : q # p => exec'[q] = exec[q]
  BY <1>1, <1>3, MemoryOf
<1>5. /\ status'[j] = "running" /\ attempt'[j] = n
      /\ \A i \in Jobs : i # j => status'[i] = status[i] /\ attempt'[i] = attempt[i]
  BY <1>1, <1>2
<1>6. status[j] # "absent"
  BY <1>1 DEF Claimable
<1>7. ASSUME j \notin scenario.overtaken, NEW q \in Attempts, q[1] = j PROVE ~Live(q)
  <2>1. SUFFICES ASSUME Live(q) PROVE FALSE
    OBVIOUS
  <2>2. q[2] = attempt[j] /\ status[j] \notin {"pending", "retrying"}
    BY <1>7, <2>1 DEF Scoped, Single
  <2>3. q = <<j, attempt[j]>>
    BY <1>7, <2>2 DEF Attempts
  <2>4. exec[<<j, attempt[j]>>].pc = "idle"
    BY <1>1, <1>7, <2>2 DEF Claimable
  <2> QED BY <2>1, <2>3, <2>4 DEF Live
<1>8. ASSUME NEW i \in Jobs \ scenario.overtaken, NEW q \in Attempts, q[1] = i,
             exec'[q].pc # "idle"
      PROVE  q[2] = attempt'[i] /\ status'[i] \notin {"pending", "retrying"}
  <2>1. CASE i # j
    BY <1>3, <1>4, <1>5, <1>8, <2>1 DEF Scoped, Single, Live
  <2>2. CASE i = j /\ q = p
    BY <1>3, <1>5, <2>2
  <2>3. CASE i = j /\ q # p
    BY <1>4, <1>7, <1>8, <2>3 DEF Live
  <2> QED BY <2>1, <2>2, <2>3
<1>9. \A q \in Attempts : exec'[q].pc # "idle" => status'[q[1]] # "absent"
  BY <1>3, <1>4, <1>5, Kinds DEF Scoped, Live
<1>10. \A i \in Jobs : status'[i] # "absent" => i \in scenario'.jobs
  BY <1>1, <1>5, <1>6 DEF Scoped
<1> QED BY <1>1, <1>8, <1>9, <1>10 DEF Scoped, Single, Live

LEMMA JobScoped ==
    ASSUME Sound, Scoped, NEW j \in Jobs, JobStep(j)
    PROVE  Scoped'
<1>1. status \in [Jobs -> Statuses]
  BY DEF Sound, TypeOK
<1>2. CASE \E r \in Rows : Ingest(j, r)
  BY <1>2, ScopedKept DEF Ingest, Live
<1>3. CASE Submit(j)
  <2>1. /\ j \in scenario.jobs /\ status[j] = "absent"
        /\ status' = [status EXCEPT ![j] = "pending"]
        /\ UNCHANGED <<scenario, attempt, exec>>
    BY <1>3 DEF Submit
  <2>2. status'[j] = "pending" /\ \A i \in Jobs : i # j => status'[i] = status[i]
    BY <1>1, <2>1
  <2>3. \A q \in Attempts : Live(q) => q[1] # j
    BY <2>1 DEF Scoped
  <2>4. \A q \in Attempts : exec'[q].pc # "idle" => status'[q[1]] # "absent"
    BY <2>1, <2>2, <2>3, Kinds DEF Scoped, Live
  <2>5. \A i \in Jobs : status'[i] # "absent" => i \in scenario'.jobs
    BY <2>1, <2>2 DEF Scoped
  <2>6. ASSUME NEW i \in Jobs \ scenario.overtaken, NEW q \in Attempts, q[1] = i,
               exec'[q].pc # "idle"
        PROVE  q[2] = attempt'[i] /\ status'[i] \notin {"pending", "retrying"}
    BY <2>1, <2>2, <2>3, <2>6 DEF Scoped, Single, Live
  <2> QED BY <2>1, <2>4, <2>5, <2>6 DEF Scoped, Single, Live
<1>4. CASE Exhaust(j) \/ Cancel(j)
  <2>1. /\ UNCHANGED <<scenario, attempt, exec>> /\ status[j] # "absent"
        /\ \E s \in {"exhausted", "cancelled"} : status' = [status EXCEPT ![j] = s]
    BY <1>4 DEF Exhaust, Cancel, Claimable, Unsettled
  <2>2. /\ status'[j] \in {"exhausted", "cancelled"}
        /\ \A i \in Jobs : i # j => status'[i] = status[i]
    BY <1>1, <2>1
  <2> QED BY <2>1, <2>2, ScopedKept DEF Live
<1> QED BY <1>2, <1>3, <1>4, ClaimScoped DEF JobStep

\* The attempt of a body step is live.
LEMMA BodyLive ==
    ASSUME NEW p \in Attempts, Reading(p) \/ Working(p) \/ SkipChunk(p)
    PROVE  Live(p)
BY DEF Reading, Working, Scan, CheckUpsert, UpsertRow, Compare, RunChunk, SkipChunk, AtChunk,
       Decide, Replace, Probe, Add, Checkpoint, Live

LEMMA ScopedNext ==
    ASSUME Sound, Scoped, [Next]_vars
    PROVE  Scoped'
<1>1. CASE UNCHANGED vars
  BY <1>1, ScopedKept DEF vars, Live
<1>2. CASE \E j \in Jobs : JobStep(j)
  BY <1>2, JobScoped
<1>3. ASSUME NEW p \in Attempts, Reading(p) \/ Working(p) PROVE Scoped'
  BY <1>3, BodySteps, BodyLive, ScopedKept DEF Live
<1>4. ASSUME NEW p \in Attempts, SkipChunk(p) PROVE Scoped'
  <2>1. PICK x : exec' = [exec EXCEPT ![p] = x]
    BY <1>4 DEF SkipChunk
  <2>2. UNCHANGED <<scenario, status, attempt>>
    BY <1>4 DEF SkipChunk
  <2> QED BY <1>4, <2>1, <2>2, BodyLive, MemoryOf, ScopedKept DEF Live
<1>5. ASSUME NEW p \in Attempts,
             Crash(p) \/ Lost(p) \/ WriteStep(p) \/ BodyStep(p) \/ Succeed(p)
      PROVE  Scoped'
  BY <1>3, <1>4, <1>5, EndScoped DEF WriteStep, BodyStep, Reading, Working
<1> QED BY <1>1, <1>2, <1>5 DEF Next

LEMMA ScopedInit == Init => Scoped
BY DEF Init, Scoped, Single, Live, Idle

-----------------------------------------------------------------------------
(* Chunks and dates *)

\* A chunk lies within one date and within the range of its backfill.
LEMMA ChunkRows ==
    ASSUME NEW b \in Backfills, NEW c \in Chunks(b), NEW r \in Rows, In(r, c, ChunkEnd(b, c))
    PROVE  Date(r.event_timestamp) = Date(c) /\ In(r, Start[b], End[b])
<1> DEFINE t == r.event_timestamp
           midnight == (Date(c) + 1) * DayLength
<1>1. t \in Nat
  BY ViewAssumption DEF RowType
<1>2. c \in Nat /\ Start[b] <= c /\ c < End[b] /\ Start[b] \in Nat /\ End[b] \in Nat
  BY ChunkType, PayloadRange
<1>3. /\ Date(c) \in Nat /\ Date(c) * DayLength <= c
      /\ Date(t) \in Nat /\ Date(t) * DayLength <= t /\ t < (Date(t) + 1) * DayLength
  BY <1>1, <1>2, Division
<1>4. /\ Date(c) * DayLength \in Nat /\ Date(t) * DayLength \in Nat
      /\ midnight \in Nat /\ (Date(t) + 1) * DayLength \in Nat
  BY <1>3, Midnights
<1>5. ChunkEnd(b, c) <= midnight /\ ChunkEnd(b, c) <= End[b]
  BY <1>2, <1>4 DEF ChunkEnd
<1>6. c <= t /\ t < ChunkEnd(b, c) /\ ChunkEnd(b, c) \in Nat
  BY NextChunk DEF In
<1>7. t < midnight /\ c <= t
  BY <1>1, <1>4, <1>5, <1>6
<1>8. ~(Date(c) < Date(t))
  <2>1. Date(c) < Date(t) => midnight <= Date(t) * DayLength
    BY <1>3, LaterDates
  <2> QED BY <2>1, <1>1, <1>3, <1>4, <1>7
<1>9. ~(Date(t) < Date(c))
  <2>1. Date(t) < Date(c) => (Date(t) + 1) * DayLength <= Date(c) * DayLength
    BY <1>3, LaterDates
  <2> QED BY <2>1, <1>1, <1>2, <1>3, <1>4, <1>7
<1>10. Date(t) = Date(c)
  BY <1>3, <1>8, <1>9
<1>11. Start[b] <= t /\ t < End[b]
  BY <1>1, <1>2, <1>5, <1>6
<1> QED BY <1>10, <1>11 DEF In

\* A backfill has one chunk of a date.
LEMMA OneChunk ==
    ASSUME NEW b \in Backfills, NEW c \in Chunks(b), NEW d \in Chunks(b), Date(c) = Date(d)
    PROVE  c = d
<1>1. /\ c \in Nat /\ d \in Nat /\ Start[b] <= c /\ Start[b] <= d
      /\ Start[b] \in Nat
  BY ChunkType, PayloadRange
<1>2. /\ c = Start[b] \/ Date(c) * DayLength = c
      /\ d = Start[b] \/ Date(d) * DayLength = d
  BY DEF Chunks
<1>3. Date(c) * DayLength <= c /\ Date(d) * DayLength <= d
  BY <1>1, Division
<1>4. Date(c) \in Nat /\ Date(c) * DayLength \in Nat
  BY <1>1, Division, Midnights
<1> QED BY <1>1, <1>2, <1>3, <1>4

\* What a backfill writes, it writes into the chunk.
LEMMA OutputRows ==
    ASSUME NEW policy, NEW b \in Backfills, NEW c \in Chunks(b)
    PROVE  /\ Stored(policy, b, c) \subseteq Output(b, c)
           /\ Refused(b, c) \subseteq Output(b, c)
           /\ \A r \in Output(b, c) : r \in Rows /\ In(r, c, ChunkEnd(b, c))
BY PayloadAssumption DEF Stored, Refused, Invalid, Output, Transformed

LEMMA ChunkDates ==
    ASSUME NEW b \in Backfills, NEW c \in Chunks(b)
    PROVE  Date(c) \in DatesOf(b)
BY JobsAssumption DEF DatesOf

LEMMA StagedDates ==
    ASSUME NEW j \in Appends, NEW r \in Staged[j]
    PROVE  r \in Rows /\ Date(r.event_timestamp) \in DatesOf(j)
BY PayloadAssumption DEF DatesOf

-----------------------------------------------------------------------------
(* What the steps of a body do to their memory and to the tables *)

\* Between the choice of its chunk and the checkpoint.
LEMMA ChunkOf ==
    ASSUME Sound, NEW p \in Attempts, p[1] \in Backfills, exec[p].pc \in Body
    PROVE  exec[p].cursor \in Chunks(p[1]) /\ p[1] \notin Appends
BY FitsNow, Kinds DEF Fits, FitsBackfill, Body

\* What an attempt that writes is about to write.
LEMMA WritingRows ==
    ASSUME Sound, NEW p \in Attempts, exec[p].pc \in {"deciding", "adding", "replacing"}
    PROVE  LET b == p[1]
               c == exec[p].cursor
           IN  /\ exec[p].into \in {"view", "quarantine"}
               /\ b \in Appends => exec[p].into = "view" /\ Writing(p) = exec[p].rows
                                   /\ exec[p].rows \subseteq Staged[b]
               /\ b \notin Appends =>
                    /\ b \in Backfills /\ c \in Chunks(b)
                    /\ exec[p].into = "view" => Writing(p) = Stored(scenario.policy, b, c)
                    /\ exec[p].into = "quarantine" => Writing(p) = Refused(b, c)
                    /\ \A r \in Writing(p) : r \in Rows /\ In(r, c, ChunkEnd(b, c))
<1>1. Fits(scenario.policy, p[1], exec[p]) /\ exec[p].into \in {"view", "quarantine"}
  BY FitsNow DEF Execs
<1>2. CASE p[1] \in Appends
  BY <1>1, <1>2 DEF Fits, Writing
<1>3. CASE p[1] \notin Appends
  <2>1. p[1] \in Backfills /\ exec[p].cursor \in Chunks(p[1])
    BY <1>3, WritingAdmitted, ChunkOf DEF Body
  <2>2. /\ exec[p].into = "view" =>
             Writing(p) = Stored(scenario.policy, p[1], exec[p].cursor)
        /\ exec[p].into = "quarantine" => Writing(p) = Refused(p[1], exec[p].cursor)
    BY <1>3 DEF Writing
  <2> QED BY <1>1, <1>3, <2>1, <2>2, OutputRows
<1> QED BY <1>2, <1>3

LEMMA ContinueFacts ==
    ASSUME Sound, NEW p \in Attempts
    PROVE  LET y == Continue(p, exec[p])
           IN  /\ y.pc = IF p[1] \in Appends THEN "finish"
                         ELSE IF exec[p].into = "quarantine" THEN "deciding" ELSE "checkpoint"
               /\ y.into = "view" /\ y.cursor = exec[p].cursor /\ y.rows = exec[p].rows
               /\ y.keep = NoRows
BY FitsNow DEF Continue, Execs

LEMMA DecideFacts ==
    ASSUME Sound, NEW p \in Attempts, Decide(p)
    PROVE  /\ exec[p].pc = "deciding" /\ p[1] \in Backfills /\ p[1] \notin Appends
           /\ exec[p].cursor \in Chunks(p[1])
           /\ UNCHANGED <<scenario, table, quarantine, checkpoints>>
           /\ exec'[p].cursor = exec[p].cursor
           /\ \/ /\ Target(p).exists /\ exec'[p].pc = "replacing"
                 /\ exec'[p].keep = Preserved(p) /\ exec'[p].into = exec[p].into
              \/ /\ ~Target(p).exists /\ Writing(p) = {} /\ exec'[p].into = "view"
                 /\ exec'[p].pc = IF exec[p].into = "quarantine" THEN "deciding"
                                  ELSE "checkpoint"
              \/ /\ ~Target(p).exists /\ exec'[p].pc = "appending"
                 /\ exec'[p].into = exec[p].into
<1> DEFINE x == exec[p]
<1>1. x.pc = "deciding" /\ UNCHANGED <<scenario, table, quarantine, checkpoints>>
  BY DEF Decide, stores, progress
<1>2. p[1] \in Backfills /\ p[1] \notin Appends /\ x.cursor \in Chunks(p[1]) /\ x \in Execs
  BY <1>1, FitsNow, ChunkOf DEF Fits, Body
<1>3. CASE Target(p).exists
  <2> DEFINE y == [x EXCEPT !.pc = "replacing", !.keep = Preserved(p)]
  <2>1. exec' = [exec EXCEPT ![p] = y]
    BY <1>3 DEF Decide
  <2>2. y.pc = "replacing" /\ y.keep = Preserved(p) /\ y.into = x.into /\ y.cursor = x.cursor
    BY <1>2 DEF Execs
  <2> HIDE DEF y
  <2> QED BY <1>1, <1>2, <1>3, <2>1, <2>2, MemoryOf
<1>4. CASE ~Target(p).exists /\ Writing(p) = {}
  <2>1. exec' = [exec EXCEPT ![p] = Continue(p, x)]
    BY <1>4 DEF Decide
  <2> QED BY <1>1, <1>2, <1>4, <2>1, MemoryOf, ContinueFacts
<1>5. CASE ~Target(p).exists /\ Writing(p) # {}
  <2> DEFINE y == [x EXCEPT !.pc = "appending"]
  <2>1. exec' = [exec EXCEPT ![p] = y]
    BY <1>5 DEF Decide
  <2>2. y.pc = "appending" /\ y.into = x.into /\ y.cursor = x.cursor
    BY <1>2 DEF Execs
  <2> HIDE DEF y
  <2> QED BY <1>1, <1>2, <1>5, <2>1, <2>2, MemoryOf
<1> QED BY <1>3, <1>4, <1>5

LEMMA ProbeFacts ==
    ASSUME Sound, NEW p \in Attempts, Probe(p)
    PROVE  /\ exec[p].pc = "appending" /\ exec'[p].pc = "adding"
           /\ UNCHANGED <<scenario, table, quarantine, checkpoints>>
           /\ exec'[p].cursor = exec[p].cursor /\ exec'[p].rows = exec[p].rows
           /\ exec'[p].into = exec[p].into
<1> DEFINE x == exec[p]
           y == [x EXCEPT !.pc = "adding", !.creates = ~Target(p).exists]
<1>1. /\ x.pc = "appending" /\ UNCHANGED <<scenario, table, quarantine, checkpoints>>
      /\ exec' = [exec EXCEPT ![p] = y]
  BY DEF Probe, stores, progress
<1>2. y.pc = "adding" /\ y.cursor = x.cursor /\ y.rows = x.rows /\ y.into = x.into
  BY FitsNow DEF Execs
<1> HIDE DEF y
<1> QED BY <1>1, <1>2, MemoryOf

LEMMA CompareFacts ==
    ASSUME Sound, NEW p \in Attempts, Compare(p)
    PROVE  /\ p[1] \in Appends /\ UNCHANGED <<scenario, table, quarantine, checkpoints>>
           /\ exec'[p].rows = Staged[p[1]] \ Load(table)
           /\ exec'[p].pc \in {"finish", "appending"}
           /\ exec'[p].pc = "finish" => exec'[p].rows = {}
           /\ exec'[p].into = exec[p].into
<1> DEFINE x == exec[p]
           unseen == Unseen(Staged[p[1]], Load(table))
           pc == IF unseen = {} THEN "finish" ELSE "appending"
           y == [x EXCEPT !.rows = unseen, !.pc = pc]
<1>1. /\ p[1] \in Appends /\ UNCHANGED <<scenario, table, quarantine, checkpoints>>
      /\ exec' = [exec EXCEPT ![p] = y]
  BY DEF Compare, stores, progress
<1>2. pc \in {"finish", "appending"} /\ (pc = "finish" => unseen = {})
  OBVIOUS
<1> HIDE DEF unseen, pc
<1>3. y.rows = unseen /\ y.pc = pc /\ y.into = x.into
  BY FitsNow DEF Execs
<1> HIDE DEF y
<1> QED BY <1>1, <1>2, <1>3, MemoryOf DEF unseen, Unseen

LEMMA RunChunkFacts ==
    ASSUME Sound, NEW p \in Attempts, RunChunk(p)
    PROVE  /\ p[1] \in Backfills /\ exec[p].cursor \in Chunks(p[1])
           /\ UNCHANGED <<scenario, table, quarantine, checkpoints>>
           /\ exec'[p].pc = "deciding" /\ exec'[p].cursor = exec[p].cursor
           /\ exec'[p].into = IF scenario.policy = "quarantine"
                                 /\ Refused(p[1], exec[p].cursor) # {}
                              THEN "quarantine" ELSE "view"
<1> DEFINE x == exec[p]
           into == IF scenario.policy = "quarantine" /\ Refused(p[1], x.cursor) # {}
                     THEN "quarantine" ELSE "view"
           y == [x EXCEPT !.pc = "deciding", !.into = into]
<1>1. /\ AtChunk(p) /\ UNCHANGED <<scenario, table, quarantine, checkpoints>>
      /\ exec' = [exec EXCEPT ![p] = y]
  BY DEF RunChunk, stores, progress
<1> HIDE DEF into
<1>2. y.pc = "deciding" /\ y.cursor = x.cursor /\ y.into = into
  BY FitsNow DEF Execs
<1> HIDE DEF y
<1> QED BY <1>1, <1>2, MemoryOf, AtChunkFacts DEF into

LEMMA CheckpointFacts ==
    ASSUME Sound, NEW p \in Attempts, Checkpoint(p)
    PROVE  /\ exec[p].pc = "checkpoint" /\ p[1] \in Backfills
           /\ UNCHANGED <<scenario, table, quarantine>>
           /\ exec'[p].pc = "start"
           /\ \A b \in Backfills \ {p[1]} : checkpoints'[b] = checkpoints[b]
           /\ checkpoints'[p[1]] = checkpoints[p[1]] \cup {exec[p].cursor}
<1> DEFINE x == exec[p]
           b == p[1]
           y == [x EXCEPT !.pc = "start", !.seen = checkpoints'[b], !.counted = summary'[b],
                          !.cursor = ChunkEnd(b, x.cursor)]
<1>1. /\ x.pc = "checkpoint" /\ UNCHANGED <<scenario, table, quarantine>> /\ Owns(p)
      /\ checkpoints' = [checkpoints EXCEPT ![b] = x.seen \cup {x.cursor}]
      /\ exec' = [exec EXCEPT ![p] = y]
  BY DEF Checkpoint, stores
<1>2. b \in Backfills
  BY <1>1, FitsNow DEF Fits
<1>3. x.seen = checkpoints[b]
  BY <1>1, <1>2 DEF Sound, Current
<1>4. y.pc = "start"
  BY FitsNow DEF Execs
<1> HIDE DEF y
<1>5. checkpoints \in [Backfills -> SUBSET Cursors]
  BY DEF Sound, TypeOK
<1> QED BY <1>1, <1>2, <1>3, <1>4, <1>5, MemoryOf

\* A commit to one table: the other tables stay, and the attempt goes on.
LEMMA CommitsFacts ==
    ASSUME Sound, NEW p \in Attempts, NEW new, Commits(p, new),
           exec[p].pc \in {"adding", "replacing"}
    PROVE  /\ UNCHANGED <<scenario, checkpoints>>
           /\ exec[p].into = "view" => table' = new /\ quarantine' = quarantine
           /\ exec[p].into = "quarantine" =>
                /\ table' = table /\ p[1] \in Backfills /\ quarantine'[p[1]] = new
                /\ \A b \in Backfills \ {p[1]} : quarantine'[b] = quarantine[b]
           /\ exec'[p].pc = IF p[1] \in Appends THEN "finish"
                            ELSE IF exec[p].into = "quarantine" THEN "deciding"
                            ELSE "checkpoint"
           /\ exec'[p].into = "view" /\ exec'[p].cursor = exec[p].cursor
           /\ exec'[p].rows = exec[p].rows
<1>1. /\ exec' = [exec EXCEPT ![p] = Continue(p, exec[p])]
      /\ UNCHANGED <<scenario, checkpoints>>
      /\ exec[p].into = "view" => table' = new /\ quarantine' = quarantine
      /\ exec[p].into = "quarantine" =>
           table' = table /\ quarantine' = [quarantine EXCEPT ![p[1]] = new]
  BY DEF Commits, progress
<1>2. exec[p].into = "quarantine" => p[1] \in Backfills
  BY WritingAdmitted
<1>3. quarantine \in [Backfills -> Tables]
  BY DEF Sound, TypeOK
<1>4. exec[p].into = "quarantine" =>
        /\ quarantine'[p[1]] = new
        /\ \A b \in Backfills \ {p[1]} : quarantine'[b] = quarantine[b]
  BY <1>1, <1>2, <1>3
<1>5. exec'[p] = Continue(p, exec[p])
  BY <1>1, MemoryOf
<1> QED BY <1>1, <1>2, <1>4, <1>5, ContinueFacts

\* The table that a replacement leaves.
LEMMA ReplaceFacts ==
    ASSUME Sound, NEW p \in Attempts, Replace(p)
    PROVE  LET new == IF exec[p].into = "view" THEN table' ELSE quarantine'[p[1]]
           IN  /\ exec[p].pc = "replacing" /\ exec[p].into \in {"view", "quarantine"}
               /\ p[1] \in Backfills /\ exec[p].cursor \in Chunks(p[1])
               /\ new.exists
               /\ \A r \in Rows :
                    new.rows[r] =
                      IF Date(r.event_timestamp) # Date(exec[p].cursor) THEN Target(p).rows[r]
                      ELSE IF r \in Writing(p) THEN exec[p].keep[r] + 1 ELSE exec[p].keep[r]
<1> DEFINE bag == Plus(exec[p].keep, Writing(p))
           made == Overwritten(Target(p), Date(exec[p].cursor), bag)
<1>1. exec[p].pc = "replacing" /\ Commits(p, made)
  BY DEF Replace
<1>2. p[1] \in Backfills /\ exec[p].cursor \in Chunks(p[1])
  BY <1>1, FitsNow, ChunkOf DEF Fits, Body
<1>3. exec[p].into \in {"view", "quarantine"}
  BY FitsNow DEF Execs
<1>4. \A r \in Rows : bag[r] = IF r \in Writing(p) THEN exec[p].keep[r] + 1 ELSE exec[p].keep[r]
  BY DEF Plus
<1> HIDE DEF bag
<1>5. /\ made.exists
      /\ \A r \in Rows : made.rows[r] =
            IF Date(r.event_timestamp) # Date(exec[p].cursor) THEN Target(p).rows[r] ELSE bag[r]
  BY DEF Overwritten
<1> HIDE DEF made
<1>6. IF exec[p].into = "view" THEN table' = made ELSE quarantine'[p[1]] = made
  BY <1>1, <1>3, CommitsFacts
<1> QED BY <1>1, <1>2, <1>3, <1>4, <1>5, <1>6

\* The table that an addition leaves.
LEMMA AddFacts ==
    ASSUME Sound, NEW p \in Attempts, Add(p)
    PROVE  LET new == IF exec[p].into = "view" THEN table' ELSE quarantine'[p[1]]
           IN  /\ exec[p].pc = "adding" /\ exec[p].into \in {"view", "quarantine"}
               /\ new.exists
               /\ \A r \in Rows :
                    new.rows[r] =
                      IF r \in Writing(p) THEN Target(p).rows[r] + 1 ELSE Target(p).rows[r]
<1> DEFINE made == Appended(Target(p), Writing(p))
<1>1. exec[p].pc = "adding" /\ Commits(p, made)
  BY DEF Add
<1>2. exec[p].into \in {"view", "quarantine"}
  BY FitsNow DEF Execs
<1>3. /\ made.exists
      /\ \A r \in Rows : made.rows[r] =
            IF r \in Writing(p) THEN Target(p).rows[r] + 1 ELSE Target(p).rows[r]
  BY DEF Appended, Plus
<1> HIDE DEF made
<1>4. IF exec[p].into = "view" THEN table' = made ELSE quarantine'[p[1]] = made
  BY <1>1, <1>2, CommitsFacts
<1> QED BY <1>1, <1>2, <1>3, <1>4

\* Only the attempts that are about to write change a table.
LEMMA TablesSame ==
    ASSUME Sound, NEW p \in Attempts, Reading(p) \/ Working(p), ~Replace(p), ~Add(p)
    PROVE  UNCHANGED <<scenario, table, quarantine>>
BY DEF Reading, Working, Scan, CheckUpsert, UpsertRow, Compare, RunChunk, Decide, Probe,
       Checkpoint, stores

LEMMA Counts ==
    ASSUME Sound, NEW r \in Rows
    PROVE  /\ table.rows[r] \in Nat
           /\ \A b \in Backfills : quarantine[b].rows[r] \in Nat
           /\ \A p \in Attempts : exec[p].keep[r] \in Nat
<1>1. /\ table \in Tables /\ quarantine \in [Backfills -> Tables]
      /\ \A p \in Attempts : exec[p].keep \in Bags
  BY FitsNow DEF Sound, TypeOK, Execs
<1> QED BY <1>1 DEF Tables, Bags

-----------------------------------------------------------------------------
(* Tables that do not exist are empty, and no table is dropped *)

Founded ==
    /\ scenario.exists => table.exists
    /\ ~table.exists => \A r \in Rows : table.rows[r] = 0
    /\ \A b \in Backfills : ~quarantine[b].exists => \A r \in Rows : quarantine[b].rows[r] = 0

LEMMA FoundedInit == Init => Founded
BY DEF Init, Founded, NoTable, NoRows, Appended

LEMMA FoundedNext ==
    ASSUME Sound, Founded, [Next]_vars
    PROVE  Founded'
<1>1. CASE Calm
  BY <1>1 DEF Calm, Founded
<1>2. ASSUME NEW p \in Attempts, Reading(p) \/ Working(p), ~Replace(p), ~Add(p)
      PROVE  Founded'
  BY <1>2, TablesSame DEF Founded
<1>3. ASSUME NEW p \in Attempts, Replace(p) \/ Add(p) PROVE Founded'
  <2>1. PICK new : Commits(p, new) /\ exec[p].pc \in {"adding", "replacing"}
    BY <1>3 DEF Replace, Add
  <2>2. IF exec[p].into = "view" THEN table'.exists ELSE quarantine'[p[1]].exists
    BY <1>3, ReplaceFacts, AddFacts
  <2>3. exec[p].into \in {"view", "quarantine"}
    BY FitsNow DEF Execs
  <2> QED BY <2>1, <2>2, <2>3, CommitsFacts DEF Founded
<1> QED BY <1>1, <1>2, <1>3, StepKinds DEF Working

\* In a table that exists a backfill replaces dates and never appends to it.
Standing ==
    scenario.exists =>
        \A p \in Attempts :
            p[1] \in Backfills /\ exec[p].pc \in {"appending", "adding"} =>
                exec[p].into = "quarantine"

LEMMA StandingNext ==
    ASSUME Sound, Founded, Standing, [Next]_vars
    PROVE  Standing'
<1>1. scenario' = scenario
  BY StepKinds, BodySteps DEF Calm
<1> SUFFICES ASSUME scenario.exists, NEW q \in Attempts, q[1] \in Backfills,
                    exec'[q].pc \in {"appending", "adding"}
             PROVE  exec'[q].into = "quarantine"
  BY <1>1 DEF Standing
<1>2. CASE exec'[q] = exec[q]
  BY <1>2 DEF Standing
<1>3. CASE Calm
  BY <1>2, <1>3 DEF Calm
<1>4. ASSUME NEW p \in Attempts, Reading(p) \/ Working(p), q # p
      PROVE  exec'[q] = exec[q]
  BY <1>4, BodySteps
<1>5. CASE Reading(q)
  BY <1>5, UpsertKind, Kinds DEF Reading, Scan, CheckUpsert, UpsertRow
<1>6. CASE Decide(q)
  <2>1. exec[q].into = "view" => Target(q).exists
    BY DEF Target, Founded
  <2>2. exec[q].into \in {"view", "quarantine"}
    BY FitsNow DEF Execs
  <2> QED BY <1>6, <2>1, <2>2, DecideFacts
<1>7. CASE Probe(q)
  BY <1>7, ProbeFacts DEF Standing
<1>8. CASE Compare(q) \/ RunChunk(q) \/ Checkpoint(q)
  BY <1>8, CompareFacts, RunChunkFacts, CheckpointFacts, Kinds
<1>9. CASE Replace(q) \/ Add(q)
  <2>1. PICK new : Commits(q, new) /\ exec[q].pc \in {"adding", "replacing"}
    BY <1>9 DEF Replace, Add
  <2>2. exec'[q].pc \notin {"appending", "adding"}
    BY <2>1, CommitsFacts
  <2> QED BY <2>2
<1> QED BY <1>2, <1>3, <1>4, <1>5, <1>6, <1>7, <1>8, <1>9, StepKinds DEF Working

LEMMA StandingInit == Init => Standing
BY DEF Init, Standing, Idle

\* What the proofs below rest on.
Base == Sound /\ Scoped /\ Founded /\ Standing

LEMMA AlwaysBase == Spec => []Base
<1>1. Init => Base
  BY SoundInit, ScopedInit, FoundedInit, StandingInit DEF Base
<1>2. Base /\ [Next]_vars => Base'
  BY SoundNext, ScopedNext, FoundedNext, StandingNext DEF Base
<1> QED BY <1>1, <1>2, PTL DEF Spec

\* The live attempts are those of the scenario's jobs.
LEMMA LiveJob ==
    ASSUME Base, NEW p \in Attempts, Live(p)
    PROVE  p[1] \in Jobs \cap scenario.jobs
BY Kinds DEF Base, Scoped

-----------------------------------------------------------------------------
(* What a backfill leaves alone *)

Outside(r) == \A b \in Backfills \cap scenario.jobs : ~In(r, Start[b], End[b])

\* What the attempt has read keeps the row: an append saw it, and a backfill
\* that replaces its date has it among what it preserves.
Keeps(p, r) ==
    /\ p[1] \in Appends /\ exec[p].pc \in {"appending", "adding"} => r \notin exec[p].rows
    /\ /\ exec[p].pc = "replacing" /\ exec[p].into = "view"
       /\ Date(r.event_timestamp) = Date(exec[p].cursor)
       => exec[p].keep[r] = 1

Kept ==
    scenario.exists =>
        \A r \in Seed : Outside(r) =>
            table.rows[r] = 1 /\ \A p \in Attempts : Keeps(p, r)

LEMMA KeptInit == Init => Kept
<1> SUFFICES ASSUME Init, scenario.exists, NEW r \in Seed
             PROVE  table.rows[r] = 1 /\ \A p \in Attempts : Keeps(p, r)
  BY DEF Kept
<1>1. r \in Rows
  BY PayloadAssumption
<1>2. table.rows[r] = 1
  BY <1>1 DEF Init, Appended, Plus, NoTable, NoRows
<1> QED BY <1>2 DEF Init, Keeps, Idle

\* No attempt writes a row of the table that lies outside every backfill.
LEMMA OutsideUnwritten ==
    ASSUME Base, Kept, scenario.exists, NEW r \in Seed, Outside(r), NEW p \in Attempts,
           exec[p].pc \in {"adding", "replacing"}, exec[p].into = "view"
    PROVE  r \notin Writing(p)
<1>1. Live(p) /\ p[1] \in scenario.jobs
  BY LiveJob DEF Live
<1>2. CASE p[1] \in Appends
  <2>1. exec[p].pc = "adding" /\ Writing(p) = exec[p].rows
    BY <1>2, WritingRows, FitsNow, Kinds DEF Base, Fits
  <2> QED BY <1>2, <2>1 DEF Kept, Keeps
<1>3. CASE p[1] \notin Appends
  <2>1. /\ p[1] \in Backfills \cap scenario.jobs /\ exec[p].cursor \in Chunks(p[1])
        /\ \A x \in Writing(p) : x \in Rows /\ In(x, exec[p].cursor,
                                                   ChunkEnd(p[1], exec[p].cursor))
    BY <1>1, <1>3, WritingRows DEF Base
  <2>2. \A x \in Writing(p) : In(x, Start[p[1]], End[p[1]])
    BY <2>1, ChunkRows
  <2> QED BY <2>1, <2>2 DEF Outside
<1> QED BY <1>2, <1>3

LEMMA KeptNext ==
    ASSUME Base, Kept, [Next]_vars
    PROVE  Kept'
<1>1. scenario' = scenario /\ Sound
  BY StepKinds, BodySteps DEF Calm, Base
<1> SUFFICES ASSUME scenario.exists, NEW r \in Seed, Outside(r)
             PROVE  table'.rows[r] = 1 /\ \A q \in Attempts : Keeps(q, r)'
  BY <1>1 DEF Kept, Outside
<1>2. r \in Rows /\ table.rows[r] = 1 /\ \A q \in Attempts : Keeps(q, r)
  BY PayloadAssumption DEF Kept
<1>3. \A q \in Attempts :
        \/ exec'[q] = exec[q]
        \/ exec'[q].pc \notin {"appending", "adding", "replacing"}
        => Keeps(q, r)'
  BY <1>2 DEF Keeps
<1>4. ASSUME NEW p \in Attempts, Reading(p) \/ Working(p), table'.rows[r] = 1, Keeps(p, r)'
      PROVE  table'.rows[r] = 1 /\ \A q \in Attempts : Keeps(q, r)'
  BY <1>1, <1>3, <1>4, BodySteps
<1>5. CASE Calm
  BY <1>2, <1>3, <1>5 DEF Calm
<1>6. ASSUME NEW p \in Attempts, Reading(p)
      PROVE  table'.rows[r] = 1 /\ Keeps(p, r)'
  BY <1>1, <1>2, <1>3, <1>6, ReadingFacts
<1>7. ASSUME NEW p \in Attempts, Compare(p)
      PROVE  table'.rows[r] = 1 /\ Keeps(p, r)'
  <2>1. r \in Load(table)
    BY <1>2 DEF Load
  <2> QED BY <1>1, <1>2, <1>7, <2>1, CompareFacts DEF Keeps
<1>8. ASSUME NEW p \in Attempts, RunChunk(p) \/ Checkpoint(p)
      PROVE  table'.rows[r] = 1 /\ Keeps(p, r)'
  BY <1>1, <1>2, <1>3, <1>8, RunChunkFacts, CheckpointFacts
<1>9. ASSUME NEW p \in Attempts, Decide(p)
      PROVE  table'.rows[r] = 1 /\ Keeps(p, r)'
  <2> DEFINE c == exec[p].cursor
  <2>1. /\ p[1] \in Backfills /\ p[1] \notin Appends /\ c \in Chunks(p[1])
        /\ exec[p].pc = "deciding" /\ exec'[p].cursor = c /\ table' = table
        /\ exec'[p].pc = "replacing" =>
             exec'[p].keep = Preserved(p) /\ exec'[p].into = exec[p].into
    BY <1>1, <1>9, DecideFacts
  <2>2. p[1] \in scenario.jobs
    BY <2>1, LiveJob DEF Live
  <2>3. ~In(r, c, ChunkEnd(p[1], c))
    BY <1>2, <2>1, <2>2, ChunkRows DEF Outside
  <2>4. exec[p].into = "view" /\ Date(r.event_timestamp) = Date(c) => Preserved(p)[r] = 1
    BY <1>2, <2>3 DEF Preserved
  <2> QED BY <1>2, <2>1, <2>4 DEF Keeps
<1>10. ASSUME NEW p \in Attempts, Probe(p)
       PROVE  table'.rows[r] = 1 /\ Keeps(p, r)'
  BY <1>1, <1>2, <1>10, ProbeFacts DEF Keeps
<1>11. ASSUME NEW p \in Attempts, Replace(p) \/ Add(p)
       PROVE  table'.rows[r] = 1 /\ Keeps(p, r)'
  <2>1. PICK new : Commits(p, new) /\ exec[p].pc \in {"adding", "replacing"}
    BY <1>11 DEF Replace, Add
  <2>2. exec'[p].pc \notin {"appending", "adding", "replacing"}
    BY <1>1, <2>1, CommitsFacts
  <2>3. exec[p].into \in {"view", "quarantine"}
    BY <1>1, FitsNow DEF Execs
  <2>4. CASE exec[p].into = "quarantine"
    BY <1>1, <1>2, <1>3, <2>1, <2>2, <2>4, CommitsFacts
  <2>5. CASE exec[p].into = "view"
    <3>1. r \notin Writing(p) /\ Target(p) = table
      BY <2>1, <2>5, OutsideUnwritten, TargetType, <1>1
    <3>2. table'.rows[r] = 1
      BY <1>1, <1>2, <1>11, <2>5, <3>1, ReplaceFacts, AddFacts DEF Keeps
    <3> QED BY <1>3, <2>2, <3>2
  <2> QED BY <2>3, <2>4, <2>5
<1> QED BY <1>1, <1>4, <1>5, <1>6, <1>7, <1>8, <1>9, <1>10, <1>11, StepKinds DEF Working

\* Rows of the table that no backfill's range covers are never lost nor doubled:
\* also not those on a date that a backfill replaces from the middle on, and not
\* when an attempt writes what it read before it lost its lease (the mask that
\* _backfill preserves, _unseen_rows).
THEOREM OutsideRowsKept == Spec => []RowsOutsideKept
<1>1. Init => Kept
  BY KeptInit
<1>2. Base /\ Kept /\ [Next]_vars => Kept'
  BY KeptNext
<1>3. Kept => RowsOutsideKept
  BY DEF Kept, RowsOutsideKept, Outside
<1> QED BY <1>1, <1>2, <1>3, AlwaysBase, PTL DEF Spec

-----------------------------------------------------------------------------
(* What an append adds *)

\* No backfill of the scenario replaces the date of the row.
Unreplaced(r) ==
    \A b \in Backfills \cap scenario.jobs : Date(r.event_timestamp) \notin DatesOf(b)

\* The attempt is about to add the row.
Adds(p, r) == exec[p].pc \in {"appending", "adding"} /\ r \in exec[p].rows

\* An attempt that has compared adds the row, unless the view has it; and it
\* adds no row the view has, unless another attempt ran at the same time.
Brings(p, r) ==
    /\ exec[p].pc \in {"appending", "adding", "finish"} => table.rows[r] >= 1 \/ Adds(p, r)
    /\ p[1] \notin scenario.overtaken /\ Adds(p, r) => table.rows[r] = 0

Brought ==
    \A j \in Appends : \A r \in Staged[j] : Unreplaced(r) =>
        /\ \A p \in Attempts : p[1] = j => Brings(p, r)
        /\ status[j] = "succeeded" => table.rows[r] >= 1
        /\ j \notin scenario.overtaken => table.rows[r] <= 1

\* The jobs that write a date: no other attempt's commit changes a row of it.
LEMMA UnwrittenDate ==
    ASSUME Base, NEW p \in Attempts, Replace(p) \/ Add(p), NEW r \in Rows,
           Date(r.event_timestamp) \notin DatesOf(p[1])
    PROVE  table'.rows[r] = table.rows[r]
<1>1. Sound
  BY DEF Base
<1>2. PICK new : Commits(p, new) /\ exec[p].pc \in {"adding", "replacing"}
  BY DEF Replace, Add
<1>3. exec[p].into \in {"view", "quarantine"}
  BY <1>1, FitsNow DEF Execs
<1>4. CASE exec[p].into = "quarantine"
  BY <1>1, <1>2, <1>4, CommitsFacts
<1>5. CASE exec[p].into = "view"
  <2>1. Target(p) = table
    BY <1>5 DEF Target
  <2>2. CASE p[1] \in Appends
    <3>1. Writing(p) \subseteq Staged[p[1]] /\ ~Replace(p)
      BY <1>1, <1>2, <2>2, WritingRows, ReplaceFacts, Kinds
    <3>2. r \notin Writing(p)
      BY <2>2, <3>1, StagedDates
    <3> QED BY <1>1, <1>5, <2>1, <3>1, <3>2, AddFacts
  <2>3. CASE p[1] \notin Appends
    <3> DEFINE c == exec[p].cursor
    <3>1. /\ p[1] \in Backfills /\ c \in Chunks(p[1])
          /\ \A x \in Writing(p) : x \in Rows /\ In(x, c, ChunkEnd(p[1], c))
      BY <1>1, <1>2, <2>3, WritingRows
    <3>2. Date(c) \in DatesOf(p[1]) /\ \A x \in Writing(p) : Date(x.event_timestamp) = Date(c)
      BY <3>1, ChunkDates, ChunkRows
    <3>3. Date(r.event_timestamp) # Date(c) /\ r \notin Writing(p)
      BY <3>2
    <3> QED BY <1>1, <1>5, <2>1, <3>3, ReplaceFacts, AddFacts
  <2> QED BY <2>2, <2>3
<1> QED BY <1>3, <1>4, <1>5

\* The row of an append changes in the view only when an attempt of the job
\* adds it.
LEMMA StagedRow ==
    ASSUME Base, NEW j \in Appends, NEW r \in Staged[j], Unreplaced(r),
           NEW p \in Attempts, Replace(p) \/ Add(p)
    PROVE  /\ table'.rows[r] = IF p[1] = j /\ r \in exec[p].rows THEN table.rows[r] + 1
                               ELSE table.rows[r]
           /\ p[1] = j => exec[p].pc = "adding"
<1>1. Sound /\ r \in Rows
  BY StagedDates DEF Base
<1>2. exec[p].pc \in {"adding", "replacing"}
  BY DEF Replace, Add
<1>3. p[1] \in Jobs \cap scenario.jobs
  BY <1>2, LiveJob DEF Live
<1>4. CASE p[1] \in Backfills
  BY <1>1, <1>3, <1>4, UnwrittenDate, JobsAssumption DEF Unreplaced
<1>5. CASE p[1] \notin Backfills
  <2>1. /\ p[1] \in Appends /\ exec[p].into = "view"
        /\ Writing(p) = exec[p].rows /\ exec[p].rows \subseteq Staged[p[1]]
    BY <1>1, <1>2, <1>5, WritingRows
  <2>2. exec[p].pc = "adding" /\ Add(p)
    BY <1>1, <1>5, ReplaceFacts DEF Add
  <2>3. table'.rows[r] = IF r \in exec[p].rows THEN table.rows[r] + 1 ELSE table.rows[r]
    BY <1>1, <2>1, <2>2, AddFacts DEF Target
  <2>4. p[1] # j => r \notin exec[p].rows
    BY <2>1, BatchesAssumption
  <2> QED BY <2>2, <2>3, <2>4
<1> QED BY <1>4, <1>5

\* Only an attempt that is done makes its job succeed.
LEMMA SuccessOnly ==
    ASSUME Sound, [Next]_vars, NEW j \in Jobs, status'[j] = "succeeded"
    PROVE  \/ status[j] = "succeeded"
           \/ \E p \in Attempts : p[1] = j /\ Succeed(p)
<1>1. status \in [Jobs -> Statuses]
  BY DEF Sound, TypeOK
<1>2. ASSUME NEW i \in Jobs, JobStep(i) PROVE status[j] = "succeeded"
  <2>1. \/ status' = status
        \/ \E s \in {"pending", "running", "exhausted", "cancelled"} :
              status' = [status EXCEPT ![i] = s]
    BY <1>2 DEF JobStep, Ingest, Submit, Claim, Exhaust, Cancel
  <2> QED BY <1>1, <2>1
<1>3. ASSUME NEW p \in Attempts, Crash(p) \/ Lost(p) \/ WriteStep(p) \/ BodyStep(p)
      PROVE  status[j] = "succeeded"
  <2>1. ASSUME NEW terminal, NEW counts, Failed(p, terminal, counts)
        PROVE  status[j] = "succeeded"
    <3>1. \/ status' = status
          \/ \E s \in {"failed", "exhausted", "retrying"} :
                status' = [status EXCEPT ![p[1]] = s]
      BY <2>1 DEF Failed
    <3> QED BY <1>1, <3>1
  <2>2. CASE Crash(p) \/ Lost(p) \/ SkipChunk(p)
    BY <2>2 DEF Crash, Lost, SkipChunk
  <2>3. CASE AddRefused(p) \/ RejectAppend(p) \/ ScanFails(p)
    BY <2>1, <2>3 DEF AddRefused, RejectAppend, ScanFails
  <2>4. CASE RejectChunk(p)
    BY <2>1, <2>4 DEF RejectChunk
  <2>5. CASE Reading(p) \/ Working(p)
    BY <2>5, BodySteps
  <2> QED BY <1>3, <2>2, <2>3, <2>4, <2>5 DEF WriteStep, BodyStep, Reading, Working
<1>4. ASSUME NEW p \in Attempts, Succeed(p), status[j] # "succeeded" PROVE p[1] = j
  <2>1. status' = [status EXCEPT ![p[1]] = "succeeded"]
    BY <1>4 DEF Succeed
  <2> QED BY <1>1, <1>4, <2>1
<1>5. CASE UNCHANGED vars
  BY <1>5 DEF vars
<1> QED BY <1>2, <1>3, <1>4, <1>5 DEF Next

LEMMA BroughtInit == Init => Brought
<1> SUFFICES ASSUME Init, NEW j \in Appends, NEW r \in Staged[j], Unreplaced(r)
             PROVE  /\ \A p \in Attempts : p[1] = j => Brings(p, r)
                    /\ status[j] = "succeeded" => table.rows[r] >= 1
                    /\ j \notin scenario.overtaken => table.rows[r] <= 1
  BY DEF Brought
<1>1. j \in Jobs /\ r \in Rows
  BY StagedDates DEF Jobs
<1>2. table.rows[r] \in {0, 1} /\ status[j] = "absent"
  BY <1>1 DEF Init, Appended, Plus, NoTable, NoRows
<1>3. \A p \in Attempts : exec[p].pc = "idle"
  BY DEF Init, Idle
<1> QED BY <1>2, <1>3 DEF Brings, Adds

LEMMA BroughtNext ==
    ASSUME Base, Brought, [Next]_vars
    PROVE  Brought'
<1>1. scenario' = scenario /\ Sound /\ Scoped
  BY StepKinds, BodySteps DEF Calm, Base
<1> SUFFICES ASSUME NEW j \in Appends, NEW r \in Staged[j], Unreplaced(r)
             PROVE  /\ \A p \in Attempts : p[1] = j => Brings(p, r)'
                    /\ status'[j] = "succeeded" => table'.rows[r] >= 1
                    /\ j \notin scenario.overtaken => table'.rows[r] <= 1
  BY <1>1 DEF Brought, Unreplaced
<1>2. /\ j \in Jobs /\ r \in Rows /\ table.rows[r] \in Nat
      /\ \A p \in Attempts : p[1] = j => Brings(p, r)
      /\ status[j] = "succeeded" => table.rows[r] >= 1
      /\ j \notin scenario.overtaken => table.rows[r] <= 1
  BY <1>1, StagedDates, Counts DEF Jobs, Brought
\* Where the view stays, the memory of the attempt that moves is what matters.
<1>3. ASSUME table' = table, status'[j] = "succeeded" => table.rows[r] >= 1,
             NEW p \in Attempts, p[1] = j => Brings(p, r)',
             \A q \in Attempts : q # p => exec'[q] = exec[q]
      PROVE  /\ \A q \in Attempts : q[1] = j => Brings(q, r)'
             /\ status'[j] = "succeeded" => table'.rows[r] >= 1
             /\ j \notin scenario.overtaken => table'.rows[r] <= 1
  BY <1>1, <1>2, <1>3 DEF Brings, Adds
<1>4. CASE Calm
  <2>1. table' = table
    BY <1>4 DEF Calm
  <2>2. ASSUME status'[j] = "succeeded", status[j] # "succeeded" PROVE table.rows[r] >= 1
    <3>1. PICK p \in Attempts : p[1] = j /\ Succeed(p)
      BY <1>1, <1>2, <2>2, SuccessOnly
    <3>2. exec[p].pc = "finish"
      BY <3>1, JobsAssumption DEF Succeed, Done
    <3> QED BY <1>2, <3>1, <3>2 DEF Brings, Adds
  <2>3. \A p \in Attempts : exec'[p] = exec[p] \/ exec'[p].pc \in {"idle", "start"}
    BY <1>4 DEF Calm
  <2> QED BY <1>1, <1>2, <2>1, <2>2, <2>3 DEF Brings, Adds
<1>5. ASSUME NEW p \in Attempts, Reading(p) \/ Working(p)
      PROVE  /\ status'[j] = "succeeded" => table.rows[r] >= 1
             /\ \A q \in Attempts : q # p => exec'[q] = exec[q]
  BY <1>1, <1>2, <1>5, BodySteps
<1>6. ASSUME NEW p \in Attempts, Reading(p)
      PROVE  table' = table /\ p[1] # j
  BY <1>1, <1>6, ReadingFacts, Kinds
<1>7. ASSUME NEW p \in Attempts, RunChunk(p) \/ Decide(p) \/ Checkpoint(p)
      PROVE  table' = table /\ p[1] # j
  BY <1>1, <1>7, RunChunkFacts, DecideFacts, CheckpointFacts, JobsAssumption
<1>8. ASSUME NEW p \in Attempts, Compare(p)
      PROVE  table' = table /\ (p[1] = j => Brings(p, r)')
  BY <1>1, <1>2, <1>8, CompareFacts DEF Brings, Adds, Load
<1>9. ASSUME NEW p \in Attempts, Probe(p)
      PROVE  table' = table /\ (p[1] = j => Brings(p, r)')
  BY <1>1, <1>2, <1>9, ProbeFacts DEF Brings, Adds
<1>10. ASSUME NEW p \in Attempts, Replace(p) \/ Add(p)
       PROVE  /\ \A q \in Attempts : q[1] = j => Brings(q, r)'
              /\ status'[j] = "succeeded" => table'.rows[r] >= 1
              /\ j \notin scenario.overtaken => table'.rows[r] <= 1
  <2>1. /\ table'.rows[r] = IF p[1] = j /\ r \in exec[p].rows THEN table.rows[r] + 1
                            ELSE table.rows[r]
        /\ p[1] = j => exec[p].pc = "adding"
    BY <1>10, StagedRow
  <2>2. table'.rows[r] >= table.rows[r]
    BY <1>2, <2>1
  <2>3. /\ status'[j] = "succeeded" => table.rows[r] >= 1
        /\ \A q \in Attempts : q # p => exec'[q] = exec[q]
    BY <1>5, <1>10 DEF Working
  <2>4. p[1] = j => exec'[p].pc = "finish"
    <3>1. PICK new : Commits(p, new) /\ exec[p].pc \in {"adding", "replacing"}
      BY <1>10 DEF Replace, Add
    <3> QED BY <1>1, <3>1, CommitsFacts
  <2>5. j \notin scenario.overtaken => table'.rows[r] <= 1
    BY <1>2, <2>1 DEF Brings, Adds
  <2>6. CASE p[1] # j
    BY <1>1, <1>2, <2>1, <2>3, <2>5, <2>6 DEF Brings, Adds
  <2>7. CASE p[1] = j
    <3>1. table'.rows[r] >= 1
      BY <1>2, <2>1, <2>7 DEF Brings, Adds
    <3>2. ASSUME NEW q \in Attempts, q[1] = j PROVE Brings(q, r)'
      <4>1. CASE q = p
        BY <2>4, <2>7, <3>1, <4>1 DEF Brings, Adds
      <4>2. CASE q # p
        <5>1. j \notin scenario.overtaken => ~Live(q)
          BY <1>1, <2>1, <2>7, <3>2, <4>2, OnlyOne DEF Live
        <5> QED BY <1>1, <2>3, <3>1, <3>2, <4>2, <5>1 DEF Brings, Adds, Live
      <4> QED BY <4>1, <4>2
    <3> QED BY <2>5, <3>1, <3>2
  <2> QED BY <2>6, <2>7
<1> QED BY <1>1, <1>3, <1>4, <1>5, <1>6, <1>7, <1>8, <1>9, <1>10, StepKinds DEF Working

\* A staged event whose append succeeded is in the view, and is there once as
\* long as nobody takes the job over, whatever crashes and retries came between
\* the write and the success (_unseen_rows compares with what was committed);
\* events of dates that a backfill replaces excepted.
THEOREM EventsAppendedOnce == Spec => []AppendedOnce
<1>1. Init => Brought
  BY BroughtInit
<1>2. Base /\ Brought /\ [Next]_vars => Brought'
  BY BroughtNext
<1>3. Brought => AppendedOnce
  BY DEF Brought, AppendedOnce, Unreplaced
<1> QED BY <1>1, <1>2, <1>3, AlwaysBase, PTL DEF Spec

-----------------------------------------------------------------------------
(* What a checkpoint promises *)

\* The rows of the chunk are in the view, each once, and nothing else of it.
ViewExact(b, c) ==
    \A r \in Rows : In(r, c, ChunkEnd(b, c)) =>
        table.rows[r] = IF r \in Stored(scenario.policy, b, c) THEN 1 ELSE 0

QuarantineExact(b, c) ==
    \A r \in Rows : In(r, c, ChunkEnd(b, c)) =>
        quarantine[b].rows[r] = IF r \in Refused(b, c) THEN 1 ELSE 0

\* No attempt that lost its lease can append beside the owner.
Guarded(b) == scenario.exists \/ b \notin scenario.overtaken
Quarantined(b) == scenario.policy = "quarantine" /\ b \notin scenario.overtaken
Alone(b, c) == WritesAlone(b, Date(c))

\* At the checkpoint of chunk c both tables are right; before the view is
\* written the quarantine table is.  A replacement keeps no row of the chunk,
\* and an attempt that appends finds none, if it is the only one.
ExactIn(p, b, c) ==
    LET x == exec[p] IN
    /\ x.pc = "checkpoint" /\ Guarded(b) /\ Alone(b, c) => ViewExact(b, c)
    /\ (x.pc = "checkpoint" \/ x.into = "view") /\ Quarantined(b) => QuarantineExact(b, c)
    /\ x.pc = "replacing" => \A r \in Rows : In(r, c, ChunkEnd(b, c)) => x.keep[r] = 0
    /\ x.pc \in {"appending", "adding"} /\ x.into = "view"
       /\ b \notin scenario.overtaken /\ Alone(b, c) =>
         \A r \in Rows : In(r, c, ChunkEnd(b, c)) => table.rows[r] = 0
    /\ x.pc \in {"appending", "adding"} /\ x.into = "quarantine" /\ b \notin scenario.overtaken =>
         \A r \in Rows : In(r, c, ChunkEnd(b, c)) => quarantine[b].rows[r] = 0

\* The chunk is finished, and the tables hold what its checkpoint promises.
Promised(b, c) ==
    c \in checkpoints[b] =>
        /\ Guarded(b) /\ Alone(b, c) => ViewExact(b, c)
        /\ Quarantined(b) => QuarantineExact(b, c)

\* An attempt works on the chunk.
At(p, b, c) == p[1] = b /\ exec[p].pc \in Body /\ exec[p].cursor = c

OnlyRefused(b, c) ==
    \A r \in Rows :
        In(r, c, ChunkEnd(b, c)) /\ quarantine[b].rows[r] > 0 => r \in Refused(b, c)

Exact ==
    \A b \in Backfills : \A c \in Chunks(b) :
        /\ Promised(b, c)
        /\ \A p \in Attempts : At(p, b, c) => ExactIn(p, b, c)
        /\ OnlyRefused(b, c)

LEMMA ExactInit == Init => Exact
BY DEF Init, Exact, Promised, At, OnlyRefused, Body, Idle, NoTable, NoRows

\* While no table changes, the attempt that moves is what matters.
LEMMA SameTables ==
    ASSUME UNCHANGED <<scenario, table, quarantine>>, NEW b, NEW c
    PROVE  /\ Guarded(b)' <=> Guarded(b)
           /\ Quarantined(b)' <=> Quarantined(b)
           /\ Alone(b, c)' <=> Alone(b, c)
           /\ ViewExact(b, c)' <=> ViewExact(b, c)
           /\ QuarantineExact(b, c)' <=> QuarantineExact(b, c)
           /\ OnlyRefused(b, c)' <=> OnlyRefused(b, c)
BY DEF Guarded, Quarantined, Alone, WritesAlone, ViewExact, QuarantineExact, OnlyRefused

LEMMA SameMemory ==
    ASSUME UNCHANGED <<scenario, table, quarantine>>, NEW b, NEW c, NEW p,
           exec'[p] = exec[p], At(p, b, c) => ExactIn(p, b, c)
    PROVE  (At(p, b, c) => ExactIn(p, b, c))'
BY SameTables DEF At, ExactIn

LEMMA MovesExact ==
    ASSUME Exact, UNCHANGED <<scenario, table, quarantine, checkpoints>>, NEW p \in Attempts,
           \A q \in Attempts : q # p => exec'[q] = exec[q],
           \A b \in Backfills : \A c \in Chunks(b) : At(p, b, c)' => ExactIn(p, b, c)'
    PROVE  Exact'
<1> SUFFICES ASSUME NEW b \in Backfills, NEW c \in Chunks(b)
             PROVE  /\ Promised(b, c)'
                    /\ \A q \in Attempts : At(q, b, c)' => ExactIn(q, b, c)'
                    /\ OnlyRefused(b, c)'
  BY DEF Exact
<1>1. Promised(b, c)' /\ OnlyRefused(b, c)'
  BY SameTables DEF Exact, Promised
<1>2. ASSUME NEW q \in Attempts PROVE At(q, b, c)' => ExactIn(q, b, c)'
  <2>1. At(q, b, c) => ExactIn(q, b, c)
    BY DEF Exact
  <2> QED BY <2>1, SameMemory
<1> QED BY <1>1, <1>2

LEMMA CalmExact ==
    ASSUME Exact, Calm
    PROVE  Exact'
<1>1. CASE exec' = exec
  <2> SUFFICES ASSUME NEW b \in Backfills, NEW c \in Chunks(b)
               PROVE  /\ Promised(b, c)'
                      /\ \A q \in Attempts : At(q, b, c)' => ExactIn(q, b, c)'
                      /\ OnlyRefused(b, c)'
    BY DEF Exact
  <2> QED BY <1>1, SameTables, SameMemory DEF Exact, Promised, Calm
<1>2. ASSUME NEW p \in Attempts, exec'[p].pc \in {"idle", "start"},
             \A q \in Attempts : q # p => exec'[q] = exec[q]
      PROVE  Exact'
  <2>1. \A b, c : ~At(p, b, c)'
    BY <1>2 DEF At, Body
  <2> QED BY <1>2, <2>1, MovesExact DEF Calm
<1> QED BY <1>1, <1>2 DEF Calm

\* The steps of a body before the write: what the attempt finds in the tables
\* is what it takes for granted afterwards.
LEMMA PrepareExact ==
    ASSUME Base, Exact, NEW p \in Attempts, RunChunk(p) \/ Decide(p) \/ Probe(p) \/ Compare(p)
    PROVE  Exact'
<1>1. Sound /\ Founded /\ UNCHANGED <<scenario, table, quarantine, checkpoints>>
  BY RunChunkFacts, DecideFacts, ProbeFacts, CompareFacts DEF Base
<1>2. \A q \in Attempts : q # p => exec'[q] = exec[q]
  BY <1>1, BodySteps DEF Working
<1> SUFFICES ASSUME NEW b \in Backfills, NEW c \in Chunks(b), At(p, b, c)'
             PROVE  ExactIn(p, b, c)'
  BY <1>1, <1>2, MovesExact
<1>3. p[1] = b /\ exec'[p].cursor = c /\ exec'[p].pc \in Body /\ b \notin Appends
  BY JobsAssumption DEF At
<1>4. exec'[p].into \in {"view", "quarantine"}
  BY <1>1, FitsNow, RunChunkFacts, DecideFacts, ProbeFacts, CompareFacts, <1>3 DEF Execs
<1>5. \A r \in Rows : table.rows[r] \in Nat /\ quarantine[b].rows[r] \in Nat
  BY <1>1, Counts
<1>6. CASE RunChunk(p)
  <2>1. exec'[p].pc = "deciding"
    BY <1>1, <1>6, RunChunkFacts
  <2>2. ASSUME exec'[p].into = "view", scenario.policy = "quarantine" PROVE Refused(b, c) = {}
    BY <1>1, <1>3, <1>6, <2>2, RunChunkFacts
  <2>3. exec'[p].into = "view" /\ Quarantined(b) => QuarantineExact(b, c)
    BY <1>5, <2>2 DEF Quarantined, QuarantineExact, Exact, OnlyRefused
  <2> QED BY <1>1, <2>1, <2>3, SameTables DEF ExactIn
<1>7. CASE Decide(p)
  <2>1. /\ exec[p].pc = "deciding" /\ exec[p].cursor = c
        /\ exec[p].into \in {"view", "quarantine"}
    BY <1>1, <1>3, <1>7, DecideFacts, FitsNow DEF Execs
  <2>2. ExactIn(p, b, c)
    BY <1>3, <2>1 DEF Exact, At, Body
  <2>3. exec[p].into = "view" /\ Quarantined(b) => QuarantineExact(b, c)
    BY <2>2 DEF ExactIn
  <2>4. ASSUME ~Target(p).exists
        PROVE  \A r \in Rows : Target(p).rows[r] = 0
    BY <1>1, <1>3, <2>4 DEF Target, Founded
  <2>5. CASE exec'[p].pc = "replacing"
    <3>1. exec'[p].keep = Preserved(p) /\ exec'[p].into = exec[p].into
      BY <1>1, <1>7, <2>5, DecideFacts
    <3>2. \A r \in Rows : In(r, c, ChunkEnd(b, c)) => Preserved(p)[r] = 0
      BY <1>3, <2>1 DEF Preserved, NoRows
    <3> QED BY <1>1, <2>3, <2>5, <3>1, <3>2, SameTables DEF ExactIn
  <2>6. CASE exec'[p].pc = "appending"
    <3>1. exec'[p].into = exec[p].into /\ ~Target(p).exists
      BY <1>1, <1>7, <2>6, DecideFacts
    <3>2. /\ exec[p].into = "view" => \A r \in Rows : table.rows[r] = 0
          /\ exec[p].into = "quarantine" => \A r \in Rows : quarantine[b].rows[r] = 0
      BY <1>3, <2>4, <3>1 DEF Target
    <3> QED BY <1>1, <2>1, <2>3, <2>6, <3>1, <3>2, SameTables DEF ExactIn
  <2>7. CASE exec'[p].pc = "deciding"
    <3>1. ~Target(p).exists /\ Writing(p) = {} /\ exec[p].into = "quarantine"
      BY <1>1, <1>7, <2>1, <2>7, DecideFacts
    <3>2. Refused(b, c) = {} /\ \A r \in Rows : quarantine[b].rows[r] = 0
      BY <1>3, <2>1, <2>4, <3>1 DEF Writing, Target
    <3>3. QuarantineExact(b, c)
      BY <3>2 DEF QuarantineExact
    <3> QED BY <1>1, <2>7, <3>3, SameTables DEF ExactIn
  <2>8. CASE exec'[p].pc = "checkpoint"
    <3>1. ~Target(p).exists /\ Writing(p) = {} /\ exec[p].into = "view"
      BY <1>1, <1>7, <2>1, <2>8, DecideFacts
    <3>2. Stored(scenario.policy, b, c) = {} /\ \A r \in Rows : table.rows[r] = 0
      BY <1>3, <2>1, <2>4, <3>1 DEF Writing, Target
    <3>3. ViewExact(b, c)
      BY <3>2 DEF ViewExact
    <3> QED BY <1>1, <2>3, <2>8, <3>1, <3>3, SameTables DEF ExactIn
  <2> QED BY <1>1, <1>7, <2>5, <2>6, <2>7, <2>8, DecideFacts
<1>8. CASE Probe(p)
  <2>1. /\ exec[p].pc = "appending" /\ exec'[p].pc = "adding" /\ exec[p].cursor = c
        /\ exec'[p].into = exec[p].into
    BY <1>1, <1>3, <1>8, ProbeFacts
  <2>2. ExactIn(p, b, c)
    BY <1>3, <2>1 DEF Exact, At, Body
  <2> QED BY <1>1, <2>1, <2>2, SameTables DEF ExactIn
<1>9. CASE Compare(p)
  BY <1>1, <1>3, <1>9, CompareFacts
<1> QED BY <1>6, <1>7, <1>8, <1>9

LEMMA CheckpointExact ==
    ASSUME Base, Exact, NEW p \in Attempts, Checkpoint(p)
    PROVE  Exact'
<1>1. /\ Sound /\ UNCHANGED <<scenario, table, quarantine>>
      /\ exec[p].pc = "checkpoint" /\ p[1] \in Backfills /\ exec'[p].pc = "start"
      /\ \A b \in Backfills \ {p[1]} : checkpoints'[b] = checkpoints[b]
      /\ checkpoints'[p[1]] = checkpoints[p[1]] \cup {exec[p].cursor}
  BY CheckpointFacts DEF Base
<1>2. \A q \in Attempts : q # p => exec'[q] = exec[q]
  BY <1>1, BodySteps DEF Working
<1> SUFFICES ASSUME NEW b \in Backfills, NEW c \in Chunks(b)
             PROVE  /\ Promised(b, c)'
                    /\ \A q \in Attempts : At(q, b, c)' => ExactIn(q, b, c)'
                    /\ OnlyRefused(b, c)'
  BY DEF Exact
<1>3. OnlyRefused(b, c)'
  BY <1>1, SameTables DEF Exact
<1>4. Promised(b, c)'
  <2>1. CASE p[1] = b /\ exec[p].cursor = c
    <3>1. ExactIn(p, b, c)
      BY <1>1, <2>1 DEF Exact, At, Body
    <3> QED BY <1>1, <3>1, SameTables DEF ExactIn, Promised
  <2>2. CASE ~(p[1] = b /\ exec[p].cursor = c)
    <3>1. Promised(b, c) /\ (c \in checkpoints'[b] => c \in checkpoints[b])
      BY <1>1, <2>2 DEF Exact
    <3> QED BY <1>1, <3>1, SameTables DEF Promised
  <2> QED BY <2>1, <2>2
<1>5. ASSUME NEW q \in Attempts PROVE At(q, b, c)' => ExactIn(q, b, c)'
  <2>1. CASE q = p
    BY <1>1, <2>1 DEF At, Body
  <2>2. CASE q # p
    <3>1. At(q, b, c) => ExactIn(q, b, c)
      BY DEF Exact
    <3> QED BY <1>1, <1>2, <2>2, <3>1, SameMemory
  <2> QED BY <2>1, <2>2
<1> QED BY <1>3, <1>4, <1>5

\* A commit of a backfill's chunk, row by row.
LEMMA ChunkWritten ==
    ASSUME Base, NEW p \in Attempts, Replace(p) \/ Add(p), p[1] \in Backfills
    PROVE  LET d   == exec[p].cursor
               new == IF exec[p].into = "view" THEN table' ELSE quarantine'[p[1]]
           IN  /\ d \in Chunks(p[1]) /\ exec[p].into \in {"view", "quarantine"}
               /\ exec[p].pc \in {"adding", "replacing"} /\ At(p, p[1], d)
               /\ \A r \in Rows : Date(r.event_timestamp) # Date(d) =>
                    new.rows[r] = Target(p).rows[r]
               /\ \A r \in Rows : In(r, d, ChunkEnd(p[1], d)) =>
                    LET base == IF exec[p].pc = "adding" THEN Target(p).rows[r]
                                ELSE exec[p].keep[r]
                    IN  new.rows[r] = IF r \in Writing(p) THEN base + 1 ELSE base
<1> DEFINE d == exec[p].cursor
           b == p[1]
<1>1. Sound /\ exec[p].pc \in {"adding", "replacing"}
  BY DEF Base, Replace, Add
<1>2. /\ d \in Chunks(b) /\ exec[p].into \in {"view", "quarantine"} /\ b \notin Appends
      /\ \A r \in Writing(p) : r \in Rows /\ In(r, d, ChunkEnd(b, d))
  BY <1>1, WritingRows, JobsAssumption
<1>3. \A r \in Rows : In(r, d, ChunkEnd(b, d)) => Date(r.event_timestamp) = Date(d)
  BY <1>2, ChunkRows
<1>4. At(p, b, d)
  BY <1>1 DEF At, Body
<1>5. CASE Replace(p)
  <2>1. exec[p].pc = "replacing"
    BY <1>5 DEF Replace
  <2> QED BY <1>1, <1>2, <1>3, <1>4, <1>5, <2>1, ReplaceFacts
<1>6. CASE Add(p)
  <2>1. exec[p].pc = "adding"
    BY <1>6 DEF Add
  <2> QED BY <1>1, <1>2, <1>3, <1>4, <1>6, <2>1, AddFacts
<1> QED BY <1>5, <1>6

\* A chunk that no other job writes stays as it is while its backfill writes
\* another chunk.
LEMMA ChunkKept ==
    ASSUME Base, NEW p \in Attempts, Replace(p) \/ Add(p),
           NEW b \in Backfills, NEW c \in Chunks(b), p[1] # b \/ exec[p].cursor # c,
           NEW r \in Rows, In(r, c, ChunkEnd(b, c))
    PROVE  /\ Alone(b, c) => table'.rows[r] = table.rows[r]
           /\ quarantine'[b].rows[r] = quarantine[b].rows[r]
<1>1. Sound /\ Live(p) /\ p[1] \in scenario.jobs /\ Date(r.event_timestamp) = Date(c)
  BY LiveJob, ChunkRows DEF Base, Replace, Add, Live
<1>2. PICK new : Commits(p, new) /\ exec[p].pc \in {"adding", "replacing"}
  BY DEF Replace, Add
<1>3. CASE p[1] # b
  <2>1. quarantine'[b] = quarantine[b]
    BY <1>1, <1>2, <1>3, CommitsFacts, FitsNow DEF Execs
  <2>2. Alone(b, c) => Date(r.event_timestamp) \notin DatesOf(p[1])
    BY <1>1, <1>3 DEF Alone, WritesAlone
  <2> QED BY <2>1, <2>2, UnwrittenDate
<1>4. CASE p[1] = b
  <2> DEFINE d == exec[p].cursor
             made == IF exec[p].into = "view" THEN table' ELSE quarantine'[b]
  <2>1. /\ d \in Chunks(b) /\ d # c /\ exec[p].into \in {"view", "quarantine"}
        /\ Date(r.event_timestamp) # Date(d) => made.rows[r] = Target(p).rows[r]
    BY <1>4, ChunkWritten
  <2>2. Date(r.event_timestamp) # Date(d)
    BY <1>1, <2>1, OneChunk
  <2>3. made.rows[r] = Target(p).rows[r]
    BY <2>1, <2>2
  <2>4. CASE exec[p].into = "view"
    BY <1>1, <1>2, <2>3, <2>4, CommitsFacts DEF Target
  <2>5. CASE exec[p].into = "quarantine"
    BY <1>1, <1>2, <1>4, <2>3, <2>5, CommitsFacts DEF Target
  <2> QED BY <2>1, <2>4, <2>5
<1> QED BY <1>3, <1>4

\* The commit of a chunk makes the view what its checkpoint promises.
LEMMA ViewWritten ==
    ASSUME Base, Exact, NEW p \in Attempts, Replace(p) \/ Add(p),
           NEW b \in Backfills, NEW c \in Chunks(b), p[1] = b, exec[p].cursor = c,
           exec[p].into = "view", Guarded(b), Alone(b, c)
    PROVE  ViewExact(b, c)'
<1>1. Sound /\ Standing /\ b \notin Appends /\ scenario' = scenario
  BY BodySteps, JobsAssumption DEF Base, Working
<1>2. /\ exec[p].pc \in {"adding", "replacing"} /\ At(p, b, c)
      /\ \A r \in Rows : In(r, c, ChunkEnd(b, c)) =>
           LET base == IF exec[p].pc = "adding" THEN Target(p).rows[r] ELSE exec[p].keep[r]
           IN  table'.rows[r] = IF r \in Writing(p) THEN base + 1 ELSE base
  BY ChunkWritten
<1>3. ExactIn(p, b, c)
  BY <1>2 DEF Exact
<1>4. Target(p) = table /\ Writing(p) = Stored(scenario.policy, b, c)
  BY <1>1 DEF Target, Writing
<1>5. CASE exec[p].pc = "replacing"
  <2>1. \A r \in Rows : In(r, c, ChunkEnd(b, c)) => exec[p].keep[r] = 0
    BY <1>3, <1>5 DEF ExactIn
  <2> QED BY <1>1, <1>2, <1>4, <1>5, <2>1 DEF ViewExact
<1>6. CASE exec[p].pc = "adding"
  <2>1. ~scenario.exists
    BY <1>1, <1>6 DEF Standing
  <2>2. b \notin scenario.overtaken
    BY <2>1 DEF Guarded
  <2>3. \A r \in Rows : In(r, c, ChunkEnd(b, c)) => table.rows[r] = 0
    BY <1>3, <1>6, <2>2 DEF ExactIn
  <2> QED BY <1>1, <1>2, <1>4, <1>6, <2>3 DEF ViewExact
<1> QED BY <1>2, <1>5, <1>6

\* The same of the quarantine table, where a commit never adds a row that the
\* contract lets through.
LEMMA QuarantineWritten ==
    ASSUME Base, Exact, NEW p \in Attempts, Replace(p) \/ Add(p),
           NEW b \in Backfills, NEW c \in Chunks(b), p[1] = b, exec[p].cursor = c,
           exec[p].into = "quarantine"
    PROVE  /\ Quarantined(b) => QuarantineExact(b, c)'
           /\ OnlyRefused(b, c)'
<1>1. Sound /\ b \notin Appends /\ scenario' = scenario
  BY BodySteps, JobsAssumption DEF Base, Working
<1>2. /\ exec[p].pc \in {"adding", "replacing"} /\ At(p, b, c)
      /\ \A r \in Rows : In(r, c, ChunkEnd(b, c)) =>
           LET base == IF exec[p].pc = "adding" THEN Target(p).rows[r] ELSE exec[p].keep[r]
           IN  quarantine'[b].rows[r] = IF r \in Writing(p) THEN base + 1 ELSE base
  BY ChunkWritten
<1>3. ExactIn(p, b, c) /\ OnlyRefused(b, c)
  BY <1>2 DEF Exact
<1>4. Target(p) = quarantine[b] /\ Writing(p) = Refused(b, c)
  BY <1>1 DEF Target, Writing
<1>5. CASE exec[p].pc = "replacing"
  <2>1. \A r \in Rows : In(r, c, ChunkEnd(b, c)) => exec[p].keep[r] = 0
    BY <1>3, <1>5 DEF ExactIn
  <2> QED BY <1>1, <1>2, <1>4, <1>5, <2>1 DEF QuarantineExact, OnlyRefused
<1>6. CASE exec[p].pc = "adding"
  <2>1. Quarantined(b) =>
          \A r \in Rows : In(r, c, ChunkEnd(b, c)) => quarantine[b].rows[r] = 0
    BY <1>3, <1>6 DEF ExactIn, Quarantined
  <2>2. Quarantined(b) => QuarantineExact(b, c)'
    BY <1>1, <1>2, <1>4, <1>6, <2>1 DEF QuarantineExact
  <2>3. OnlyRefused(b, c)'
    BY <1>1, <1>2, <1>3, <1>4, <1>6 DEF OnlyRefused
  <2> QED BY <2>2, <2>3
<1> QED BY <1>2, <1>5, <1>6

LEMMA WriteExact ==
    ASSUME Base, Exact, NEW p \in Attempts, Replace(p) \/ Add(p)
    PROVE  Exact'
<1>1. PICK new : Commits(p, new) /\ exec[p].pc \in {"adding", "replacing"}
  BY DEF Replace, Add
<1>2. /\ Sound /\ Scoped /\ Live(p) /\ UNCHANGED <<scenario, checkpoints>>
      /\ exec[p].into \in {"view", "quarantine"}
  BY <1>1, CommitsFacts, FitsNow DEF Base, Live, Execs
<1>3. \A q \in Attempts : q # p => exec'[q] = exec[q]
  BY <1>2, BodySteps DEF Working
<1> SUFFICES ASSUME NEW b \in Backfills, NEW c \in Chunks(b)
             PROVE  /\ Promised(b, c)'
                    /\ \A q \in Attempts : At(q, b, c)' => ExactIn(q, b, c)'
                    /\ OnlyRefused(b, c)'
  BY DEF Exact
<1>4. /\ Guarded(b)' <=> Guarded(b)
      /\ Quarantined(b)' <=> Quarantined(b)
      /\ Alone(b, c)' <=> Alone(b, c)
  BY <1>2 DEF Guarded, Quarantined, Alone, WritesAlone
<1>5. Promised(b, c) /\ OnlyRefused(b, c) /\ \A q \in Attempts : At(q, b, c) => ExactIn(q, b, c)
  BY DEF Exact
<1> DEFINE Mine == p[1] = b /\ exec[p].cursor = c
<1>6. ASSUME exec[p].into = "view" PROVE quarantine' = quarantine
  BY <1>1, <1>2, <1>6, CommitsFacts
<1>7. ASSUME exec[p].into = "quarantine" PROVE table' = table
  BY <1>1, <1>2, <1>7, CommitsFacts
<1>8. ASSUME Guarded(b), Alone(b, c), ViewExact(b, c) PROVE ViewExact(b, c)'
  <2>1. CASE Mine /\ exec[p].into = "view"
    BY <1>8, <2>1, ViewWritten
  <2>2. CASE exec[p].into = "quarantine"
    BY <1>2, <1>7, <1>8, <2>2 DEF ViewExact
  <2>3. CASE ~Mine
    BY <1>2, <1>8, <2>3, ChunkKept DEF ViewExact
  <2> QED BY <1>2, <2>1, <2>2, <2>3
<1>9. ASSUME Quarantined(b), QuarantineExact(b, c) PROVE QuarantineExact(b, c)'
  <2>1. CASE Mine /\ exec[p].into = "quarantine"
    BY <1>9, <2>1, QuarantineWritten
  <2>2. CASE exec[p].into = "view"
    BY <1>2, <1>6, <1>9, <2>2 DEF QuarantineExact
  <2>3. CASE ~Mine
    BY <1>2, <1>9, <2>3, ChunkKept DEF QuarantineExact
  <2> QED BY <1>2, <2>1, <2>2, <2>3
<1>10. Promised(b, c)'
  BY <1>2, <1>4, <1>5, <1>8, <1>9 DEF Promised
<1>11. OnlyRefused(b, c)'
  <2>1. CASE Mine /\ exec[p].into = "quarantine"
    BY <2>1, QuarantineWritten
  <2>2. CASE exec[p].into = "view"
    BY <1>5, <1>6, <2>2 DEF OnlyRefused
  <2>3. CASE ~Mine
    BY <1>5, <2>3, ChunkKept DEF OnlyRefused
  <2> QED BY <1>2, <2>1, <2>2, <2>3
<1>12. ASSUME At(p, b, c)' PROVE ExactIn(p, b, c)'
  <2>1. /\ Mine /\ exec'[p].into = "view" /\ b \notin Appends
        /\ exec'[p].pc = IF exec[p].into = "quarantine" THEN "deciding" ELSE "checkpoint"
    BY <1>1, <1>2, <1>12, CommitsFacts, JobsAssumption DEF At
  <2>2. CASE exec[p].into = "quarantine"
    <3>1. Quarantined(b) => QuarantineExact(b, c)'
      BY <2>1, <2>2, QuarantineWritten
    <3> QED BY <1>4, <2>1, <2>2, <3>1 DEF ExactIn
  <2>3. CASE exec[p].into = "view"
    <3>1. Guarded(b) /\ Alone(b, c) => ViewExact(b, c)'
      BY <2>1, <2>3, ViewWritten
    <3>2. At(p, b, c)
      BY <1>1, <2>1 DEF At, Body
    <3>3. Quarantined(b) => QuarantineExact(b, c)
      BY <1>5, <2>3, <3>2 DEF ExactIn
    <3> QED BY <1>4, <1>9, <2>1, <2>3, <3>1, <3>3 DEF ExactIn
  <2> QED BY <1>2, <2>2, <2>3
<1>13. ASSUME NEW q \in Attempts, q # p, At(q, b, c)' PROVE ExactIn(q, b, c)'
  <2>1. exec'[q] = exec[q] /\ At(q, b, c) /\ ExactIn(q, b, c) /\ Live(q) /\ q[1] = b
    BY <1>3, <1>5, <1>13 DEF At, Live, Body
  <2>2. b \notin scenario.overtaken => p[1] # b
    BY <1>2, <1>13, <2>1, OnlyOne
  <2>3. b \notin scenario.overtaken =>
          \A r \in Rows : In(r, c, ChunkEnd(b, c)) =>
              /\ Alone(b, c) => table'.rows[r] = table.rows[r]
              /\ quarantine'[b].rows[r] = quarantine[b].rows[r]
    BY <2>2, ChunkKept
  <2>4. /\ exec[q].pc = "checkpoint" /\ Guarded(b) /\ Alone(b, c) => ViewExact(b, c)'
        /\ (exec[q].pc = "checkpoint" \/ exec[q].into = "view") /\ Quarantined(b) =>
             QuarantineExact(b, c)'
    BY <1>8, <1>9, <2>1 DEF ExactIn
  <2>5. /\ exec[q].pc \in {"appending", "adding"} /\ exec[q].into = "view"
           /\ b \notin scenario.overtaken /\ Alone(b, c) =>
             \A r \in Rows : In(r, c, ChunkEnd(b, c)) => table'.rows[r] = 0
        /\ exec[q].pc \in {"appending", "adding"} /\ exec[q].into = "quarantine"
           /\ b \notin scenario.overtaken =>
             \A r \in Rows : In(r, c, ChunkEnd(b, c)) => quarantine'[b].rows[r] = 0
    BY <2>1, <2>3 DEF ExactIn
  <2> QED BY <1>2, <1>4, <2>1, <2>4, <2>5 DEF ExactIn
<1> QED BY <1>10, <1>11, <1>12, <1>13

LEMMA ExactNext ==
    ASSUME Base, Exact, [Next]_vars
    PROVE  Exact'
<1>1. ASSUME NEW p \in Attempts, Reading(p) PROVE Exact'
  <2>1. /\ UNCHANGED <<scenario, table, quarantine, checkpoints>>
        /\ \A q \in Attempts : q # p => exec'[q] = exec[q]
        /\ p[1] \notin Backfills
    BY <1>1, ReadingFacts, BodySteps, Kinds DEF Base
  <2>2. \A b \in Backfills : \A c : ~At(p, b, c)'
    BY <2>1 DEF At
  <2> QED BY <2>1, <2>2, MovesExact
<1>2. ASSUME NEW p \in Attempts, Working(p) PROVE Exact'
  BY <1>2, PrepareExact, CheckpointExact, WriteExact DEF Working
<1> QED BY <1>1, <1>2, CalmExact, StepKinds DEF Base

\* A chunk in the checkpoints of a backfill is in the view exactly, and its
\* refused rows are in quarantine exactly, whatever attempts crashed between
\* the writes and the checkpoint and wrote the chunk again (_backfill's
\* overwrite_partition, "Replayed backfills replace affected partitions").
THEOREM CheckpointsExact == Spec => []ChunksExact
<1>1. Init => Exact
  BY ExactInit
<1>2. Base /\ Exact /\ [Next]_vars => Exact'
  BY ExactNext
<1>3. Base /\ Exact => ChunksExact
  <2> SUFFICES ASSUME Base, Exact, NEW b \in Backfills, NEW c \in checkpoints[b],
                      WritesAlone(b, Date(c)), NEW r \in Rows, In(r, c, ChunkEnd(b, c))
               PROVE  /\ Guarded(b) =>
                           table.rows[r] = IF r \in Stored(scenario.policy, b, c) THEN 1 ELSE 0
                      /\ Quarantined(b) =>
                           quarantine[b].rows[r] = IF r \in Refused(b, c) THEN 1 ELSE 0
    BY DEF ChunksExact, Guarded, Quarantined
  <2>1. c \in Chunks(b)
    BY DEF Base, Sound, Within
  <2> QED BY <2>1 DEF Exact, Promised, Alone, ViewExact, QuarantineExact
<1> QED BY <1>1, <1>2, <1>3, AlwaysBase, PTL DEF Spec

=============================================================================
