--------------------------- MODULE StreamIngestion ---------------------------
(***************************************************************************)
(* The stream consumer (streaming.py) with its ledger (ledger.py): Kafka   *)
(* partitions are polled in order, each message is validated, registered   *)
(* in Postgres, buffered and written to Redis; full or old buffers are     *)
(* staged as offline_append jobs, and only then are offsets committed.     *)
(*                                                                         *)
(* One consumer process runs at a time, the only arrangement the           *)
(* repository supports.  Each action is one step with an effect outside    *)
(* the process, so that a crash or an exception can fall between any two.  *)
(***************************************************************************)
EXTENDS OnlineStore, Sequences, FiniteSets

CONSTANTS
    Views,       \* pinned feature view references
    Ids,         \* event identifiers, ordered as their text is
    Entities,    \* combinations of entity values
    Contents,    \* canonical payloads, as their fingerprints tell them apart
    None,        \* the columns of a ledger row that does not exist
    Partitions,  \* partitions of the subscribed topics
    Logs,        \* what producers may have written to the partitions
    BatchSize,   \* settings.stream_batch_size
    Faults,      \* which failures the environment may produce
    MaxFaults,   \* bound: how many of them one behaviour contains
    MaxLog       \* bound: how many messages a partition holds

Keys == Views \X Ids

(***************************************************************************)
(* "verdicts" is the set of results validation may give a message: it is a *)
(* set because freshness rules compare the event time with the clock, so   *)
(* that a message redelivered later may be judged differently.             *)
(***************************************************************************)
Verdicts == {"invalid", "reject", "quarantine", "valid"}

Messages == [key : Keys, content : Contents, verdicts : SUBSET Verdicts]

FaultKinds ==
    { "crash",          \* the process is killed
      "shutdown",       \* an interrupt arrives while the loop polls
      "ledger",         \* a statement of the handler's session raises
      "ledger_ack",     \* the registration takes effect and still raises
      "redis",          \* an online write raises, with or without effect
      "staging",        \* a batch fails before its commit
      "after_staging",  \* the commit of a batch, or what follows it, raises
      "dlq_error",      \* producing to the dead-letter topic raises
      "dlq_loss",       \* a dead letter is accepted by the client and lost
      "kafka" }         \* an offset commit raises, with or without effect

ASSUME IdsAssumption == Ids \subseteq Nat
ASSUME ContentsAssumption ==
    \A c \in Contents : c.entity \in Entities /\ c.event_timestamp \in Nat \ {0}
ASSUME LogsAssumption ==
    /\ Logs \subseteq [Partitions -> Seq(Messages)]
    /\ \A l \in Logs, p \in Partitions : Len(l[p]) <= MaxLog
ASSUME BoundsAssumption ==
    /\ BatchSize \in Nat \ {0} /\ MaxFaults \in Nat /\ MaxLog \in Nat
    /\ Faults \subseteq FaultKinds

VARIABLES
    log,        \* the partitions: what the brokers hold
    committed,  \* the group's committed offset of each partition
    ledger,     \* table stream_events
    batches,    \* the offline_append jobs, each with its staged rows
    redis,      \* the online hash of each view and entity
    dlq,        \* positions whose messages reached the dead-letter topic
    lost,       \* positions whose dead letters the producer gave up
    unwritten,  \* events whose online write raised, as a metric counts them
    budget,     \* failures still to come
    pc,         \* where the process is
    level,      \* which block an exception would leave
    at,         \* position of the message in hand
    position,   \* the next offset to poll from each partition
    buffer,     \* identities in self.buffers
    held,       \* BufferedEvent.messages, as positions
    acks        \* the list staged_messages of a flush under way

brokers == <<log, committed, dlq, lost>>
stores  == <<ledger, batches, redis, unwritten>>
control == <<pc, level, at>>
memory  == <<position, buffer, held, acks>>
vars    == <<brokers, stores, control, memory, budget>>

Positions == Partitions \X Nat
NoMessage == <<>>

Message(where) == log[where[1]][where[2] + 1]

Absent == [state |-> "absent", content |-> None, job |-> 0]

Rows == {Absent} \cup
        [state : {"pending", "staged", "applied"}, content : Contents, job : Nat]

Batches == [view : Views, events : SUBSET (Ids \X Contents)]

Levels == {"idle", "body", "rescue", "loop", "exit", "recover"}
Places == {"down", "recover", "poll", "register", "online", "dead_letter",
           "flush", "ack", "commit"}

\* StreamEventLedger.pending
Pending == {k \in Keys : ledger[k].state = "pending"}

Buffered(v) == {k \in buffer : k[1] = v}

\* An event as the online store sees it.
Version(k, c) == [event_timestamp |-> c.event_timestamp, event_id |-> k[2]]

Init ==
    /\ log \in Logs
    /\ committed = [p \in Partitions |-> 0]
    /\ ledger = [k \in Keys |-> Absent]
    /\ batches = <<>>
    /\ redis = [h \in Views \X Entities |-> NoHash]
    /\ dlq = {}
    /\ lost = {}
    /\ unwritten = {}
    /\ budget = MaxFaults
    /\ pc = "down"
    /\ level = "idle"
    /\ at = NoMessage
    /\ position = [p \in Partitions |-> 0]
    /\ buffer = {}
    /\ held = [k \in Keys |-> {}]
    /\ acks = {}

-----------------------------------------------------------------------------
(* Exceptions and the end of the process *)

Fault(f) == f \in Faults /\ budget > 0 /\ budget' = budget - 1

\* The process is gone and with it everything it remembered.
Halt ==
    /\ pc' = "down" /\ level' = "idle" /\ at' = NoMessage
    /\ buffer' = {} /\ held' = [k \in Keys |-> {}] /\ acks' = {}

\* The try block of _handle: both except clauses do the same.
Rescue == pc' = "dead_letter" /\ level' = "rescue" /\ at' = at /\ acks' = {}

(***************************************************************************)
(* Where an exception goes: from the try block of _handle to its except    *)
(* clauses, from those and from the loop to the finally clause of loop,    *)
(* and from that clause and from recover_pending out of the process.       *)
(***************************************************************************)
Raise ==
    \/ /\ level = "body"
       /\ Rescue
       /\ UNCHANGED <<buffer, held>>
    \/ /\ level \in {"rescue", "loop"}
       /\ pc' = "flush" /\ level' = "exit" /\ at' = NoMessage /\ acks' = {}
       /\ UNCHANGED <<buffer, held>>
    \/ level \in {"exit", "recover"} /\ Halt

\* The handler or a flush of the loop returns to the poll.
Return == pc' = "poll" /\ level' = "idle" /\ at' = NoMessage

Crash ==
    /\ pc # "down"
    /\ Fault("crash")
    /\ Halt
    /\ UNCHANGED <<brokers, stores, position>>

\* KeyboardInterrupt in the loop: its finally clause flushes once more.
Shutdown ==
    /\ pc = "poll"
    /\ Fault("shutdown")
    /\ pc' = "flush" /\ level' = "exit"
    /\ UNCHANGED <<brokers, stores, at, memory>>

-----------------------------------------------------------------------------
(* Startup *)

\* Mutant: the position is one message short.
StartRewinds ==
    /\ pc = "down"
    /\ pc' = "recover" /\ level' = "recover"
    /\ position' = [p \in Partitions |-> committed[p] - 1]
    /\ UNCHANGED <<brokers, stores, at, buffer, held, acks, budget>>

\* Mutant: without a committed offset, polling starts at the end.
StartAtEnd ==
    /\ pc = "down"
    /\ pc' = "recover" /\ level' = "recover"
    /\ position' = [p \in Partitions |->
          IF committed[p] = 0 THEN Len(log[p]) ELSE committed[p]]
    /\ UNCHANGED <<brokers, stores, at, buffer, held, acks, budget>>

\* A new process; its group resumes from the committed offsets.
Start ==
    /\ pc = "down"
    /\ pc' = "recover" /\ level' = "recover"
    /\ position' = committed
    /\ UNCHANGED <<brokers, stores, at, buffer, held, acks, budget>>

OnlineWrite(k) ==
    LET hash == <<k[1], ledger[k].content.entity>>
    IN  redis' = [redis EXCEPT ![hash] = Upsert(@, Version(k, ledger[k].content))]

\* Mutant: recovery stages what is pending and leaves Redis alone.
RecoverOneOffline(k) ==
    /\ pc = "recover"
    /\ k \in Pending \ buffer
    /\ buffer' = buffer \cup {k}
    /\ UNCHANGED <<brokers, stores, control, position, held, acks, budget>>

\* One turn of recover_pending's loop; a failed write ends the process.
RecoverOne(k) ==
    /\ pc = "recover"
    /\ k \in Pending \ buffer
    /\ \/ /\ OnlineWrite(k)
          /\ buffer' = buffer \cup {k}
          /\ UNCHANGED <<control, held, acks, budget>>
       \/ /\ Fault("redis")
          /\ OnlineWrite(k) \/ UNCHANGED redis
          /\ Halt
    /\ UNCHANGED <<brokers, ledger, batches, unwritten, position>>

\* Every pending event is buffered: stage them, if any, then subscribe.
Recovered ==
    /\ pc = "recover"
    /\ Pending \subseteq buffer
    /\ IF buffer = {} THEN Return ELSE pc' = "flush" /\ UNCHANGED <<level, at>>
    /\ UNCHANGED <<brokers, stores, memory, budget>>

-----------------------------------------------------------------------------
(* Handling a message *)

\* A buffered event counts once per message, and once if it has none.
Count == Cardinality(UNION {held[k] : k \in buffer})
       + Cardinality({k \in buffer : held[k] = {}})

\* Mutant: only a full buffer is flushed.
FlushDueBySize ==
    /\ pc = "poll"
    /\ Count >= BatchSize
    /\ pc' = "flush" /\ level' = "loop"
    /\ UNCHANGED <<brokers, stores, at, memory, budget>>

\* _should_flush once the flush interval has passed.
FlushDue ==
    /\ pc = "poll"
    /\ buffer # {}
    /\ pc' = "flush" /\ level' = "loop"
    /\ UNCHANGED <<brokers, stores, at, memory, budget>>

\* Mutant: a rejected message is committed before the buffer is flushed.
RouteWithoutFlush ==
    [invalid    |-> [pc |-> "dead_letter", level |-> "rescue"],
     reject     |-> [pc |-> "commit",      level |-> "body"],
     quarantine |-> [pc |-> "dead_letter", level |-> "body"],
     valid      |-> [pc |-> "register",    level |-> "body"]]

\* Where validation sends a message.
Route ==
    [invalid    |-> [pc |-> "dead_letter", level |-> "rescue"],
     reject     |-> [pc |-> "flush",       level |-> "body"],
     quarantine |-> [pc |-> "dead_letter", level |-> "body"],
     valid      |-> [pc |-> "register",    level |-> "body"]]

\* The next message of a partition is polled and validated.  A full buffer
\* is flushed before the next poll.
Poll(p) ==
    /\ pc = "poll"
    /\ Count < BatchSize
    /\ position[p] < Len(log[p])
    /\ at' = <<p, position[p]>>
    /\ position' = [position EXCEPT ![p] = @ + 1]
    /\ \E verdict \in Message(at').verdicts :
          pc' = Route[verdict].pc /\ level' = Route[verdict].level
    /\ UNCHANGED <<brokers, stores, buffer, held, acks, budget>>

Insert(k, c) ==
    ledger' = [ledger EXCEPT ![k] = [state |-> "pending", content |-> c, job |-> 0]]

\* Mutant: an identity that exists is a duplicate whatever its content.
RegisterIgnoresContent ==
    /\ pc = "register"
    /\ LET m == Message(at)
           row == ledger[m.key]
       IN  \/ row = Absent /\ Insert(m.key, m.content) /\ pc' = "online"
           \/ /\ row # Absent
              /\ pc' = IF row.state = "pending" THEN "online" ELSE "flush"
              /\ UNCHANGED ledger
    /\ UNCHANGED <<brokers, batches, redis, unwritten, level, at, memory, budget>>

\* StreamEventLedger.register, and the branch its result selects.
Register ==
    /\ pc = "register"
    /\ LET m == Message(at)
           row == ledger[m.key]
       IN  \/ /\ row = Absent
              /\ Insert(m.key, m.content)
              /\ pc' = "online"
           \/ /\ row # Absent /\ row.content = m.content
              /\ pc' = IF row.state = "pending" THEN "online" ELSE "flush"
              /\ UNCHANGED ledger
           \/ /\ row # Absent /\ row.content # m.content
              /\ pc' = "dead_letter"
              /\ UNCHANGED ledger
    /\ UNCHANGED <<brokers, batches, redis, unwritten, level, at, memory, budget>>

\* The session raises, before or after the insertion took effect.
RegisterRaises ==
    /\ pc = "register"
    /\ \/ Fault("ledger") /\ UNCHANGED ledger
       \/ /\ Fault("ledger_ack")
          /\ ledger[Message(at).key] = Absent
          /\ Insert(Message(at).key, Message(at).content)
    /\ Rescue
    /\ UNCHANGED <<brokers, batches, redis, unwritten, position, buffer, held>>

\* _buffer keeps the message; the first one of an event also writes online.
Hold ==
    LET k == Message(at).key
    IN  /\ buffer' = buffer \cup {k}
        /\ held' = [held EXCEPT ![k] = @ \cup {at}]

Buffer ==
    LET k == Message(at).key
    IN  /\ pc = "online"
        /\ Hold
        /\ IF k \in buffer THEN UNCHANGED redis ELSE OnlineWrite(k)
        /\ Return
        /\ UNCHANGED <<brokers, ledger, batches, unwritten, position, acks, budget>>

\* The event is buffered before Redis is asked, and stays so.
BufferRaises ==
    LET k == Message(at).key
    IN  /\ pc = "online"
        /\ k \notin buffer
        /\ Fault("redis")
        /\ Hold
        /\ OnlineWrite(k) \/ UNCHANGED redis
        /\ unwritten' = unwritten \cup {k}
        /\ Rescue
        /\ UNCHANGED <<brokers, ledger, batches, position>>

\* _dead_letter does not look at the result of producer.flush.
DeadLetter ==
    /\ pc = "dead_letter"
    /\ \/ dlq' = dlq \cup {at} /\ UNCHANGED <<lost, budget>>
       \/ Fault("dlq_loss") /\ lost' = lost \cup {at} /\ UNCHANGED dlq
    /\ pc' = "flush"
    /\ UNCHANGED <<log, committed, stores, level, at, memory>>

DeadLetterRaises ==
    /\ pc = "dead_letter"
    /\ Fault("dlq_error")
    /\ Raise
    /\ UNCHANGED <<brokers, stores, position>>

-----------------------------------------------------------------------------
(* Staging and offsets *)

\* The transaction of _flush_view: a job, and its events marked staged.
Stage(v) ==
    /\ batches' = Append(batches,
         [view |-> v, events |-> {<<k[2], ledger[k].content>> : k \in Buffered(v)}])
    /\ ledger' = [k \in Keys |->
         IF k \in Buffered(v)
         THEN [ledger[k] EXCEPT !.state = "staged", !.job = Len(batches) + 1]
         ELSE ledger[k]]

Clear(v) ==
    /\ buffer' = buffer \ Buffered(v)
    /\ held' = [k \in Keys |-> IF k[1] = v THEN {} ELSE held[k]]

\* Mutant: the batch takes its buffer as it is.
StageableAny(v) == Buffered(v) # {}

\* _flush_view raises unless every buffered event is still pending.
Stageable(v) == Buffered(v) # {} /\ Buffered(v) \subseteq Pending

FlushView(v) ==
    /\ pc = "flush"
    /\ Stageable(v)
    /\ Stage(v)
    /\ Clear(v)
    /\ acks' = acks \cup UNION {held[k] : k \in Buffered(v)}
    /\ UNCHANGED <<brokers, redis, unwritten, control, position, budget>>

\* The batch is committed and its buffer is not emptied.
FlushViewRaises(v) ==
    /\ pc = "flush"
    /\ Stageable(v)
    /\ Fault("after_staging")
    /\ Stage(v)
    /\ Raise
    /\ UNCHANGED <<brokers, redis, unwritten, position>>

\* Staging fails, or finds an event that is not pending any more.
FlushRaises ==
    /\ pc = "flush"
    /\ buffer # {}
    /\ \/ Fault("staging")
       \/ ~(buffer \subseteq Pending) /\ UNCHANGED budget
    /\ Raise
    /\ UNCHANGED <<brokers, stores, position>>

Flushed ==
    /\ pc = "flush"
    /\ buffer = {}
    /\ pc' = "ack"
    /\ UNCHANGED <<brokers, stores, level, at, memory, budget>>

\* The newest staged message of a partition becomes its committed offset.
CommitNewest(p) ==
    \E w \in acks :
        /\ w[1] = p
        /\ \A other \in acks : other[1] = p => other[2] <= w[2]
        /\ committed' = [committed EXCEPT ![p] = w[2] + 1]

\* One turn of _commit_latest.
CommitLatest(p) ==
    /\ pc = "ack"
    /\ CommitNewest(p)
    /\ acks' = {w \in acks : w[1] # p}
    /\ UNCHANGED <<log, dlq, lost, stores, control, position, buffer, held, budget>>

CommitLatestRaises(p) ==
    /\ pc = "ack"
    /\ \E w \in acks : w[1] = p
    /\ Fault("kafka")
    /\ CommitNewest(p) \/ UNCHANGED committed
    /\ Raise
    /\ UNCHANGED <<log, dlq, lost, stores, position>>

\* The flush is over: the handler commits its own message, the loop polls.
Acked ==
    /\ pc = "ack"
    /\ acks = {}
    /\ \/ /\ level \in {"body", "rescue"}
          /\ pc' = "commit"
          /\ UNCHANGED <<level, at, buffer, held, acks>>
       \/ level \in {"loop", "recover"} /\ Return /\ UNCHANGED <<buffer, held, acks>>
       \/ level = "exit" /\ Halt
    /\ UNCHANGED <<brokers, stores, position, budget>>

CommitOwn == committed' = [committed EXCEPT ![at[1]] = at[2] + 1]

Commit ==
    /\ pc = "commit"
    /\ CommitOwn
    /\ Return
    /\ UNCHANGED <<log, dlq, lost, stores, memory, budget>>

CommitRaises ==
    /\ pc = "commit"
    /\ Fault("kafka")
    /\ CommitOwn \/ UNCHANGED committed
    /\ Raise
    /\ UNCHANGED <<log, dlq, lost, stores, position>>

-----------------------------------------------------------------------------
\* The worker that succeeds with a batch marks its events applied.
Apply(j) ==
    /\ j \in 1..Len(batches)
    /\ \E k \in Keys : ledger[k].job = j /\ ledger[k].state = "staged"
    /\ ledger' = [k \in Keys |->
         IF ledger[k].job = j /\ ledger[k].state = "staged"
         THEN [ledger[k] EXCEPT !.state = "applied"] ELSE ledger[k]]
    /\ UNCHANGED <<brokers, batches, redis, unwritten, control, memory, budget>>

\* What the process does when nothing fails around it.
Consume ==
    \/ Start \/ (\E k \in Keys : RecoverOne(k)) \/ Recovered
    \/ FlushDue \/ (\E p \in Partitions : Poll(p))
    \/ Register \/ Buffer \/ DeadLetter
    \/ (\E v \in Views : FlushView(v)) \/ FlushRaises \/ Flushed
    \/ (\E p \in Partitions : CommitLatest(p)) \/ Acked \/ Commit

Fail ==
    \/ Crash \/ Shutdown
    \/ RegisterRaises \/ BufferRaises \/ DeadLetterRaises
    \/ (\E v \in Views : FlushViewRaises(v))
    \/ (\E p \in Partitions : CommitLatestRaises(p)) \/ CommitRaises

Next == Consume \/ Fail \/ \E j \in 1..Len(batches) : Apply(j)

Spec == Init /\ [][Next]_vars

\* The loop never waits but for its poll; a supervisor restarts the process.
FairSpec == Spec /\ WF_vars(Consume)

-----------------------------------------------------------------------------
(* Properties *)

(***************************************************************************)
(* Type correctness: what StreamConsumer keeps in memory, what it leaves   *)
(* in Kafka, Postgres and Redis, and the bound on failures.                *)
(***************************************************************************)
TypeOK ==
    /\ log \in [Partitions -> Seq(Messages)]
    /\ committed \in [Partitions -> Nat]
    /\ ledger \in [Keys -> Rows]
    /\ batches \in Seq(Batches)
    /\ redis \in [Views \X Entities -> Versions \cup {NoHash}]
    /\ dlq \subseteq Positions /\ lost \subseteq Positions
    /\ unwritten \subseteq Keys
    /\ budget \in 0..MaxFaults
    /\ pc \in Places /\ level \in Levels
    /\ at \in Positions \cup {NoMessage}
    /\ position \in [Partitions -> Nat]
    /\ buffer \subseteq Keys
    /\ held \in [Keys -> SUBSET Positions]
    /\ acks \subseteq Positions

\* What became of a message: it is in the ledger, in the dead-letter topic,
\* or its view's policy drops what fails its quality rules.
Settled(where) ==
    LET m == Message(where)
    IN  \/ where \in dlq
        \/ ledger[m.key] # Absent /\ ledger[m.key].content = m.content
        \/ "reject" \in m.verdicts

(***************************************************************************)
(* No message is lost: Kafka will never deliver again what lies below a    *)
(* committed offset, so all of it must be durable elsewhere, whatever      *)
(* crashed or raised between the poll and the commit.  The one exception   *)
(* is a dead letter that the producer accepted and did not deliver.        *)
(***************************************************************************)
CommittedIsSettled ==
    \A p \in Partitions : \A o \in 0..(committed[p] - 1) :
        Settled(<<p, o>>) \/ <<p, o>> \in lost

(***************************************************************************)
(* A commit never moves an offset back, although Kafka would accept it:    *)
(* every branch that commits its own message flushes the buffer first, so  *)
(* no older message waits to be committed later.                           *)
(***************************************************************************)
OffsetsNeverRegress ==
    [][\A p \in Partitions : committed'[p] >= committed[p]]_vars

(***************************************************************************)
(* Exactly-once staging: the events of a batch are those whose ledger rows *)
(* name its job, with the content the ledger holds.  Hence no event is in  *)
(* two batches, and none is marked staged without a batch that carries it, *)
(* through redelivery, recovery and batches that were committed but raised.*)
(***************************************************************************)
StagedExactlyOnce ==
    /\ \A k \in Keys :
          ledger[k].state \in {"staged", "applied"} =>
              ledger[k].job \in 1..Len(batches)
    /\ \A j \in 1..Len(batches), k \in Keys, c \in Contents :
          (k[1] = batches[j].view /\ <<k[2], c>> \in batches[j].events)
            <=> (ledger[k].job = j /\ ledger[k].content = c)

Online(k) == AtLeast(redis[<<k[1], ledger[k].content.entity>>],
                     Version(k, ledger[k].content))

\* A message carrying the accepted content of the event was dead-lettered.
DeadLettered(k) ==
    \E where \in dlq \cup lost :
        Message(where).key = k /\ Message(where).content = ledger[k].content

(***************************************************************************)
(* Both stores agree, as the streaming path promises ("atomically updates  *)
(* Redis and buffers"): once an event is staged for the offline table, the *)
(* online hash of its entity is that event or a newer one.  A failed       *)
(* online write refutes it.                                                *)
(***************************************************************************)
StagedIsOnline ==
    \A k \in Keys : ledger[k].state \in {"staged", "applied"} => Online(k)

(***************************************************************************)
(* What holds of the code: neither a crash nor any other exception opens   *)
(* that gap, only the failed write of the very event does.                 *)
(***************************************************************************)
StagedIsOnlineOrFailed ==
    \A k \in Keys :
        ledger[k].state \in {"staged", "applied"} => Online(k) \/ k \in unwritten

(***************************************************************************)
(* The consumer gets to every message, if failures are finitely many.      *)
(***************************************************************************)
EveryMessageSettled ==
    \A p \in Partitions : \A o \in 0..(MaxLog - 1) :
        <>(o < Len(log[p]) => Settled(<<p, o>>) \/ <<p, o>> \in lost)

(***************************************************************************)
(* An accepted event is staged in the end, across restarts; one whose      *)
(* registration raised after its commit is dead-lettered and may wait for  *)
(* the next restart.                                                       *)
(***************************************************************************)
PendingIsStaged ==
    \A k \in Keys :
        ledger[k].state = "pending" ~>
            (ledger[k].state \in {"staged", "applied"} \/ DeadLettered(k))

=============================================================================
