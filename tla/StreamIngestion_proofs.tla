------------------------ MODULE StreamIngestion_proofs ------------------------
(***************************************************************************)
(* Proofs about StreamIngestion, for all partitions, logs, contents and    *)
(* bounds and every set of faults.                                         *)
(***************************************************************************)
EXTENDS StreamIngestion, TLAPS

-----------------------------------------------------------------------------
(* The online store *)

Hashes == Versions \cup {NoHash}

(***************************************************************************)
(* The update script: the hash that results is one of the two versions and *)
(* at least as new as both, whatever order the writes come in.             *)
(***************************************************************************)
LEMMA UpsertKeepsNewest ==
    ASSUME NEW stored \in Hashes, NEW event \in Versions
    PROVE  /\ Upsert(stored, event) \in Versions
           /\ AtLeast(Upsert(stored, event), event)
           /\ AtLeast(Upsert(stored, event), stored)
BY DEF Hashes, Versions, NoHash, Upsert, AtLeast

\* Versions are ordered by event time and then by identifier.
LEMMA AtLeastTransitive ==
    ASSUME NEW a \in Hashes, NEW b \in Hashes, NEW c \in Hashes,
           AtLeast(a, b), AtLeast(b, c)
    PROVE  AtLeast(a, c)
BY DEF Hashes, Versions, NoHash, AtLeast

\* The version of an event is one the script can store.
LEMMA VersionType ==
    ASSUME NEW k \in Keys, NEW c \in Contents
    PROVE  Version(k, c) \in Versions
BY ContentsAssumption, IdsAssumption DEF Version, Versions, Keys

-----------------------------------------------------------------------------
(* What each place of the program knows *)

InHand == level \in {"body", "rescue"}

(***************************************************************************)
(* Control: which levels a place can have, and what the process has in     *)
(* hand and in memory there.  Buffers are empty once a flush has come to   *)
(* the commits, and a stopped process remembers nothing.                   *)
(***************************************************************************)
PlaceInv ==
    /\ pc \in {"down", "poll"} <=> level = "idle"
    /\ pc = "recover" => level = "recover"
    /\ pc \in {"register", "online"} => level = "body"
    /\ pc \in {"dead_letter", "commit"} => InHand
    /\ InHand => at \in Positions
    /\ ~InHand => at = NoMessage
    /\ pc = "down" => buffer = {}
    /\ pc \in {"ack", "commit"} => buffer = {}
    /\ pc \notin {"flush", "ack"} => acks = {}
    /\ \A k \in Keys : k \notin buffer => held[k] = {}

(***************************************************************************)
(* Data: a partition is read up to its position and committed no further,  *)
(* messages are held only after they were read, and everything buffered or *)
(* about to be is in the ledger.                                           *)
(***************************************************************************)
MemoryInv ==
    /\ \A p \in Partitions : committed[p] <= position[p] /\ position[p] <= Len(log[p])
    /\ InHand => at[2] < position[at[1]]
    /\ \A k \in Keys : \A w \in held[k] : w[2] < position[w[1]]
    /\ \A w \in acks : w[2] < position[w[1]]
    /\ \A k \in buffer : ledger[k].state # "absent"
    /\ pc = "online" => ledger[Message(at).key].state # "absent"

Typed == TypeOK /\ PlaceInv /\ MemoryInv

(***************************************************************************)
(* The message in hand is one of the partition's messages.                 *)
(***************************************************************************)
LEMMA MessageInHand ==
    ASSUME Typed, InHand
    PROVE  Message(at) \in Messages
BY DEF Typed, TypeOK, PlaceInv, MemoryInv, InHand, Message, Positions

\* A row that exists has a content.
LEMMA RowContent ==
    ASSUME Typed, NEW k \in Keys, ledger[k].state # "absent"
    PROVE  ledger[k].content \in Contents
BY DEF Typed, TypeOK, Rows, Absent

(***************************************************************************)
(* An online write keeps the type of the store.                            *)
(***************************************************************************)
LEMMA OnlineWriteType ==
    ASSUME Typed, NEW k \in Keys, ledger[k].state # "absent", OnlineWrite(k)
    PROVE  redis' \in [Views \X Entities -> Hashes]
<1> DEFINE c == ledger[k].content
           h == <<k[1], c.entity>>
<1>1. c \in Contents
  BY RowContent
<1>2. h \in Views \X Entities
  BY <1>1, ContentsAssumption DEF Keys
<1>3. redis[h] \in Hashes
  BY <1>2 DEF Typed, TypeOK, Hashes
<1>4. Upsert(redis[h], Version(k, c)) \in Versions
  BY <1>1, <1>3, VersionType, UpsertKeepsNewest
<1> QED
  BY <1>2, <1>4 DEF OnlineWrite, Typed, TypeOK, Hashes

(***************************************************************************)
(* Rows are never removed and never change their content: every step of    *)
(* the ledger keeps what a row promises.                                   *)
(***************************************************************************)
KeepsRows ==
    \A k \in Keys :
        ledger[k].state # "absent" =>
            ledger'[k].state # "absent" /\ ledger'[k].content = ledger[k].content

\* A registration adds one pending row.
LEMMA InsertRow ==
    ASSUME Typed, NEW k \in Keys, NEW c \in Contents, ledger[k] = Absent, Insert(k, c)
    PROVE  /\ ledger' \in [Keys -> Rows]
           /\ KeepsRows
           /\ ledger'[k].state = "pending" /\ ledger'[k].content = c
BY DEF Typed, TypeOK, Insert, KeepsRows, Rows, Absent

\* A staging transaction adds a batch and moves its rows.
LEMMA StageRows ==
    ASSUME Typed, NEW v \in Views, Stageable(v), Stage(v)
    PROVE  /\ ledger' \in [Keys -> Rows]
           /\ batches' \in Seq(Batches)
           /\ KeepsRows
<1>1. Len(batches) + 1 \in Nat
  BY DEF Typed, TypeOK
<1>2. \A k \in Buffered(v) : /\ k \in Keys /\ k[2] \in Ids
                             /\ ledger[k].state = "pending"
                             /\ ledger[k].content \in Contents
  BY RowContent DEF Typed, TypeOK, Stageable, Pending, Buffered, Keys
<1>3. \A k \in Keys :
         /\ ledger'[k] \in Rows
         /\ ledger[k].state # "absent" => ledger'[k].state # "absent"
         /\ ledger'[k].content = ledger[k].content
  <2> SUFFICES ASSUME NEW k \in Keys
      PROVE /\ ledger'[k] \in Rows
            /\ ledger[k].state # "absent" => ledger'[k].state # "absent"
            /\ ledger'[k].content = ledger[k].content
    OBVIOUS
  <2>1. ledger[k] \in Rows
    BY DEF Typed, TypeOK
  <2> QED
    BY <1>1, <1>2, <2>1 DEF Stage, Rows, Absent
<1>4. batches' \in Seq(Batches)
  <2> DEFINE batch ==
        [view |-> v, events |-> {<<k[2], ledger[k].content>> : k \in Buffered(v)}]
  <2>1. batch \in Batches
    BY <1>2 DEF Batches
  <2>2. batches' = Append(batches, batch)
    BY DEF Stage
  <2> HIDE DEF batch
  <2> QED
    BY <2>1, <2>2 DEF Typed, TypeOK
<1>5. ledger' \in [Keys -> Rows]
  BY <1>3 DEF Stage
<1> QED
  BY <1>3, <1>4, <1>5 DEF KeepsRows

\* A successful job moves its rows.
LEMMA ApplyRows ==
    ASSUME Typed, NEW j \in 1..Len(batches), Apply(j)
    PROVE  ledger' \in [Keys -> Rows] /\ KeepsRows
<1>1. \A k \in Keys : ledger[k] \in Rows
  BY DEF Typed, TypeOK
<1> QED
  BY <1>1 DEF Apply, Rows, Absent, KeepsRows

\* A failure uses up the budget.
LEMMA FaultType ==
    ASSUME Typed, NEW f, Fault(f)
    PROVE  budget' \in 0..MaxFaults
BY BoundsAssumption DEF Typed, TypeOK, Fault

(***************************************************************************)
(* The memory of the process after the ways out of a block: nothing is     *)
(* added to it, and all of it is gone when the process ends.               *)
(***************************************************************************)
Remembers ==
    /\ pc' \in Places /\ level' \in Levels
    /\ at' \in {at, NoMessage}
    /\ InHand' => InHand /\ at' = at
    /\ acks' \subseteq acks
    /\ buffer' \subseteq buffer
    /\ held' \in [Keys -> SUBSET Positions]
    /\ \A k \in Keys : held'[k] \in {held[k], {}}

LEMMA HaltControl ==
    ASSUME Typed, Halt
    PROVE  Remembers /\ PlaceInv' /\ pc' = "down"
BY DEF Typed, TypeOK, PlaceInv, Halt, Remembers, InHand, Places, Levels

LEMMA RaiseControl ==
    ASSUME Typed, Raise, pc \notin {"ack", "commit"} \/ buffer = {}
    PROVE  Remembers /\ PlaceInv' /\ pc' \in {"down", "dead_letter", "flush"}
<1>1. CASE Halt
  BY <1>1, HaltControl
<1>2. CASE ~Halt
  BY <1>2 DEF Typed, TypeOK, PlaceInv, Raise, Rescue, Remembers, InHand, Places, Levels
<1> QED
  BY <1>1, <1>2

(***************************************************************************)
(* Such a way out keeps the data invariant, also when rows or an offset    *)
(* changed in the same step.                                               *)
(***************************************************************************)
LEMMA RemembersMemory ==
    ASSUME Typed, Remembers, KeepsRows, pc' # "online",
           UNCHANGED <<log, position>>,
           \A p \in Partitions : committed'[p] <= position[p]
    PROVE  MemoryInv'
<1>1. \A k \in buffer' : ledger'[k].state # "absent"
  BY DEF Typed, TypeOK, MemoryInv, Remembers, KeepsRows
<1>2. \A k \in Keys : \A w \in held'[k] : w \in held[k]
  BY DEF Remembers
<1> QED
  BY <1>1, <1>2 DEF Typed, MemoryInv, Remembers, InHand

\* The newest staged message of a partition lies below its position.
LEMMA NewestType ==
    ASSUME Typed, NEW p \in Partitions, CommitNewest(p)
    PROVE  /\ committed' \in [Partitions -> Nat]
           /\ \A q \in Partitions : committed'[q] <= position[q]
<1>1. PICK w \in acks : w[1] = p /\ committed' = [committed EXCEPT ![p] = w[2] + 1]
  BY DEF CommitNewest
<1>2. w[2] \in Nat /\ w[2] < position[p] /\ position[p] \in Nat
  BY <1>1 DEF Typed, TypeOK, MemoryInv, Positions
<1>3. \A q \in Partitions : committed[q] <= position[q]
  BY DEF Typed, MemoryInv
<1> QED
  BY <1>1, <1>2, <1>3 DEF Typed, TypeOK

\* So does the message in hand.
LEMMA OwnType ==
    ASSUME Typed, InHand, CommitOwn
    PROVE  /\ committed' \in [Partitions -> Nat]
           /\ \A q \in Partitions : committed'[q] <= position[q]
<1>1. /\ at[1] \in Partitions /\ at[2] \in Nat /\ at[2] < position[at[1]]
      /\ position[at[1]] \in Nat
  BY DEF Typed, TypeOK, PlaceInv, MemoryInv, Positions, InHand
<1>2. \A q \in Partitions : committed[q] <= position[q]
  BY DEF Typed, MemoryInv
<1> QED
  BY <1>1, <1>2 DEF CommitOwn, Typed, TypeOK

\* The invariant holds in the initial states.
LEMMA TypedInit == Init => Typed
BY LogsAssumption, BoundsAssumption
   DEF Init, Typed, TypeOK, PlaceInv, MemoryInv, InHand, Rows, Places, Levels,
       Positions, NoMessage

\* Every step preserves it.
LEMMA TypedStep == Typed /\ [Next]_vars => Typed'
<1> SUFFICES ASSUME Typed, [Next]_vars PROVE Typed'
  OBVIOUS
<1> USE DEF vars, brokers, stores, control, memory
<1>m. InHand => /\ at \in Positions /\ at[1] \in Partitions /\ at[2] \in Nat
                /\ at[2] < position[at[1]] /\ position[at[1]] \in Nat
                /\ Message(at).key \in Keys /\ Message(at).content \in Contents
  BY MessageInHand DEF Typed, TypeOK, PlaceInv, MemoryInv, Positions, Messages
<1>p. \A p \in Partitions : committed[p] \in Nat /\ position[p] \in Nat
                             /\ Len(log[p]) \in Nat
  BY DEF Typed, TypeOK
<1>t. TypeOK /\ PlaceInv /\ MemoryInv
  BY DEF Typed
<1>1. CASE Crash
  <2>1. TypeOK'
    BY <1>1, <1>m, <1>p, <1>t, HaltControl, FaultType DEF Crash, TypeOK, PlaceInv, InHand, Places, Levels, Remembers
  <2>2. PlaceInv'
    BY <1>1, <1>m, <1>p, <1>t, HaltControl, FaultType DEF Crash, TypeOK, PlaceInv, InHand, NoMessage
  <2>3. MemoryInv'
    BY <1>1, <1>m, <1>p, <1>t, HaltControl, FaultType, RemembersMemory DEF Crash, TypeOK, MemoryInv, KeepsRows
  <2> QED
    BY <2>1, <2>2, <2>3 DEF Typed
<1>2. CASE Shutdown
  <2>1. TypeOK'
    BY <1>2, <1>m, <1>p, <1>t, FaultType DEF Shutdown, TypeOK, PlaceInv, InHand, Places, Levels
  <2>2. PlaceInv'
    BY <1>2, <1>m, <1>p, <1>t, FaultType DEF Shutdown, TypeOK, PlaceInv, InHand, NoMessage
  <2>3. MemoryInv'
    BY <1>2, <1>m, <1>p, <1>t, FaultType DEF Shutdown, TypeOK, PlaceInv, MemoryInv, InHand, Message
  <2> QED
    BY <2>1, <2>2, <2>3 DEF Typed
<1>3. CASE Start
  <2>1. TypeOK'
    BY <1>3, <1>m, <1>p, <1>t DEF Start, TypeOK, PlaceInv, InHand, Places, Levels
  <2>2. PlaceInv'
    BY <1>3, <1>m, <1>p, <1>t DEF Start, TypeOK, PlaceInv, InHand, NoMessage
  <2>3. MemoryInv'
    BY <1>3, <1>m, <1>p, <1>t DEF Start, TypeOK, PlaceInv, MemoryInv, InHand, Message
  <2> QED
    BY <2>1, <2>2, <2>3 DEF Typed
<1>4. ASSUME NEW k \in Keys, RecoverOne(k) PROVE Typed'
  <2>1. TypeOK'
    BY <1>4, <1>m, <1>p, <1>t, HaltControl, FaultType, OnlineWriteType DEF RecoverOne, Pending, Hashes, TypeOK, PlaceInv, InHand, Places, Levels, Remembers
  <2>2. PlaceInv'
    BY <1>4, <1>m, <1>p, <1>t, HaltControl, FaultType, OnlineWriteType DEF RecoverOne, Pending, Hashes, TypeOK, PlaceInv, InHand, NoMessage
  <2>3. MemoryInv'
    BY <1>4, <1>m, <1>p, <1>t, HaltControl, FaultType, OnlineWriteType DEF RecoverOne, Pending, Hashes, TypeOK, PlaceInv, MemoryInv, InHand, Message, Remembers
  <2> QED
    BY <2>1, <2>2, <2>3 DEF Typed
<1>5. CASE Recovered
  <2>1. TypeOK'
    BY <1>5, <1>m, <1>p, <1>t DEF Recovered, Return, TypeOK, PlaceInv, InHand, Places, Levels
  <2>2. PlaceInv'
    BY <1>5, <1>m, <1>p, <1>t DEF Recovered, Return, TypeOK, PlaceInv, InHand, NoMessage
  <2>3. MemoryInv'
    BY <1>5, <1>m, <1>p, <1>t DEF Recovered, Return, TypeOK, PlaceInv, MemoryInv, InHand, Message
  <2> QED
    BY <2>1, <2>2, <2>3 DEF Typed
<1>6. CASE FlushDue
  <2>1. TypeOK'
    BY <1>6, <1>m, <1>p, <1>t DEF FlushDue, TypeOK, PlaceInv, InHand, Places, Levels
  <2>2. PlaceInv'
    BY <1>6, <1>m, <1>p, <1>t DEF FlushDue, TypeOK, PlaceInv, InHand, NoMessage
  <2>3. MemoryInv'
    BY <1>6, <1>m, <1>p, <1>t DEF FlushDue, TypeOK, PlaceInv, MemoryInv, InHand, Message
  <2> QED
    BY <2>1, <2>2, <2>3 DEF Typed
<1>7. ASSUME NEW p \in Partitions, Poll(p) PROVE Typed'
  <2>1. at' \in Positions /\ at' # NoMessage
    BY <1>7, <1>p DEF Poll, Positions, NoMessage
  <2>2. Message(at') \in Messages
    BY <1>7, <1>p, <1>t DEF Poll, TypeOK, Message
  <2>3. PICK verdict \in Message(at').verdicts :
           pc' = Route[verdict].pc /\ level' = Route[verdict].level
    BY <1>7 DEF Poll
  <2>4. verdict \in Verdicts
    BY <2>2, <2>3 DEF Messages
  <2>5. /\ pc' \in {"dead_letter", "flush", "register"} /\ level' \in {"body", "rescue"}
        /\ pc' = "register" => level' = "body"
    BY <2>3, <2>4 DEF Route, Verdicts
  <2>6. TypeOK'
    BY <1>7, <1>p, <1>t, <2>1, <2>5 DEF Poll, TypeOK, Places, Levels
  <2>7. PlaceInv'
    BY <1>7, <1>t, <2>1, <2>5 DEF Poll, TypeOK, PlaceInv, InHand
  <2>8. /\ at'[1] = p /\ at'[2] = position[p]
        /\ position' = [position EXCEPT ![p] = @ + 1]
    BY <1>7 DEF Poll
  <2>9. \A w \in Positions : w[2] < position[w[1]] => w[2] < position'[w[1]]
    BY <1>p, <1>t, <2>8 DEF TypeOK, Positions
  <2>10. \A q \in Partitions : committed[q] <= position'[q] /\ position'[q] <= Len(log[q])
    BY <1>7, <1>p, <1>t, <2>8 DEF Poll, TypeOK, MemoryInv
  <2>11. at'[2] < position'[at'[1]]
    BY <1>p, <1>t, <2>8 DEF TypeOK
  <2>12. MemoryInv'
    BY <1>7, <1>t, <2>5, <2>9, <2>10, <2>11 DEF Poll, TypeOK, MemoryInv
  <2> QED
    BY <2>6, <2>7, <2>12 DEF Typed
<1>8. CASE Register
  <2>1. TypeOK'
    BY <1>8, <1>m, <1>p, <1>t, InsertRow DEF Register, TypeOK, PlaceInv, InHand, Places, Levels
  <2>2. PlaceInv'
    BY <1>8, <1>m, <1>p, <1>t, InsertRow DEF Register, TypeOK, PlaceInv, InHand, NoMessage
  <2>3. MemoryInv'
    BY <1>8, <1>m, <1>p, <1>t, InsertRow DEF Register, TypeOK, PlaceInv, MemoryInv, InHand, Message, KeepsRows
  <2> QED
    BY <2>1, <2>2, <2>3 DEF Typed
<1>9. CASE RegisterRaises
  <2>1. TypeOK'
    BY <1>9, <1>m, <1>p, <1>t, InsertRow, FaultType DEF RegisterRaises, Rescue, TypeOK, PlaceInv, InHand, Places, Levels
  <2>2. PlaceInv'
    BY <1>9, <1>m, <1>p, <1>t, InsertRow, FaultType DEF RegisterRaises, Rescue, TypeOK, PlaceInv, InHand, NoMessage
  <2>3. MemoryInv'
    BY <1>9, <1>m, <1>p, <1>t, InsertRow, FaultType DEF RegisterRaises, Rescue, TypeOK, PlaceInv, MemoryInv, InHand, Message, KeepsRows
  <2> QED
    BY <2>1, <2>2, <2>3 DEF Typed
<1>10. CASE Buffer
  <2> DEFINE k == Message(at).key
  <2>1. InHand /\ ledger[k].state # "absent"
    BY <1>10, <1>t DEF Buffer, PlaceInv, MemoryInv, InHand
  <2>2. redis' \in [Views \X Entities -> Versions \cup {NoHash}]
    BY <1>10, <1>m, <1>t, <2>1, OnlineWriteType DEF Buffer, TypeOK, Hashes
  <2>3. /\ held' \in [Keys -> SUBSET Positions] /\ buffer' \subseteq Keys
        /\ held' = [held EXCEPT ![k] = @ \cup {at}] /\ buffer' = buffer \cup {k}
    BY <1>10, <1>m, <1>t, <2>1 DEF Buffer, Hold, TypeOK
  <2>4. TypeOK'
    BY <1>10, <1>m, <1>t, <2>1, <2>2, <2>3 DEF Buffer, TypeOK, Places, Levels, NoMessage, Return
  <2>5. PlaceInv'
    BY <1>10, <1>m, <1>t, <2>1, <2>3 DEF Buffer, TypeOK, PlaceInv, InHand, NoMessage, Return
  <2>6. MemoryInv'
    BY <1>10, <1>m, <1>t, <2>1, <2>3 DEF Buffer, TypeOK, MemoryInv, InHand, Return
  <2> QED
    BY <2>4, <2>5, <2>6 DEF Typed
<1>11. CASE BufferRaises
  <2> DEFINE k == Message(at).key
  <2>1. InHand /\ ledger[k].state # "absent"
    BY <1>11, <1>t DEF BufferRaises, PlaceInv, MemoryInv, InHand
  <2>2. redis' \in [Views \X Entities -> Versions \cup {NoHash}]
    BY <1>11, <1>m, <1>t, <2>1, OnlineWriteType DEF BufferRaises, TypeOK, Hashes
  <2>3. /\ held' \in [Keys -> SUBSET Positions] /\ buffer' \subseteq Keys
        /\ held' = [held EXCEPT ![k] = @ \cup {at}] /\ buffer' = buffer \cup {k}
    BY <1>11, <1>m, <1>t, <2>1 DEF BufferRaises, Hold, TypeOK
  <2>4. TypeOK'
    BY <1>11, <1>m, <1>t, <2>1, <2>2, <2>3, FaultType DEF BufferRaises, TypeOK, Places, Levels, NoMessage, Rescue
  <2>5. PlaceInv'
    BY <1>11, <1>m, <1>t, <2>1, <2>3 DEF BufferRaises, TypeOK, PlaceInv, InHand, NoMessage, Rescue
  <2>6. MemoryInv'
    BY <1>11, <1>m, <1>t, <2>1, <2>3 DEF BufferRaises, TypeOK, MemoryInv, InHand, Rescue
  <2> QED
    BY <2>4, <2>5, <2>6 DEF Typed
<1>12. CASE DeadLetter
  <2>1. TypeOK'
    BY <1>12, <1>m, <1>p, <1>t, FaultType DEF DeadLetter, TypeOK, PlaceInv, InHand, Places, Levels
  <2>2. PlaceInv'
    BY <1>12, <1>m, <1>p, <1>t, FaultType DEF DeadLetter, TypeOK, PlaceInv, InHand, NoMessage
  <2>3. MemoryInv'
    BY <1>12, <1>m, <1>p, <1>t, FaultType DEF DeadLetter, TypeOK, PlaceInv, MemoryInv, InHand, Message
  <2> QED
    BY <2>1, <2>2, <2>3 DEF Typed
<1>13. CASE DeadLetterRaises
  <2>1. TypeOK'
    BY <1>13, <1>m, <1>p, <1>t, RaiseControl, FaultType DEF DeadLetterRaises, TypeOK, PlaceInv, InHand, Places, Levels, Remembers
  <2>2. PlaceInv'
    BY <1>13, <1>m, <1>p, <1>t, RaiseControl, FaultType DEF DeadLetterRaises, TypeOK, PlaceInv, InHand, NoMessage
  <2>3. MemoryInv'
    BY <1>13, <1>m, <1>p, <1>t, RaiseControl, FaultType, RemembersMemory DEF DeadLetterRaises, TypeOK, MemoryInv, KeepsRows
  <2> QED
    BY <2>1, <2>2, <2>3 DEF Typed
<1>14. ASSUME NEW v \in Views, FlushView(v) PROVE Typed'
  <2>1. /\ acks' \subseteq Positions /\ buffer' \subseteq buffer
        /\ held' \in [Keys -> SUBSET Positions]
        /\ \A k \in Keys : held'[k] \in {held[k], {}}
    BY <1>14, <1>t DEF FlushView, Clear, Buffered, TypeOK
  <2>2. TypeOK'
    BY <1>14, <1>t, <2>1, StageRows DEF FlushView, TypeOK
  <2>3. \A k \in Keys : k \notin buffer' => held'[k] = {}
    BY <1>14, <1>t DEF FlushView, Clear, Buffered, TypeOK, PlaceInv
  <2>4. PlaceInv'
    BY <1>14, <1>t, <2>3 DEF FlushView, PlaceInv, InHand
  <2>5. \A w \in acks' : w \in acks \/ \E k \in Keys : w \in held[k]
    BY <1>14, <1>t DEF FlushView, Buffered, TypeOK
  <2>6. \A k \in buffer' : ledger'[k].state # "absent"
    BY <1>14, <1>t, <2>1, StageRows DEF FlushView, KeepsRows, TypeOK, MemoryInv
  <2>7. MemoryInv'
    BY <1>14, <1>t, <2>1, <2>5, <2>6 DEF FlushView, TypeOK, MemoryInv, InHand
  <2> QED
    BY <2>2, <2>4, <2>7 DEF Typed
<1>15. ASSUME NEW v \in Views, FlushViewRaises(v) PROVE Typed'
  <2>1. TypeOK'
    BY <1>15, <1>m, <1>p, <1>t, StageRows, RaiseControl, FaultType DEF FlushViewRaises, TypeOK, PlaceInv, InHand, Places, Levels, Remembers
  <2>2. PlaceInv'
    BY <1>15, <1>m, <1>p, <1>t, StageRows, RaiseControl, FaultType DEF FlushViewRaises, TypeOK, PlaceInv, InHand, NoMessage
  <2>3. MemoryInv'
    BY <1>15, <1>m, <1>p, <1>t, StageRows, RaiseControl, FaultType, RemembersMemory DEF FlushViewRaises, TypeOK, MemoryInv, KeepsRows
  <2> QED
    BY <2>1, <2>2, <2>3 DEF Typed
<1>16. CASE FlushRaises
  <2>1. TypeOK'
    BY <1>16, <1>m, <1>p, <1>t, RaiseControl, FaultType DEF FlushRaises, TypeOK, PlaceInv, InHand, Places, Levels, Remembers
  <2>2. PlaceInv'
    BY <1>16, <1>m, <1>p, <1>t, RaiseControl, FaultType DEF FlushRaises, TypeOK, PlaceInv, InHand, NoMessage
  <2>3. MemoryInv'
    BY <1>16, <1>m, <1>p, <1>t, RaiseControl, FaultType, RemembersMemory DEF FlushRaises, TypeOK, MemoryInv, KeepsRows
  <2> QED
    BY <2>1, <2>2, <2>3 DEF Typed
<1>17. CASE Flushed
  <2>1. TypeOK'
    BY <1>17, <1>m, <1>p, <1>t DEF Flushed, TypeOK, PlaceInv, InHand, Places, Levels
  <2>2. PlaceInv'
    BY <1>17, <1>m, <1>p, <1>t DEF Flushed, TypeOK, PlaceInv, InHand, NoMessage
  <2>3. MemoryInv'
    BY <1>17, <1>m, <1>p, <1>t DEF Flushed, TypeOK, PlaceInv, MemoryInv, InHand, Message
  <2> QED
    BY <2>1, <2>2, <2>3 DEF Typed
<1>18. ASSUME NEW p \in Partitions, CommitLatest(p) PROVE Typed'
  <2>1. TypeOK'
    BY <1>18, <1>m, <1>p, <1>t, NewestType DEF CommitLatest, TypeOK, PlaceInv, InHand, Places, Levels
  <2>2. PlaceInv'
    BY <1>18, <1>m, <1>p, <1>t, NewestType DEF CommitLatest, TypeOK, PlaceInv, InHand, NoMessage
  <2>3. MemoryInv'
    BY <1>18, <1>m, <1>p, <1>t, NewestType DEF CommitLatest, TypeOK, PlaceInv, MemoryInv, InHand, Message
  <2> QED
    BY <2>1, <2>2, <2>3 DEF Typed
<1>19. ASSUME NEW p \in Partitions, CommitLatestRaises(p) PROVE Typed'
  <2>1. /\ committed' \in [Partitions -> Nat]
        /\ \A q \in Partitions : committed'[q] <= position[q]
    BY <1>19, <1>t, NewestType DEF CommitLatestRaises, TypeOK, PlaceInv, MemoryInv
  <2>2. Remembers /\ PlaceInv' /\ pc' # "online"
    BY <1>19, <1>t, RaiseControl DEF CommitLatestRaises, PlaceInv
  <2>3. KeepsRows
    BY <1>19 DEF CommitLatestRaises, KeepsRows
  <2>4. TypeOK'
    BY <1>19, <1>t, <2>1, <2>2, FaultType DEF CommitLatestRaises, TypeOK, Remembers
  <2>5. MemoryInv'
    BY <1>19, <2>1, <2>2, <2>3, RemembersMemory DEF CommitLatestRaises
  <2> QED
    BY <2>2, <2>4, <2>5 DEF Typed
<1>20. CASE Acked
  <2>1. TypeOK'
    BY <1>20, <1>m, <1>p, <1>t, HaltControl DEF Acked, Return, TypeOK, PlaceInv, InHand, Places, Levels, Remembers
  <2>2. PlaceInv'
    BY <1>20, <1>m, <1>p, <1>t, HaltControl DEF Acked, Return, TypeOK, PlaceInv, InHand, NoMessage
  <2>3. MemoryInv'
    BY <1>20, <1>m, <1>p, <1>t, HaltControl DEF Acked, Return, TypeOK, PlaceInv, MemoryInv, InHand, Message, Remembers
  <2> QED
    BY <2>1, <2>2, <2>3 DEF Typed
<1>21. CASE Commit
  <2>1. TypeOK'
    BY <1>21, <1>m, <1>p, <1>t, OwnType DEF Commit, Return, TypeOK, PlaceInv, InHand, Places, Levels
  <2>2. PlaceInv'
    BY <1>21, <1>m, <1>p, <1>t, OwnType DEF Commit, Return, TypeOK, PlaceInv, InHand, NoMessage
  <2>3. MemoryInv'
    BY <1>21, <1>m, <1>p, <1>t, OwnType DEF Commit, Return, TypeOK, PlaceInv, MemoryInv, InHand, Message
  <2> QED
    BY <2>1, <2>2, <2>3 DEF Typed
<1>22. CASE CommitRaises
  <2>1. /\ committed' \in [Partitions -> Nat]
        /\ \A q \in Partitions : committed'[q] <= position[q]
    BY <1>22, <1>t, OwnType DEF CommitRaises, TypeOK, PlaceInv, MemoryInv
  <2>2. Remembers /\ PlaceInv' /\ pc' # "online"
    BY <1>22, <1>t, RaiseControl DEF CommitRaises, PlaceInv
  <2>3. KeepsRows
    BY <1>22 DEF CommitRaises, KeepsRows
  <2>4. TypeOK'
    BY <1>22, <1>t, <2>1, <2>2, FaultType DEF CommitRaises, TypeOK, Remembers
  <2>5. MemoryInv'
    BY <1>22, <2>1, <2>2, <2>3, RemembersMemory DEF CommitRaises
  <2> QED
    BY <2>2, <2>4, <2>5 DEF Typed
<1>23. ASSUME NEW j \in 1..Len(batches), Apply(j) PROVE Typed'
  <2>1. TypeOK'
    BY <1>23, <1>m, <1>p, <1>t, ApplyRows DEF Apply, TypeOK, PlaceInv, InHand, Places, Levels
  <2>2. PlaceInv'
    BY <1>23, <1>m, <1>p, <1>t, ApplyRows DEF Apply, TypeOK, PlaceInv, InHand, NoMessage
  <2>3. MemoryInv'
    BY <1>23, <1>m, <1>p, <1>t, ApplyRows DEF Apply, TypeOK, PlaceInv, MemoryInv, InHand, Message, KeepsRows
  <2> QED
    BY <2>1, <2>2, <2>3 DEF Typed
<1>24. CASE UNCHANGED vars
  BY <1>24 DEF Typed, TypeOK, PlaceInv, MemoryInv, InHand, Message
<1> QED
  BY <1>1, <1>2, <1>3, <1>4, <1>5, <1>6, <1>7, <1>8, <1>9, <1>10, <1>11, <1>12, <1>13, <1>14, <1>15, <1>16, <1>17, <1>18, <1>19, <1>20, <1>21, <1>22, <1>23, <1>24 DEF Next, Consume, Fail

\* TypeOK holds in every state: what the consumer remembers and what it wrote.
THEOREM TypeCorrect == Spec => []TypeOK
<1>1. Typed => TypeOK
  BY DEF Typed
<1> QED
  BY <1>1, TypedInit, TypedStep, PTL DEF Spec

-----------------------------------------------------------------------------
(* Batches *)

(***************************************************************************)
(* What a step can do to the ledger and the batches: register one event,   *)
(* stage the buffer of a view, apply a batch, or nothing.                  *)
(***************************************************************************)
Registers == \E k \in Keys, c \in Contents :
                 ledger[k] = Absent /\ Insert(k, c) /\ batches' = batches
Stages == \E v \in Views : Stageable(v) /\ Stage(v)
Applies == \E j \in 1..Len(batches) : Apply(j)
KeepsLedger == ledger' = ledger /\ batches' = batches

LEMMA LedgerShape ==
    ASSUME Typed, [Next]_vars
    PROVE  Registers \/ Stages \/ Applies \/ KeepsLedger
<1> USE DEF vars, brokers, stores, control, memory
<1>m. InHand => Message(at).key \in Keys /\ Message(at).content \in Contents
  BY MessageInHand DEF Messages
<1>h. pc = "register" => InHand
  BY DEF Typed, PlaceInv, InHand
<1>1. CASE Register
  BY <1>1, <1>m, <1>h DEF Register, Registers, KeepsLedger
<1>2. CASE RegisterRaises
  BY <1>2, <1>m, <1>h DEF RegisterRaises, Registers, KeepsLedger
<1>3. ASSUME NEW v \in Views, FlushView(v) PROVE Stages
  BY <1>3 DEF FlushView, Stages
<1>4. ASSUME NEW v \in Views, FlushViewRaises(v) PROVE Stages
  BY <1>4 DEF FlushViewRaises, Stages
<1>5. ASSUME NEW j \in 1..Len(batches), Apply(j) PROVE Applies
  BY <1>5 DEF Applies
<1>6. CASE \/ Crash \/ Shutdown \/ Start \/ \E k \in Keys : RecoverOne(k)
           \/ Recovered \/ FlushDue \/ \E p \in Partitions : Poll(p)
  BY <1>6 DEF Crash, Shutdown, Start, RecoverOne, Recovered, FlushDue, Poll,
              KeepsLedger
<1>7. CASE Buffer \/ BufferRaises \/ DeadLetter \/ DeadLetterRaises \/ FlushRaises
           \/ Flushed
  BY <1>7 DEF Buffer, BufferRaises, DeadLetter, DeadLetterRaises, FlushRaises,
              Flushed, KeepsLedger
<1>8. CASE \/ \E p \in Partitions : CommitLatest(p) \/ CommitLatestRaises(p)
           \/ Acked \/ Commit \/ CommitRaises
  BY <1>8 DEF CommitLatest, CommitLatestRaises, Acked, Commit, CommitRaises,
              KeepsLedger
<1>9. CASE UNCHANGED vars
  BY <1>9 DEF KeepsLedger
<1> QED
  BY <1>1, <1>2, <1>3, <1>4, <1>5, <1>6, <1>7, <1>8, <1>9 DEF Next, Consume, Fail

\* No step forgets a row or changes its content.
LEMMA RowsKept ==
    ASSUME Typed, [Next]_vars
    PROVE  KeepsRows
BY LedgerShape, InsertRow, StageRows, ApplyRows
   DEF Registers, Stages, Applies, KeepsLedger, KeepsRows

\* The inductive strengthening: a row names no job before it is staged.
BatchInv ==
    /\ StagedExactlyOnce
    /\ \A k \in Keys : ledger[k].state \in {"absent", "pending"} => ledger[k].job = 0

LEMMA BatchStep == Typed /\ BatchInv /\ [Next]_vars => BatchInv'
<1> SUFFICES ASSUME Typed, BatchInv, [Next]_vars PROVE BatchInv'
  OBVIOUS
<1>r. /\ \A k \in Keys : ledger[k] \in Rows
      /\ ledger \in [Keys -> Rows] /\ batches \in Seq(Batches) /\ Len(batches) \in Nat
  BY DEF Typed, TypeOK
<1>1. CASE Registers
  <2>1. PICK k \in Keys, c \in Contents :
          ledger[k] = Absent /\ Insert(k, c) /\ batches' = batches
    BY <1>1 DEF Registers
  <2>2. /\ ledger' = [ledger EXCEPT ![k] = [state |-> "pending", content |-> c, job |-> 0]]
        /\ ledger[k].job = 0
    BY <2>1 DEF Insert, Absent
  <2> QED
    BY <1>r, <2>1, <2>2 DEF BatchInv, StagedExactlyOnce
<1>2. CASE Stages
  <2>1. PICK v \in Views : Stageable(v) /\ Stage(v)
    BY <1>2 DEF Stages
  <2> DEFINE n == Len(batches) + 1
             events == {<<k[2], ledger[k].content>> : k \in Buffered(v)}
             batch == [view |-> v, events |-> events]
  <2>2. /\ Len(batches') = n /\ batches'[n] = batch
        /\ \A j \in 1..Len(batches) : batches'[j] = batches[j]
    <3>1. batches' = Append(batches, batch)
      BY <2>1 DEF Stage
    <3> HIDE DEF batch
    <3> QED
      BY <1>r, <3>1
  <2>3. \A k \in Buffered(v) : /\ k \in Keys /\ k[1] = v
                               /\ ledger[k].state = "pending" /\ ledger[k].job = 0
    BY <2>1 DEF Stageable, Pending, Buffered, BatchInv, Typed, TypeOK
  <2>4. \A k \in Keys :
          /\ ledger'[k].content = ledger[k].content
          /\ k \in Buffered(v) => ledger'[k].state = "staged" /\ ledger'[k].job = n
          /\ k \notin Buffered(v) => ledger'[k] = ledger[k]
    <3>1. ledger' = [k \in Keys |->
            IF k \in Buffered(v)
            THEN [ledger[k] EXCEPT !.state = "staged", !.job = n] ELSE ledger[k]]
      BY <2>1 DEF Stage
    <3> SUFFICES ASSUME NEW k \in Keys
        PROVE  /\ ledger'[k].content = ledger[k].content
               /\ k \in Buffered(v) => ledger'[k].state = "staged" /\ ledger'[k].job = n
               /\ k \notin Buffered(v) => ledger'[k] = ledger[k]
      OBVIOUS
    <3>2. ledger[k] \in Rows
      BY <1>r
    <3> HIDE DEF n
    <3>3. CASE k \in Buffered(v)
      <4>1. ledger'[k] = [ledger[k] EXCEPT !.state = "staged", !.job = n]
        BY <3>1, <3>3
      <4> QED
        BY <3>2, <3>3, <4>1 DEF Rows, Absent
    <3> QED
      BY <3>1, <3>3
  <2>5. \A k \in Keys : ledger[k].job # n
    BY <1>r DEF BatchInv, StagedExactlyOnce, Rows, Absent
  <2>6. \A k \in Keys :
          ledger'[k].state \in {"staged", "applied"} => ledger'[k].job \in 1..Len(batches')
    BY <1>r, <2>2, <2>3, <2>4 DEF BatchInv, StagedExactlyOnce
  <2>7. \A j \in 1..Len(batches), k \in Keys, c \in Contents :
          (k[1] = batches'[j].view /\ <<k[2], c>> \in batches'[j].events)
            <=> (ledger'[k].job = j /\ ledger'[k].content = c)
    <3> SUFFICES ASSUME NEW j \in 1..Len(batches), NEW k \in Keys, NEW c \in Contents
        PROVE  (k[1] = batches'[j].view /\ <<k[2], c>> \in batches'[j].events)
                 <=> (ledger'[k].job = j /\ ledger'[k].content = c)
      OBVIOUS
    <3>1. (k[1] = batches[j].view /\ <<k[2], c>> \in batches[j].events)
            <=> (ledger[k].job = j /\ ledger[k].content = c)
      BY DEF BatchInv, StagedExactlyOnce
    <3>2. j # n /\ j # 0 /\ batches'[j] = batches[j]
      BY <1>r, <2>2
    <3>3. (ledger'[k].job = j) <=> (ledger[k].job = j)
      BY <2>3, <2>4, <3>2
    <3> QED
      BY <2>4, <3>1, <3>2, <3>3
  <2>8. \A k \in Keys, c \in Contents :
          (k[1] = v /\ <<k[2], c>> \in events)
            <=> (ledger'[k].job = n /\ ledger'[k].content = c)
    <3> SUFFICES ASSUME NEW k \in Keys, NEW c \in Contents
        PROVE  (k[1] = v /\ <<k[2], c>> \in events)
                 <=> (ledger'[k].job = n /\ ledger'[k].content = c)
      OBVIOUS
    <3>1. \A l \in Keys : l[1] = k[1] /\ l[2] = k[2] => l = k
      BY DEF Keys
    <3>2. (k[1] = v /\ <<k[2], c>> \in events)
            <=> (k \in Buffered(v) /\ ledger[k].content = c)
      BY <2>3, <3>1
    <3>3. ledger'[k].job = n <=> k \in Buffered(v)
      BY <2>4, <2>5
    <3> QED
      BY <2>4, <3>2, <3>3
  <2>9. \A j \in 1..Len(batches'), k \in Keys, c \in Contents :
          (k[1] = batches'[j].view /\ <<k[2], c>> \in batches'[j].events)
            <=> (ledger'[k].job = j /\ ledger'[k].content = c)
    <3>1. \A j \in 1..Len(batches') : j \in 1..Len(batches) \/ j = n
      BY <1>r, <2>2
    <3>2. batches'[n].view = v /\ batches'[n].events = events
      BY <2>2
    <3> HIDE DEF events, n
    <3> SUFFICES ASSUME NEW j \in 1..Len(batches'), NEW k \in Keys, NEW c \in Contents
        PROVE  (k[1] = batches'[j].view /\ <<k[2], c>> \in batches'[j].events)
                 <=> (ledger'[k].job = j /\ ledger'[k].content = c)
      OBVIOUS
    <3>3. CASE j = n
      BY <2>8, <3>2, <3>3
    <3>4. CASE j \in 1..Len(batches)
      BY <2>7, <3>4
    <3> QED
      BY <3>1, <3>3, <3>4
  <2>10. \A k \in Keys : ledger'[k].state \in {"absent", "pending"} => ledger'[k].job = 0
    BY <2>4 DEF BatchInv
  <2> QED
    BY <2>6, <2>9, <2>10 DEF BatchInv, StagedExactlyOnce
<1>3. CASE Applies
  <2>1. PICK j \in 1..Len(batches) : Apply(j)
    BY <1>3 DEF Applies
  <2>2. \A k \in Keys :
          /\ ledger'[k].content = ledger[k].content /\ ledger'[k].job = ledger[k].job
          /\ \/ ledger'[k].state = ledger[k].state
             \/ ledger[k].state = "staged" /\ ledger'[k].state = "applied"
    BY <1>r, <2>1 DEF Apply, Rows, Absent
  <2>3. batches' = batches
    BY <2>1 DEF Apply
  <2> QED
    BY <2>2, <2>3 DEF BatchInv, StagedExactlyOnce
<1>4. CASE KeepsLedger
  BY <1>4 DEF KeepsLedger, BatchInv, StagedExactlyOnce
<1> QED
  BY <1>1, <1>2, <1>3, <1>4, LedgerShape

(***************************************************************************)
(* StagedExactlyOnce: an event is in exactly the batch its ledger row      *)
(* names, whatever crashes, is delivered again or raises after a commit.   *)
(***************************************************************************)
THEOREM StagedOnceCorrect == Spec => []StagedExactlyOnce
<1>1. Init => BatchInv
  BY DEF Init, BatchInv, StagedExactlyOnce, Absent
<1>2. BatchInv => StagedExactlyOnce
  BY DEF BatchInv
<1> QED
  BY <1>1, <1>2, TypedInit, TypedStep, BatchStep, PTL DEF Spec

-----------------------------------------------------------------------------
(* Both stores *)

(***************************************************************************)
(* The inductive strengthening: an event is online, or its write raised,   *)
(* from the moment it is buffered.  Staging takes only buffered events.    *)
(***************************************************************************)
Offered(k) == Online(k) \/ k \in unwritten

OnlineInv ==
    \A k \in Keys :
        (ledger[k].state \in {"staged", "applied"} \/ k \in buffer) => Offered(k)

\* What a step does to the online store: nothing, or one write.
WritesOnline == \E k \in Keys : ledger[k].state # "absent" /\ OnlineWrite(k)

LEMMA OnlineShape ==
    ASSUME Typed, [Next]_vars
    PROVE  /\ redis' = redis \/ WritesOnline
           /\ unwritten \subseteq unwritten'
           /\ \A k \in buffer' : \/ k \in buffer
                                 \/ k \in unwritten'
                                 \/ OnlineWrite(k) /\ ledger[k].state # "absent"
<1> USE DEF vars, brokers, stores, control, memory
<1>m. pc = "online" => /\ Message(at).key \in Keys
                       /\ ledger[Message(at).key].state # "absent"
  BY MessageInHand DEF Typed, PlaceInv, MemoryInv, InHand, Messages
<1>1. ASSUME NEW k \in Keys, RecoverOne(k)
      PROVE  /\ ledger[k].state # "absent" /\ unwritten' = unwritten
             /\ redis' = redis \/ OnlineWrite(k)
             /\ buffer' = {} \/ (OnlineWrite(k) /\ buffer' = buffer \cup {k})
  BY <1>1 DEF RecoverOne, Pending, Halt
<1>2. CASE Buffer
  BY <1>2, <1>m DEF Buffer, Hold, WritesOnline
<1>3. CASE BufferRaises
  BY <1>3, <1>m DEF BufferRaises, Hold, WritesOnline
<1>4. CASE Crash \/ Shutdown \/ Start \/ Recovered \/ FlushDue
           \/ (\E p \in Partitions : Poll(p)) \/ Register \/ RegisterRaises
  BY <1>4 DEF Crash, Shutdown, Start, Recovered, FlushDue, Poll, Register,
              RegisterRaises, Halt
<1>5. CASE DeadLetter \/ DeadLetterRaises \/ FlushRaises \/ Flushed
           \/ (\E j \in 1..Len(batches) : Apply(j))
  BY <1>5 DEF DeadLetter, DeadLetterRaises, FlushRaises, Flushed, Apply, Raise, Halt
<1>6. CASE \E v \in Views : FlushView(v) \/ FlushViewRaises(v)
  BY <1>6 DEF FlushView, FlushViewRaises, Clear, Raise, Halt
<1>7. CASE (\E p \in Partitions : CommitLatest(p) \/ CommitLatestRaises(p))
           \/ Acked \/ Commit \/ CommitRaises
  BY <1>7 DEF CommitLatest, CommitLatestRaises, Acked, Commit, CommitRaises, Raise, Halt
<1>8. CASE UNCHANGED vars
  BY <1>8
<1> QED
  BY <1>1, <1>2, <1>3, <1>4, <1>5, <1>6, <1>7, <1>8
     DEF Next, Consume, Fail, WritesOnline

(***************************************************************************)
(* Writes only make the store newer, and leave what they wrote online.     *)
(***************************************************************************)
LEMMA OnlineWriteGrows ==
    ASSUME Typed, NEW k \in Keys, ledger[k].state # "absent", OnlineWrite(k)
    PROVE  /\ \A h \in Views \X Entities : AtLeast(redis'[h], redis[h])
           /\ AtLeast(redis'[<<k[1], ledger[k].content.entity>>],
                      Version(k, ledger[k].content))
<1> DEFINE c == ledger[k].content
           hash == <<k[1], c.entity>>
<1>1. c \in Contents
  BY RowContent
<1>2. hash \in Views \X Entities
  BY <1>1, ContentsAssumption DEF Keys
<1>3. \A h \in Views \X Entities : redis[h] \in Hashes
  BY DEF Typed, TypeOK, Hashes
<1>4. /\ AtLeast(Upsert(redis[hash], Version(k, c)), Version(k, c))
      /\ AtLeast(Upsert(redis[hash], Version(k, c)), redis[hash])
  BY <1>1, <1>2, <1>3, VersionType, UpsertKeepsNewest
<1>5. redis' = [redis EXCEPT ![hash] = Upsert(redis[hash], Version(k, c))]
  BY DEF OnlineWrite
<1>6. \A h \in Hashes : AtLeast(h, h)
  BY DEF Hashes, Versions, NoHash, AtLeast
<1> QED
  BY <1>2, <1>3, <1>4, <1>5, <1>6 DEF Typed, TypeOK

\* What was offered stays offered.
LEMMA OfferedStable ==
    ASSUME Typed, [Next]_vars, NEW k \in Keys, ledger[k].state # "absent", Offered(k)
    PROVE  Offered(k)'
<1> DEFINE c == ledger[k].content
           h == <<k[1], c.entity>>
<1>1. c \in Contents /\ ledger'[k].content = c
  BY RowContent, RowsKept DEF KeepsRows
<1>2. h \in Views \X Entities
  BY <1>1, ContentsAssumption DEF Keys
<1>3. redis[h] \in Hashes /\ redis'[h] \in Hashes
  BY <1>2, TypedStep DEF Typed, TypeOK, Hashes
<1>4. AtLeast(redis'[h], redis[h])
  <2>1. CASE redis' = redis
    BY <1>3, <2>1 DEF Hashes, Versions, NoHash, AtLeast
  <2>2. CASE WritesOnline
    BY <1>2, <2>2, OnlineWriteGrows DEF WritesOnline
  <2> QED
    BY <2>1, <2>2, OnlineShape
<1>5. Version(k, c) \in Hashes
  BY <1>1, VersionType DEF Hashes
<1>6. AtLeast(redis[h], Version(k, c)) => AtLeast(redis'[h], Version(k, c))
  BY <1>3, <1>4, <1>5, AtLeastTransitive
<1> QED
  BY <1>1, <1>6, OnlineShape DEF Offered, Online

LEMMA OnlineStep == Typed /\ OnlineInv /\ [Next]_vars => OnlineInv'
<1> SUFFICES ASSUME Typed, OnlineInv, [Next]_vars,
                    NEW k \in Keys,
                    ledger'[k].state \in {"staged", "applied"} \/ k \in buffer'
             PROVE  Offered(k)'
  BY DEF OnlineInv
<1>1. CASE ledger[k].state \in {"staged", "applied"} \/ k \in buffer
  <2>1. ledger[k].state # "absent"
    BY <1>1 DEF Typed, MemoryInv
  <2> QED
    BY <1>1, <2>1, OfferedStable DEF OnlineInv
<1>2. CASE ~(ledger[k].state \in {"staged", "applied"} \/ k \in buffer)
  <2>1. ledger[k] \in Rows
    BY DEF Typed, TypeOK
  <2>2. ledger'[k].state \notin {"staged", "applied"}
    <3>1. CASE Registers
      BY <1>2, <2>1, <3>1 DEF Registers, Insert, Typed, TypeOK
    <3>2. CASE Stages
      BY <1>2, <2>1, <3>2 DEF Stages, Stage, Buffered
    <3>3. CASE Applies
      BY <1>2, <2>1, <3>3 DEF Applies, Apply
    <3>4. CASE KeepsLedger
      BY <1>2, <3>4 DEF KeepsLedger
    <3> QED
      BY <3>1, <3>2, <3>3, <3>4, LedgerShape
  <2>3. k \in unwritten' \/ (OnlineWrite(k) /\ ledger[k].state # "absent")
    <3>1. k \in buffer' /\ k \notin buffer
      BY <1>2, <2>2
    <3>2. \A l \in buffer' :
            \/ l \in buffer
            \/ l \in unwritten'
            \/ OnlineWrite(l) /\ ledger[l].state # "absent"
      BY OnlineShape
    <3> QED
      BY <3>1, <3>2
  <2>4. CASE OnlineWrite(k) /\ ledger[k].state # "absent"
    BY <2>4, OnlineWriteGrows, RowsKept DEF KeepsRows, Offered, Online, Version
  <2> QED
    BY <2>3, <2>4 DEF Offered
<1> QED
  BY <1>1, <1>2

(***************************************************************************)
(* StagedIsOnlineOrFailed: only the failed write of an event itself leaves *)
(* the online store behind the offline one.                                *)
(***************************************************************************)
THEOREM StoresAgree == Spec => []StagedIsOnlineOrFailed
<1>1. Init => OnlineInv
  BY DEF Init, OnlineInv, Absent
<1>2. OnlineInv => StagedIsOnlineOrFailed
  BY DEF OnlineInv, StagedIsOnlineOrFailed, Offered
<1> QED
  BY <1>1, <1>2, TypedInit, TypedStep, OnlineStep, PTL DEF Spec

-----------------------------------------------------------------------------
(* Offsets *)

(***************************************************************************)
(* The inductive strengthening: no message that still waits for its commit *)
(* lies below the committed offset, the message in hand is the last one    *)
(* read from its partition, and it is not committed before its branch has  *)
(* flushed the buffer.                                                     *)
(***************************************************************************)
OffsetsInv ==
    /\ \A k \in Keys : \A w \in held[k] : committed[w[1]] <= w[2]
    /\ \A w \in acks : committed[w[1]] <= w[2]
    /\ InHand => at[2] + 1 = position[at[1]]
    /\ pc \in {"register", "online"} => committed[at[1]] <= at[2]

\* A step that commits nothing, reads nothing and forgets at most.
LEMMA OffsetsKept ==
    ASSUME Typed, OffsetsInv,
           UNCHANGED <<committed, position>>,
           acks' \subseteq acks,
           \A k \in Keys : held'[k] \subseteq held[k],
           InHand' => InHand /\ at' = at,
           pc' \in {"register", "online"} => pc \in {"register", "online"} /\ at' = at
    PROVE  OffsetsInv'
BY DEF OffsetsInv

LEMMA OffsetsStep ==
    Typed /\ OffsetsInv /\ [Next]_vars =>
        OffsetsInv' /\ \A p \in Partitions : committed'[p] >= committed[p]
<1> SUFFICES ASSUME Typed, OffsetsInv, [Next]_vars
    PROVE OffsetsInv' /\ \A p \in Partitions : committed'[p] >= committed[p]
  OBVIOUS
<1> USE DEF vars, brokers, stores, control, memory
<1>m. InHand => /\ at \in Positions /\ at[1] \in Partitions /\ at[2] \in Nat
                /\ Message(at).key \in Keys
  BY MessageInHand DEF Typed, TypeOK, PlaceInv, Positions, Messages, InHand
<1>p. \A p \in Partitions : /\ committed[p] \in Nat /\ position[p] \in Nat
                             /\ committed[p] <= position[p]
  BY DEF Typed, TypeOK, MemoryInv
<1>w. \A w \in Positions : w[1] \in Partitions /\ w[2] \in Nat
  BY DEF Positions
<1>t. TypeOK /\ PlaceInv
  BY DEF Typed
<1>1. CASE Crash \/ Shutdown \/ Recovered \/ FlushDue \/ Flushed \/ Acked
  <2>1. /\ UNCHANGED <<committed, position>> /\ acks' \subseteq acks
        /\ \A k \in Keys : held'[k] \subseteq held[k]
        /\ InHand' => InHand /\ at' = at
        /\ pc' \notin {"register", "online"}
    BY <1>1, <1>t DEF Crash, Shutdown, Recovered, FlushDue, Flushed, Acked, Halt,
                      Return, PlaceInv, InHand
  <2> QED
    BY <1>p, <2>1, OffsetsKept
<1>2. CASE Start
  BY <1>2, <1>p, <1>t DEF Start, PlaceInv, InHand, OffsetsInv, TypeOK
<1>3. ASSUME NEW k \in Keys, RecoverOne(k)
      PROVE  OffsetsInv' /\ \A p \in Partitions : committed'[p] >= committed[p]
  <2>1. /\ UNCHANGED <<committed, position>> /\ acks' \subseteq acks
        /\ \A l \in Keys : held'[l] \subseteq held[l]
        /\ InHand' => InHand /\ at' = at
        /\ pc' \notin {"register", "online"}
    BY <1>3, <1>t DEF RecoverOne, Halt, PlaceInv, InHand
  <2> QED
    BY <1>p, <2>1, OffsetsKept
<1>4. ASSUME NEW p \in Partitions, Poll(p)
      PROVE  OffsetsInv' /\ \A q \in Partitions : committed'[q] >= committed[q]
  <2>1. /\ at'[1] = p /\ at'[2] = position[p]
        /\ position' = [position EXCEPT ![p] = @ + 1]
        /\ UNCHANGED <<committed, held, acks>>
    BY <1>4 DEF Poll
  <2>2. at'[2] + 1 = position'[at'[1]] /\ committed'[at'[1]] <= at'[2]
    BY <1>p, <1>t, <2>1 DEF TypeOK
  <2> QED
    BY <1>p, <2>1, <2>2 DEF OffsetsInv
<1>5. CASE Register \/ RegisterRaises
  <2>1. /\ UNCHANGED <<committed, position, at, held>> /\ acks' \subseteq acks
        /\ InHand /\ pc \in {"register", "online"}
    BY <1>5, <1>t DEF Register, RegisterRaises, Rescue, PlaceInv, InHand
  <2> QED
    BY <1>p, <2>1, OffsetsKept
<1>6. CASE Buffer \/ BufferRaises
  <2> DEFINE k == Message(at).key
  <2>1. /\ UNCHANGED <<committed, position>> /\ acks' \subseteq acks
        /\ held' = [held EXCEPT ![k] = @ \cup {at}]
        /\ InHand /\ pc = "online" /\ pc' \notin {"register", "online"}
        /\ InHand' => at' = at
    BY <1>6, <1>t DEF Buffer, BufferRaises, Hold, Rescue, Return, PlaceInv, InHand
  <2>2. k \in Keys /\ held \in [Keys -> SUBSET Positions]
    BY <1>m, <1>t, <2>1 DEF TypeOK
  <2>3. committed[at[1]] <= at[2]
    BY <2>1 DEF OffsetsInv
  <2>4. \A l \in Keys : \A w \in held'[l] : committed[w[1]] <= w[2]
    BY <2>1, <2>2, <2>3 DEF OffsetsInv
  <2> HIDE DEF k
  <2> QED
    BY <1>p, <2>1, <2>4 DEF OffsetsInv
<1>7. CASE DeadLetter \/ DeadLetterRaises \/ FlushRaises
  <2>1. /\ UNCHANGED <<committed, position>> /\ acks' \subseteq acks
        /\ \A k \in Keys : held'[k] \subseteq held[k]
        /\ InHand' => InHand /\ at' = at
        /\ pc' \notin {"register", "online"}
    BY <1>7, <1>t DEF DeadLetter, DeadLetterRaises, FlushRaises, Raise, Rescue, Halt,
                      PlaceInv, InHand
  <2> QED
    BY <1>p, <2>1, OffsetsKept
<1>8. ASSUME NEW v \in Views, FlushView(v)
      PROVE  OffsetsInv' /\ \A p \in Partitions : committed'[p] >= committed[p]
  <2>1. /\ UNCHANGED <<committed, position, pc, level, at>>
        /\ \A k \in Keys : held'[k] \subseteq held[k]
    BY <1>8 DEF FlushView, Clear
  <2>2. \A w \in acks' : w \in acks \/ \E k \in Keys : w \in held[k]
    BY <1>8, <1>t DEF FlushView, Buffered, TypeOK
  <2> QED
    BY <1>p, <2>1, <2>2 DEF OffsetsInv, InHand
<1>9. ASSUME NEW v \in Views, FlushViewRaises(v)
      PROVE  OffsetsInv' /\ \A p \in Partitions : committed'[p] >= committed[p]
  <2>1. /\ UNCHANGED <<committed, position>> /\ acks' \subseteq acks
        /\ \A k \in Keys : held'[k] \subseteq held[k]
        /\ InHand' => InHand /\ at' = at
        /\ pc' \notin {"register", "online"}
    BY <1>9, <1>t DEF FlushViewRaises, Raise, Rescue, Halt, PlaceInv, InHand
  <2> QED
    BY <1>p, <2>1, OffsetsKept
<1>h. pc \in {"ack", "commit"} => \A k \in Keys : held[k] = {}
  BY <1>t DEF PlaceInv
<1>n. ASSUME NEW p \in Partitions, CommitNewest(p)
      PROVE  /\ \A q \in Partitions : committed'[q] >= committed[q]
             /\ \A w \in Positions : w[1] # p => committed'[w[1]] = committed[w[1]]
  <2>1. PICK w \in acks : w[1] = p /\ committed' = [committed EXCEPT ![p] = w[2] + 1]
    BY <1>n DEF CommitNewest
  <2>2. w[2] \in Nat /\ committed[p] <= w[2] /\ committed \in [Partitions -> Nat]
    BY <1>t, <1>w, <2>1 DEF OffsetsInv, TypeOK
  <2> QED
    BY <1>p, <1>w, <2>1, <2>2
<1>10. ASSUME NEW p \in Partitions, CommitLatest(p)
       PROVE  OffsetsInv' /\ \A q \in Partitions : committed'[q] >= committed[q]
  <2>1. /\ pc = "ack" /\ CommitNewest(p) /\ acks' = {w \in acks : w[1] # p}
        /\ UNCHANGED <<pc, level, at, position, held>>
    BY <1>10 DEF CommitLatest
  <2>2. \A w \in acks' : committed'[w[1]] <= w[2]
    BY <1>n, <1>t, <2>1 DEF OffsetsInv, TypeOK
  <2> QED
    BY <1>h, <1>n, <2>1, <2>2 DEF OffsetsInv, InHand
<1>11. ASSUME NEW p \in Partitions, CommitLatestRaises(p)
       PROVE  OffsetsInv' /\ \A q \in Partitions : committed'[q] >= committed[q]
  <2>1. /\ pc = "ack" /\ UNCHANGED position /\ acks' = {}
        /\ CommitNewest(p) \/ UNCHANGED committed
        /\ \A k \in Keys : held'[k] = {}
        /\ InHand' => InHand /\ at' = at
        /\ pc' \notin {"register", "online"}
    BY <1>11, <1>h, <1>t DEF CommitLatestRaises, Raise, Rescue, Halt, PlaceInv, InHand
  <2> QED
    BY <1>n, <1>p, <2>1 DEF OffsetsInv
<1>o. ASSUME InHand, CommitOwn
      PROVE  \A q \in Partitions : committed'[q] >= committed[q]
  BY <1>m, <1>o, <1>p, <1>t DEF CommitOwn, OffsetsInv, TypeOK
<1>12. CASE Commit
  <2>1. /\ InHand /\ CommitOwn /\ UNCHANGED <<position, held, acks>>
        /\ pc = "commit" /\ pc' = "poll" /\ ~InHand'
    BY <1>12, <1>t DEF Commit, Return, PlaceInv, InHand
  <2>2. acks = {}
    BY <1>t, <2>1 DEF PlaceInv
  <2> QED
    BY <1>h, <1>o, <2>1, <2>2 DEF OffsetsInv
<1>13. CASE CommitRaises
  <2>1. /\ InHand /\ pc = "commit" /\ UNCHANGED position /\ acks' = {}
        /\ CommitOwn \/ UNCHANGED committed
        /\ \A k \in Keys : held'[k] = {}
        /\ InHand' => InHand /\ at' = at
        /\ pc' \notin {"register", "online"}
    BY <1>13, <1>h, <1>t DEF CommitRaises, Raise, Rescue, Halt, PlaceInv, InHand
  <2> QED
    BY <1>o, <1>p, <2>1 DEF OffsetsInv
<1>14. CASE (\E j \in 1..Len(batches) : Apply(j)) \/ UNCHANGED vars
  BY <1>14, <1>p DEF Apply, OffsetsInv, InHand
<1> QED
  BY <1>1, <1>2, <1>3, <1>4, <1>5, <1>6, <1>7, <1>8, <1>9, <1>10, <1>11, <1>12, <1>13,
     <1>14 DEF Next, Consume, Fail

(***************************************************************************)
(* OffsetsNeverRegress: for every log, batch size and order of failures no *)
(* commit moves an offset back.                                            *)
(***************************************************************************)
THEOREM OffsetsCorrect == Spec => OffsetsNeverRegress
<1>1. Init => OffsetsInv
  BY DEF Init, OffsetsInv, InHand
<1>2. Typed /\ OffsetsInv /\ [Next]_vars =>
          [\A p \in Partitions : committed'[p] >= committed[p]]_vars
  BY OffsetsStep
<1> QED
  BY <1>1, <1>2, TypedInit, TypedStep, OffsetsStep, PTL DEF Spec, OffsetsNeverRegress

-----------------------------------------------------------------------------
(* Settled messages *)

(***************************************************************************)
(* The positions whose messages are settled, or lost as dead letters, and  *)
(* a partition that is safe below an offset.                               *)
(***************************************************************************)
Safe ==
    {w \in Positions :
        w[2] < Len(log[w[1]]) /\ (Settled(w) \/ w \in lost)}

Upto(positions, p, n) == \A o \in 0..(n - 1) : <<p, o>> \in positions

(***************************************************************************)
(* The inductive strengthening of CommittedIsSettled: each partition is    *)
(* safe below its committed offset and up to every message that waits for  *)
(* a commit; the message in hand is safe itself from its registration or   *)
(* dead letter on; and whenever the process may poll, all it read is safe. *)
(***************************************************************************)
SettledInv ==
    /\ \A p \in Partitions : Upto(Safe, p, committed[p])
    /\ \A k \in Keys : \A w \in held[k] : Upto(Safe, w[1], w[2] + 1)
    /\ \A w \in acks : Upto(Safe, w[1], w[2] + 1)
    /\ InHand => /\ Upto(Safe, at[1], at[2])
                 /\ \A p \in Partitions \ {at[1]} : Upto(Safe, p, position[p])
    /\ InHand /\ pc \in {"online", "flush", "ack", "commit"} => at \in Safe
    /\ pc = "poll" \/ level \in {"loop", "recover"} =>
          \A p \in Partitions : Upto(Safe, p, position[p])
\* The logs are fixed, and nothing leaves the dead-letter topic.
LEMMA BrokersKept ==
    ASSUME [Next]_vars
    PROVE  log' = log /\ dlq \subseteq dlq' /\ lost \subseteq lost'
<1> USE DEF vars, brokers, stores, control, memory
<1>1. CASE Crash \/ Shutdown \/ Start \/ Recovered \/ FlushDue \/ Register
           \/ RegisterRaises \/ Buffer \/ BufferRaises \/ DeadLetter
  BY <1>1 DEF Crash, Shutdown, Start, Recovered, FlushDue, Register, RegisterRaises,
              Buffer, BufferRaises, DeadLetter
<1>2. CASE \/ \E k \in Keys : RecoverOne(k)
           \/ \E p \in Partitions : Poll(p) \/ CommitLatest(p) \/ CommitLatestRaises(p)
           \/ \E v \in Views : FlushView(v) \/ FlushViewRaises(v)
           \/ \E j \in 1..Len(batches) : Apply(j)
  BY <1>2 DEF RecoverOne, Poll, CommitLatest, CommitLatestRaises, FlushView,
              FlushViewRaises, Apply
<1>3. CASE DeadLetterRaises \/ FlushRaises \/ Flushed \/ Acked \/ Commit \/ CommitRaises
  BY <1>3 DEF DeadLetterRaises, FlushRaises, Flushed, Acked, Commit, CommitRaises
<1>4. CASE UNCHANGED vars
  BY <1>4
<1> QED
  BY <1>1, <1>2, <1>3, <1>4 DEF Next, Consume, Fail

\* What is safe stays safe.
LEMMA SafeKept ==
    ASSUME Typed, [Next]_vars
    PROVE  Safe \subseteq Safe'
<1> SUFFICES ASSUME NEW w \in Safe PROVE w \in Safe'
  OBVIOUS
<1>1. /\ w \in Positions /\ w[1] \in Partitions /\ w[2] \in Nat
      /\ w[2] < Len(log[w[1]])
      /\ Settled(w) \/ w \in lost
  BY DEF Safe, Positions
<1>2. Message(w) \in Messages
  BY <1>1 DEF Typed, TypeOK, Message
<1>3. Message(w).key \in Keys
  BY <1>2 DEF Messages
<1>4. ledger[Message(w).key] # Absent => ledger[Message(w).key].state # "absent"
  BY <1>3 DEF Typed, TypeOK, Rows
<1>5. ledger'[Message(w).key].state # "absent" => ledger'[Message(w).key] # Absent
  BY DEF Absent
<1>6. Settled(w) => Settled(w)'
  BY <1>3, <1>4, <1>5, BrokersKept, RowsKept DEF Settled, KeepsRows, Message
<1> QED
  BY <1>1, <1>6, BrokersKept DEF Safe

\* Safe prefixes grow with the safe positions, and by one position at a time.
LEMMA UptoGrows ==
    ASSUME NEW S, NEW T, S \subseteq T, NEW p, NEW n \in Nat, Upto(S, p, n)
    PROVE  Upto(T, p, n)
BY DEF Upto

LEMMA UptoNext ==
    ASSUME NEW S, NEW p, NEW n \in Nat, Upto(S, p, n), <<p, n>> \in S
    PROVE  Upto(S, p, n + 1)
BY DEF Upto

(***************************************************************************)
(* A step that reads and commits nothing keeps the invariant, when it has  *)
(* made the message in hand safe before a flush and everything read safe   *)
(* before a poll.                                                          *)
(***************************************************************************)
LEMMA SettledKept ==
    ASSUME Typed, SettledInv, [Next]_vars,
           UNCHANGED <<committed, position>>,
           acks' \subseteq acks,
           \A k \in Keys : held'[k] \subseteq held[k],
           InHand' => InHand /\ at' = at,
           InHand' /\ pc' \in {"online", "flush", "ack", "commit"} => at \in Safe',
           pc' = "poll" \/ level' \in {"loop", "recover"} =>
               \A p \in Partitions : Upto(Safe, p, position[p])
    PROVE  SettledInv'
<1>p. \A p \in Partitions : committed[p] \in Nat /\ position[p] \in Nat
  BY DEF Typed, TypeOK
<1>w. \A w \in Positions : w[1] \in Partitions /\ w[2] \in Nat /\ w[2] + 1 \in Nat
  BY DEF Positions
<1>t. /\ acks \subseteq Positions /\ held \in [Keys -> SUBSET Positions]
      /\ InHand => at \in Positions
  BY DEF Typed, TypeOK, PlaceInv
<1>u. \A p, n : n \in Nat /\ Upto(Safe, p, n) => Upto(Safe', p, n)
  BY SafeKept, UptoGrows
<1>1. \A p \in Partitions : Upto(Safe', p, committed'[p])
  BY <1>p, <1>u DEF SettledInv
<1>2. \A k \in Keys : \A w \in held'[k] : Upto(Safe', w[1], w[2] + 1)
  BY <1>t, <1>u, <1>w DEF SettledInv
<1>3. \A w \in acks' : Upto(Safe', w[1], w[2] + 1)
  BY <1>t, <1>u, <1>w DEF SettledInv
<1>4. InHand' => /\ Upto(Safe', at'[1], at'[2])
                 /\ \A p \in Partitions \ {at'[1]} : Upto(Safe', p, position'[p])
  BY <1>p, <1>t, <1>u, <1>w DEF SettledInv
<1>5. pc' = "poll" \/ level' \in {"loop", "recover"} =>
          \A p \in Partitions : Upto(Safe', p, position'[p])
  BY <1>p, <1>u
<1>6. InHand' /\ pc' \in {"online", "flush", "ack", "commit"} => at' \in Safe'
  OBVIOUS
<1> QED
  BY <1>1, <1>2, <1>3, <1>4, <1>5, <1>6 DEF SettledInv

LEMMA SettledStep ==
    Typed /\ OffsetsInv /\ SettledInv /\ [Next]_vars => SettledInv'
<1> SUFFICES ASSUME Typed, OffsetsInv, SettledInv, [Next]_vars PROVE SettledInv'
  OBVIOUS
<1> USE DEF vars, brokers, stores, control, memory
<1>m. InHand => /\ at \in Positions /\ at[1] \in Partitions /\ at[2] \in Nat
                /\ at = <<at[1], at[2]>> /\ at[2] < Len(log[at[1]])
                /\ at[2] + 1 = position[at[1]]
                /\ Message(at) \in Messages /\ Message(at).key \in Keys
  <2> SUFFICES ASSUME InHand
      PROVE  /\ at \in Positions /\ at[1] \in Partitions /\ at[2] \in Nat
             /\ at = <<at[1], at[2]>> /\ at[2] < Len(log[at[1]])
             /\ at[2] + 1 = position[at[1]]
             /\ Message(at) \in Messages /\ Message(at).key \in Keys
    OBVIOUS
  <2>1. at \in Positions
    BY DEF Typed, PlaceInv
  <2>2. at[1] \in Partitions /\ at[2] \in Nat /\ at = <<at[1], at[2]>>
    BY <2>1 DEF Positions
  <2>3. at[2] + 1 = position[at[1]]
    BY DEF OffsetsInv
  <2>4. at[2] < Len(log[at[1]])
    BY <2>2, <2>3 DEF Typed, TypeOK, MemoryInv
  <2>5. Message(at) \in Messages /\ Message(at).key \in Keys
    BY MessageInHand DEF Messages
  <2> QED
    BY <2>1, <2>2, <2>3, <2>4, <2>5
<1>p. \A p \in Partitions : committed[p] \in Nat /\ position[p] \in Nat
  BY DEF Typed, TypeOK
<1>w. \A w \in Positions : w[1] \in Partitions /\ w[2] \in Nat /\ w[2] + 1 \in Nat
  BY DEF Positions
<1>t. TypeOK /\ PlaceInv
  BY DEF Typed
<1>s. Safe \subseteq Safe' /\ log' = log
  BY SafeKept, BrokersKept
<1>u. \A p, n : n \in Nat /\ Upto(Safe, p, n) => Upto(Safe', p, n)
  BY <1>s, UptoGrows
<1>n. InHand /\ at \in Safe => Upto(Safe, at[1], at[2] + 1)
  BY <1>m, UptoNext DEF SettledInv
<1>r. InHand /\ at \in Safe => \A p \in Partitions : Upto(Safe, p, position[p])
  BY <1>m, <1>n DEF SettledInv
<1>1. CASE Crash \/ Shutdown \/ Recovered \/ FlushDue \/ Flushed \/ Acked
  <2>1. /\ UNCHANGED <<committed, position>> /\ acks' \subseteq acks
        /\ \A k \in Keys : held'[k] \subseteq held[k]
        /\ InHand' => InHand /\ at' = at /\ pc \in {"flush", "ack"}
        /\ pc' = "poll" \/ level' \in {"loop", "recover"} =>
               pc = "poll" \/ level \in {"loop", "recover"}
    BY <1>1, <1>t DEF Crash, Shutdown, Recovered, FlushDue, Flushed, Acked, Halt,
                      Return, PlaceInv, InHand
  <2>2. InHand' => at \in Safe'
    BY <1>s, <2>1 DEF SettledInv
  <2>3. pc' = "poll" \/ level' \in {"loop", "recover"} =>
            \A p \in Partitions : Upto(Safe, p, position[p])
    BY <2>1 DEF SettledInv
  <2> QED
    BY <2>1, <2>2, <2>3, SettledKept
<1>2. CASE Start
  <2>1. /\ position' = committed /\ committed' = committed /\ ~InHand' /\ ~InHand
        /\ UNCHANGED <<held, acks>>
    BY <1>2, <1>t DEF Start, PlaceInv, InHand
  <2>2. acks \subseteq Positions /\ held \in [Keys -> SUBSET Positions]
    BY <1>t DEF TypeOK
  <2> QED
    BY <1>p, <1>u, <1>w, <2>1, <2>2 DEF SettledInv
<1>3. ASSUME NEW k \in Keys, RecoverOne(k) PROVE SettledInv'
  <2>1. /\ UNCHANGED <<committed, position>> /\ acks' \subseteq acks
        /\ \A l \in Keys : held'[l] \subseteq held[l]
        /\ ~InHand' /\ level = "recover"
    BY <1>3, <1>t DEF RecoverOne, Halt, PlaceInv, InHand
  <2>2. \A p \in Partitions : Upto(Safe, p, position[p])
    BY <2>1 DEF SettledInv
  <2> QED
    BY <2>1, <2>2, SettledKept
<1>4. ASSUME NEW p \in Partitions, Poll(p) PROVE SettledInv'
  <2>1. /\ at' = <<p, position[p]>> /\ position' = [position EXCEPT ![p] = @ + 1]
        /\ UNCHANGED <<committed, held, acks>>
        /\ position[p] < Len(log[p]) /\ pc = "poll"
    BY <1>4 DEF Poll
  <2>2. at'[1] = p /\ at'[2] = position[p] /\ at' \in Positions
    BY <1>p, <2>1 DEF Positions
  <2>3. \A q \in Partitions : Upto(Safe', q, position[q])
    BY <1>p, <1>u, <2>1 DEF SettledInv
  <2>4. PICK verdict \in Message(at').verdicts :
           pc' = Route[verdict].pc /\ level' = Route[verdict].level
    BY <1>4 DEF Poll
  <2>5. Message(at') \in Messages
    BY <1>p, <1>t, <2>1 DEF TypeOK, Message
  <2>6. /\ pc' \in {"dead_letter", "flush", "register"} /\ level' \in {"body", "rescue"}
        /\ pc' = "flush" => verdict = "reject"
    BY <2>4, <2>5 DEF Route, Verdicts, Messages
  <2>7. log' = log
    BY <1>4 DEF Poll
  <2>8. \A w \in Positions :
           w[2] < Len(log[w[1]]) /\ "reject" \in Message(w).verdicts => w \in Safe'
    BY <2>7 DEF Safe, Settled, Message
  <2>9. pc' = "flush" => at' \in Safe'
    BY <2>1, <2>2, <2>4, <2>6, <2>8
  <2>10. acks \subseteq Positions /\ held \in [Keys -> SUBSET Positions]
    BY <1>t DEF TypeOK
  <2>11. \A q \in Partitions \ {p} : position'[q] = position[q]
    BY <1>t, <2>1 DEF TypeOK
  <2> QED
    BY <1>p, <1>u, <1>w, <2>1, <2>2, <2>3, <2>6, <2>9, <2>10, <2>11 DEF SettledInv, InHand
<1>5. CASE Register
  <2>1. /\ UNCHANGED <<committed, position, at, level, held, acks>>
        /\ InHand /\ pc' \in {"online", "flush", "dead_letter"}
        /\ ~(level \in {"loop", "recover"})
    BY <1>5, <1>t DEF Register, PlaceInv, InHand
  <2>2. pc' \in {"online", "flush"} =>
            /\ ledger'[Message(at).key].content = Message(at).content
            /\ ledger'[Message(at).key] # Absent
    BY <1>5, <1>m, <1>t, <2>1 DEF Register, Insert, TypeOK, Absent
  <2>3. pc' \in {"online", "flush"} => at \in Safe'
    BY <1>m, <1>s, <2>1, <2>2 DEF Safe, Settled, Message
  <2> QED
    BY <2>1, <2>3, SettledKept DEF InHand
<1>6. CASE RegisterRaises \/ DeadLetterRaises \/ FlushRaises
           \/ \E v \in Views : FlushViewRaises(v)
  <2>1. /\ UNCHANGED <<committed, position>> /\ acks' \subseteq acks
        /\ \A k \in Keys : held'[k] \subseteq held[k]
        /\ InHand' => InHand /\ at' = at /\ pc' = "dead_letter"
        /\ pc' # "poll" /\ level' \notin {"loop", "recover"}
    BY <1>6, <1>t DEF RegisterRaises, DeadLetterRaises, FlushRaises, FlushViewRaises,
                      Raise, Rescue, Halt, PlaceInv, InHand
  <2> QED
    BY <2>1, SettledKept
<1>7. CASE Buffer \/ BufferRaises
  <2> DEFINE k == Message(at).key
  <2>1. /\ UNCHANGED <<committed, position>> /\ acks' \subseteq acks
        /\ held' = [held EXCEPT ![k] = @ \cup {at}]
        /\ InHand /\ pc = "online" /\ pc' \in {"poll", "dead_letter"}
        /\ InHand' => at' = at /\ pc' = "dead_letter"
        /\ level' \notin {"loop", "recover"}
    BY <1>7, <1>t DEF Buffer, BufferRaises, Hold, Rescue, Return, PlaceInv, InHand
  <2>2. k \in Keys /\ held \in [Keys -> SUBSET Positions] /\ acks \subseteq Positions
    BY <1>m, <1>t, <2>1 DEF TypeOK
  <2>3. at \in Safe
    BY <2>1 DEF SettledInv
  <2>4. \A l \in Keys : \A w \in held'[l] : Upto(Safe', w[1], w[2] + 1)
    <3>1. \A l \in Keys : \A w \in held'[l] : w \in Positions /\ Upto(Safe, w[1], w[2] + 1)
      BY <1>m, <1>n, <2>1, <2>2, <2>3 DEF SettledInv
    <3> QED
      BY <1>u, <1>w, <3>1
  <2>5. \A p \in Partitions : Upto(Safe', p, position[p])
    BY <1>p, <1>r, <1>u, <2>1, <2>3
  <2> HIDE DEF k
  <2> QED
    BY <1>m, <1>p, <1>u, <1>w, <2>1, <2>2, <2>3, <2>4, <2>5 DEF SettledInv
<1>8. CASE DeadLetter
  <2>1. /\ UNCHANGED <<committed, position, at, level, held, acks>> /\ InHand
        /\ at \in dlq' \cup lost' /\ pc' = "flush"
        /\ level \notin {"loop", "recover"}
    BY <1>8, <1>t DEF DeadLetter, PlaceInv, InHand
  <2>2. at \in Safe'
    BY <1>m, <1>s, <2>1 DEF Safe, Settled
  <2> QED
    BY <2>1, <2>2, SettledKept
<1>9. ASSUME NEW v \in Views, FlushView(v) PROVE SettledInv'
  <2>1. /\ UNCHANGED <<committed, position, pc, level, at>>
        /\ \A k \in Keys : held'[k] \subseteq held[k]
    BY <1>9 DEF FlushView, Clear
  <2>2. \A w \in acks' : w \in acks \/ \E k \in Keys : w \in held[k]
    BY <1>9, <1>t DEF FlushView, Buffered, TypeOK
  <2>3. acks \subseteq Positions /\ held \in [Keys -> SUBSET Positions]
    BY <1>t DEF TypeOK
  <2>4. \A w \in acks' : Upto(Safe', w[1], w[2] + 1)
    BY <1>u, <1>w, <2>2, <2>3 DEF SettledInv
  <2>5. \A k \in Keys : \A w \in held'[k] : Upto(Safe', w[1], w[2] + 1)
    BY <1>u, <1>w, <2>1, <2>3 DEF SettledInv
  <2> QED
    BY <1>m, <1>p, <1>s, <1>u, <2>1, <2>4, <2>5 DEF SettledInv, InHand
<1>c. ASSUME NEW p \in Partitions, CommitNewest(p)
      PROVE  \A q \in Partitions : Upto(Safe', q, committed'[q])
  <2>1. PICK w \in acks : w[1] = p /\ committed' = [committed EXCEPT ![p] = w[2] + 1]
    BY <1>c DEF CommitNewest
  <2>2. w \in Positions /\ committed \in [Partitions -> Nat]
    BY <1>t DEF TypeOK
  <2>3. Upto(Safe', p, w[2] + 1)
    BY <1>u, <1>w, <2>1, <2>2 DEF SettledInv
  <2> QED
    BY <1>p, <1>u, <2>1, <2>2, <2>3 DEF SettledInv
<1>k. \A q \in Partitions : Upto(Safe', q, committed[q])
  BY <1>p, <1>u DEF SettledInv
<1>h. pc \in {"ack", "commit"} => \A k \in Keys : held[k] = {}
  BY <1>t DEF PlaceInv
<1>10. ASSUME NEW p \in Partitions, CommitLatest(p) PROVE SettledInv'
  <2>1. /\ pc = "ack" /\ CommitNewest(p) /\ acks' \subseteq acks
        /\ UNCHANGED <<pc, level, at, position, held>>
    BY <1>10 DEF CommitLatest
  <2>2. \A w \in acks' : Upto(Safe', w[1], w[2] + 1)
    BY <1>t, <1>u, <1>w, <2>1 DEF SettledInv, TypeOK
  <2> QED
    BY <1>c, <1>h, <1>m, <1>p, <1>s, <1>u, <2>1, <2>2 DEF SettledInv, InHand
<1>11. ASSUME NEW p \in Partitions, CommitLatestRaises(p) PROVE SettledInv'
  <2>1. /\ pc = "ack" /\ UNCHANGED position /\ acks' = {}
        /\ CommitNewest(p) \/ UNCHANGED committed
        /\ \A k \in Keys : held'[k] = {}
        /\ InHand' => InHand /\ at' = at /\ pc' = "dead_letter"
        /\ pc' # "poll" /\ level' \notin {"loop", "recover"}
    BY <1>11, <1>h, <1>t DEF CommitLatestRaises, Raise, Rescue, Halt, PlaceInv, InHand
  <2>2. \A q \in Partitions : Upto(Safe', q, committed'[q])
    BY <1>c, <1>k, <2>1
  <2> QED
    BY <1>m, <1>p, <1>u, <2>1, <2>2 DEF SettledInv
<1>o. ASSUME InHand, CommitOwn, at \in Safe
      PROVE  \A q \in Partitions : Upto(Safe', q, committed'[q])
  <2>1. Upto(Safe', at[1], at[2] + 1)
    BY <1>m, <1>n, <1>o, <1>u
  <2> QED
    BY <1>k, <1>m, <1>o, <1>t, <2>1 DEF CommitOwn, TypeOK
<1>12. CASE Commit
  <2>1. /\ InHand /\ CommitOwn /\ UNCHANGED <<position, held, acks>>
        /\ pc = "commit" /\ pc' = "poll" /\ ~InHand' /\ level' = "idle"
    BY <1>12, <1>t DEF Commit, Return, PlaceInv, InHand
  <2>2. acks = {} /\ at \in Safe
    BY <1>t, <2>1 DEF PlaceInv, SettledInv
  <2>3. \A p \in Partitions : Upto(Safe', p, position[p])
    BY <1>p, <1>r, <1>u, <2>1, <2>2
  <2> QED
    BY <1>h, <1>o, <2>1, <2>2, <2>3 DEF SettledInv
<1>13. CASE CommitRaises
  <2>1. /\ InHand /\ pc = "commit" /\ UNCHANGED position /\ acks' = {}
        /\ CommitOwn \/ UNCHANGED committed
        /\ \A k \in Keys : held'[k] = {}
        /\ InHand' => at' = at /\ pc' = "dead_letter"
        /\ pc' # "poll" /\ level' \notin {"loop", "recover"}
    BY <1>13, <1>h, <1>t DEF CommitRaises, Raise, Rescue, Halt, PlaceInv, InHand
  <2>2. \A q \in Partitions : Upto(Safe', q, committed'[q])
    BY <1>k, <1>o, <2>1 DEF SettledInv
  <2> QED
    BY <1>m, <1>p, <1>u, <2>1, <2>2 DEF SettledInv
<1>14. CASE (\E j \in 1..Len(batches) : Apply(j)) \/ UNCHANGED vars
  <2>1. UNCHANGED <<committed, position, pc, level, at, held, acks>>
    BY <1>14 DEF Apply
  <2>2. InHand' = InHand
    BY <2>1 DEF InHand
  <2>3. InHand' /\ pc' \in {"online", "flush", "ack", "commit"} => at \in Safe'
    BY <1>s, <2>1, <2>2 DEF SettledInv
  <2>4. pc' = "poll" \/ level' \in {"loop", "recover"} =>
            \A p \in Partitions : Upto(Safe, p, position[p])
    BY <2>1 DEF SettledInv
  <2> QED
    BY <2>1, <2>2, <2>3, <2>4, SettledKept
<1> QED
  BY <1>1, <1>2, <1>3, <1>4, <1>5, <1>6, <1>7, <1>8, <1>9, <1>10, <1>11, <1>12, <1>13,
     <1>14 DEF Next, Consume, Fail

(***************************************************************************)
(* CommittedIsSettled: whatever crashes, raises or is delivered again, a   *)
(* committed message is in the ledger, in the dead-letter topic, dropped   *)
(* by its policy, or a dead letter that Kafka's producer lost.             *)
(***************************************************************************)
THEOREM NothingIsLost == Spec => []CommittedIsSettled
<1>1. Init => OffsetsInv /\ SettledInv
  BY DEF Init, OffsetsInv, SettledInv, InHand, Upto
<1>2. Typed /\ SettledInv => CommittedIsSettled
  BY DEF SettledInv, CommittedIsSettled, Upto, Safe
<1> QED
  BY <1>1, <1>2, TypedInit, TypedStep, OffsetsStep, SettledStep, PTL DEF Spec

=============================================================================
