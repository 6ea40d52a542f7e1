----------------------- MODULE ViewTableReads_proofs -----------------------
(***************************************************************************)
(* Theorems about what readers of a view are told: the answers of          *)
(* historical queries, the published freshness and the online store.       *)
(*                                                                         *)
(* The order of versions comes first: a finite set of rows has a first one *)
(* and an upsert never goes back.  Covered, the inductive invariant, then  *)
(* says of a materialization that each row it scanned is online already or *)
(* is covered by a row it has yet to upsert.                               *)
(***************************************************************************)
EXTENDS ViewTable_proofs, FiniteSetTheorems, WellFoundedInduction, NaturalsInduction

-----------------------------------------------------------------------------
(* The order of versions *)

\* A row of the view, as the orders of the joins and of the online store see it.
LEMMA RowFields ==
    ASSUME NEW r \in Rows
    PROVE  /\ r.event_timestamp \in Nat \ {0} /\ r.event_id \in Nat
           /\ r.entity \in Entities
           /\ Version(r) \in Versions
           /\ Version(r).event_timestamp = r.event_timestamp
           /\ Version(r).event_id = r.event_id
<1>1. r \in RowType
  BY ViewAssumption
<1>2. /\ r.event_timestamp \in Nat \ {0} /\ r.event_id \in Nat
      /\ r.entity \in Entities
  BY <1>1 DEF RowType
<1> QED BY <1>2 DEF Version, Versions

\* The two orders agree: what does not come first is at least as new.
LEMMA Orders ==
    ASSUME NEW x \in Rows, NEW r \in Rows
    PROVE  ~Precedes(x, r) <=> AtLeast(r, x)
BY RowFields DEF Precedes, AtLeast

LEMMA OrderTransitive ==
    ASSUME NEW x \in Rows, NEW y \in Rows, NEW z \in Rows, AtLeast(x, y), AtLeast(y, z)
    PROVE  AtLeast(x, z)
<1>1. /\ x.event_timestamp \in Nat /\ y.event_timestamp \in Nat /\ z.event_timestamp \in Nat
      /\ x.event_id \in Nat /\ y.event_id \in Nat /\ z.event_id \in Nat
  BY RowFields
<1> QED BY <1>1 DEF AtLeast

\* Two rows compare one way or the other.
LEMMA OrderTotal ==
    ASSUME NEW x \in Rows, NEW y \in Rows
    PROVE  AtLeast(x, x) /\ (AtLeast(x, y) \/ AtLeast(y, x))
<1>1. /\ x.event_timestamp \in Nat /\ y.event_timestamp \in Nat
      /\ x.event_id \in Nat /\ y.event_id \in Nat
  BY RowFields
<1> QED BY <1>1 DEF AtLeast

\* Every set of naturals that is not empty has a least element.
LEMMA LeastNatural ==
    ASSUME NEW S \in SUBSET Nat, S # {}
    PROVE  \E n \in S : \A m \in S : n <= m
<1>1. IsWellFoundedOn(OpToRel(<, Nat), Nat)
  BY NatLessThanWellFounded
<1>2. PICK n \in S : \A m \in S : ~(<<m, n>> \in OpToRel(<, Nat))
  BY <1>1, WFMin
<1>3. \A m \in S : ~(m < n)
  BY <1>2 DEF OpToRel
<1> QED BY <1>3

\* A set of rows that is not empty has one that is at least as new as all of
\* them: ROW_NUMBER() = 1 exists.
LEMMA NewestExists ==
    ASSUME NEW S \in SUBSET Rows, S # {}
    PROVE  \E r \in S : \A x \in S : AtLeast(r, x)
<1> DEFINE Has(V) == \E r \in V : \A x \in V : AtLeast(r, x)
           Sizes  == {n \in Nat : \E V \in SUBSET S :
                                     V # {} /\ Cardinality(V) = n /\ ~Has(V)}
<1>1. SUFFICES ASSUME ~Has(S) PROVE FALSE
  OBVIOUS
<1>2. \A V \in SUBSET S : IsFiniteSet(V) /\ Cardinality(V) \in Nat
  <2> TAKE V \in SUBSET S
  <2>1. V \in SUBSET Rows
    OBVIOUS
  <2>2. IsFiniteSet(V)
    BY <2>1, RowsAssumption, FS_Subset
  <2> QED BY <2>2, FS_CardinalityType
<1>3. Cardinality(S) \in Sizes
  BY <1>1, <1>2
<1>4. Sizes \in SUBSET Nat
  OBVIOUS
<1>5. PICK n \in Sizes : \A m \in Sizes : n <= m
  BY <1>3, <1>4, LeastNatural
<1>6. PICK V \in SUBSET S : V # {} /\ Cardinality(V) = n /\ ~Has(V)
  BY <1>5
<1>7. PICK v \in V : TRUE
  BY <1>6
<1> DEFINE W == V \ {v}
<1>8. W \in SUBSET S /\ Cardinality(W) = n - 1 /\ n \in Nat
  BY <1>2, <1>5, <1>6, <1>7, FS_RemoveElement
<1>9. Cardinality(W) \in Nat /\ ~(n <= Cardinality(W))
  BY <1>2, <1>8
<1>10. W = {} \/ Has(W)
  BY <1>5, <1>8, <1>9
<1>11. v \in Rows /\ V \subseteq Rows
  BY <1>6, <1>7
<1>12. CASE W = {}
  <2>1. \A x \in V : x = v
    BY <1>12
  <2>2. AtLeast(v, v)
    BY <1>11, OrderTotal
  <2> QED BY <1>6, <1>7, <2>1, <2>2
<1>13. CASE Has(W)
  <2>1. PICK w \in W : \A x \in W : AtLeast(w, x)
    BY <1>13
  <2>2. CASE AtLeast(w, v)
    BY <1>6, <2>1, <2>2
  <2>3. CASE AtLeast(v, w)
    <3>1. AtLeast(v, v)
      BY <1>11, OrderTotal
    <3>2. \A x \in W : AtLeast(v, x)
      BY <1>11, <2>1, <2>3, OrderTransitive
    <3> QED BY <1>6, <1>7, <3>1, <3>2
  <2> QED BY <1>11, <2>1, <2>2, <2>3, OrderTotal
<1> QED BY <1>10, <1>12, <1>13

-----------------------------------------------------------------------------
(* The online store *)

\* The script keeps the newer version (the update script of online.py).
LEMMA UpsertKeeps ==
    ASSUME NEW stored \in Versions \cup {NoHash}, NEW r \in Rows
    PROVE  /\ Upsert(stored, Version(r)) \in Versions \cup {NoHash}
           /\ AtLeast(Upsert(stored, Version(r)), r)
           /\ AtLeast(Upsert(stored, Version(r)), stored)
<1>1. /\ stored.event_timestamp \in Nat /\ stored.event_id \in Nat
      /\ stored = NoHash => stored.event_timestamp = 0 /\ stored.event_id = 0
  BY DEF Versions, NoHash
<1>2. /\ r.event_timestamp \in Nat \ {0} /\ r.event_id \in Nat
      /\ Version(r) \in Versions
      /\ Version(r).event_timestamp = r.event_timestamp
      /\ Version(r).event_id = r.event_id
  BY RowFields
<1>3. CASE stored # NoHash /\ AtLeast(stored, Version(r))
  <2>1. Upsert(stored, Version(r)) = stored
    BY <1>3 DEF Upsert
  <2> QED BY <1>1, <1>2, <1>3, <2>1 DEF AtLeast
<1>4. CASE ~(stored # NoHash /\ AtLeast(stored, Version(r)))
  <2>1. Upsert(stored, Version(r)) = Version(r)
    BY <1>4 DEF Upsert
  <2>2. AtLeast(Version(r), r)
    BY <1>2 DEF AtLeast
  <2>3. AtLeast(Version(r), stored)
    BY <1>1, <1>2, <1>4 DEF AtLeast
  <2> QED BY <1>2, <2>1, <2>2, <2>3
<1> QED BY <1>3, <1>4

\* A version that is at least as new as a row that is at least as new as another.
LEMMA VersionTransitive ==
    ASSUME NEW v \in Versions \cup {NoHash}, NEW x \in Rows, NEW r \in Rows,
           AtLeast(v, x), AtLeast(x, r)
    PROVE  AtLeast(v, r)
<1>1. /\ v.event_timestamp \in Nat /\ v.event_id \in Nat
      /\ x.event_timestamp \in Nat /\ x.event_id \in Nat
      /\ r.event_timestamp \in Nat /\ r.event_id \in Nat
  BY RowFields DEF Versions, NoHash
<1> QED BY <1>1 DEF AtLeast

\* What is online once stays, or gives way to something newer.
OnlineGrows ==
    \A e \in Entities, r \in Rows : AtLeast(online[e], r) => AtLeast(online'[e], r)

TimesGrow ==
    \A e \in Entities : online'[e].event_timestamp >= online[e].event_timestamp

LEMMA UpsertGrows ==
    ASSUME Sound, NEW x \in Rows,
           online' = [online EXCEPT ![x.entity] = Upsert(@, Version(x))]
    PROVE  OnlineGrows /\ TimesGrow /\ AtLeast(online'[x.entity], x)
<1> DEFINE new == Upsert(online[x.entity], Version(x))
<1>1. online \in [Entities -> Versions \cup {NoHash}] /\ x.entity \in Entities
  BY RowFields DEF Sound, TypeOK
<1>2. /\ new \in Versions \cup {NoHash} /\ AtLeast(new, x)
      /\ AtLeast(new, online[x.entity])
  BY <1>1, UpsertKeeps
<1> HIDE DEF new
<1>3. online'[x.entity] = new /\ \A e \in Entities : e # x.entity => online'[e] = online[e]
  BY <1>1 DEF new
<1>4. \A e \in Entities : online[e].event_timestamp \in Nat /\ online[e].event_id \in Nat
  BY <1>1 DEF Versions, NoHash
<1>5. new.event_timestamp \in Nat /\ new.event_id \in Nat
  BY <1>2 DEF Versions, NoHash
<1>6. \A r \in Rows : r.event_timestamp \in Nat /\ r.event_id \in Nat
  BY RowFields
<1>7. OnlineGrows
  BY <1>1, <1>2, <1>3, <1>4, <1>5, <1>6 DEF OnlineGrows, AtLeast
<1>8. TimesGrow
  BY <1>1, <1>2, <1>3, <1>4, <1>5 DEF TimesGrow, AtLeast
<1> QED BY <1>2, <1>3, <1>7, <1>8

\* No step takes anything back.
LEMMA OnlineNeverBack ==
    ASSUME Sound, [Next]_vars
    PROVE  OnlineGrows /\ TimesGrow
<1>1. CASE online' = online
  <2>1. \A e \in Entities : online[e].event_timestamp \in Nat
    BY DEF Sound, TypeOK, Versions, NoHash
  <2> QED BY <1>1, <2>1 DEF OnlineGrows, TimesGrow
<1>2. ASSUME NEW x \in Rows, online' = [online EXCEPT ![x.entity] = Upsert(@, Version(x))]
      PROVE  OnlineGrows /\ TimesGrow
  BY <1>2, UpsertGrows
<1>3. ASSUME NEW p \in Attempts, NEW r \in exec[p].due, UpsertRow(p, r)
      PROVE  r \in Rows
  BY <1>3, FitsNow DEF Execs
<1>4. CASE UNCHANGED vars
  BY <1>1, <1>4 DEF vars
<1>5. CASE \E j \in Jobs : JobStep(j)
  BY <1>1, <1>2, <1>5 DEF JobStep, Ingest, Submit, Claim, Exhaust, Cancel, stores
<1>6. ASSUME NEW p \in Attempts,
             Crash(p) \/ Lost(p) \/ WriteStep(p) \/ BodyStep(p) \/ Succeed(p)
      PROVE  online' = online \/ \E r \in exec[p].due : UpsertRow(p, r)
  <2>1. ASSUME NEW terminal, NEW counts, Failed(p, terminal, counts)
        PROVE  online' = online
    BY <2>1 DEF Failed, stores
  <2>2. CASE Crash(p) \/ Lost(p) \/ Succeed(p)
    BY <2>2 DEF Crash, Lost, Succeed, stores
  <2>3. CASE WriteStep(p)
    BY <2>1, <2>3 DEF WriteStep, Decide, Replace, Probe, Add, Commits, AddRefused, stores
  <2>4. CASE BodyStep(p)
    BY <2>1, <2>4 DEF BodyStep, SkipChunk, RunChunk, RejectChunk, Checkpoint, Compare,
                      RejectAppend, Scan, ScanFails, CheckUpsert, stores
  <2> QED BY <1>6, <2>2, <2>3, <2>4
<1> QED BY <1>1, <1>2, <1>3, <1>4, <1>5, <1>6 DEF Next, UpsertRow

-----------------------------------------------------------------------------
(* The inductive invariant *)

\* The row is online, or a row that is due will bring it or a newer one there.
CoveredRow(x, r) ==
    \/ AtLeast(online[r.entity], r)
    \/ \E n \in x.due : n.entity = r.entity /\ AtLeast(n, r)

\* What a materialization has scanned is covered until it is done, whatever
\* consumers and other attempts write to the online store meanwhile.
Covered ==
    \A p \in Attempts :
        p[1] \in Materializations /\ exec[p].pc \in {"checking", "upserting", "finish"} =>
            /\ \A r \in exec[p].rows : CoveredRow(exec[p], r)
            /\ exec[p].pc = "finish" => exec[p].due = {}

\* The latest rows of a scan cover it (the query of _latest_rows).
LEMMA LatestCovers ==
    ASSUME NEW rows \in SUBSET Rows, NEW r \in rows
    PROVE  \E n \in Latest(rows) : n.entity = r.entity /\ AtLeast(n, r)
<1> DEFINE same == {x \in rows : x.entity = r.entity}
<1>1. same \in SUBSET Rows /\ same # {}
  OBVIOUS
<1>2. PICK n \in same : \A x \in same : AtLeast(n, x)
  BY <1>1, NewestExists
<1>3. \A x \in rows : x.entity = n.entity => ~Precedes(x, n)
  BY <1>2, Orders
<1> QED BY <1>2, <1>3 DEF Latest

\* Covered rows of an attempt that does nothing stay covered.
LEMMA StaysCovered ==
    ASSUME Sound, [Next]_vars, NEW q \in Attempts, exec'[q] = exec[q],
           NEW r \in Rows, CoveredRow(exec[q], r)
    PROVE  CoveredRow(exec[q], r)'
BY RowFields, OnlineNeverBack DEF CoveredRow, OnlineGrows

LEMMA ScanCovers ==
    ASSUME Sound, NEW p \in Attempts, Scan(p)
    PROVE  /\ exec'[p].rows = LoadRange(table, ScanStart(p[1]), End[p[1]])
           /\ exec'[p].rows \in SUBSET Rows
           /\ \A r \in exec'[p].rows :
                \E n \in exec'[p].due : n.entity = r.entity /\ AtLeast(n, r)
           /\ exec'[p].pc = "finish" => exec'[p].due = {}
<1> DEFINE x == exec[p]
           rows == LoadRange(table, ScanStart(p[1]), End[p[1]])
           pc == IF rows = {} THEN "finish" ELSE "checking"
           y == [x EXCEPT !.rows = rows, !.due = Latest(rows), !.pc = pc]
<1>1. exec' = [exec EXCEPT ![p] = y]
  BY DEF Scan
<1>2. rows \in SUBSET Rows
  BY DEF LoadRange, Load
<1>3. rows = {} => Latest(rows) = {}
  BY DEF Latest
<1>4. pc = "finish" => rows = {}
  OBVIOUS
<1> HIDE DEF rows, pc
<1>5. y.rows = rows /\ y.due = Latest(rows) /\ y.pc = pc
  BY FitsNow DEF Execs
<1> HIDE DEF y
<1>6. exec'[p] = y
  BY <1>1, MemoryOf
<1> QED BY <1>2, <1>3, <1>4, <1>5, <1>6, LatestCovers DEF rows

LEMMA UpsertCovers ==
    ASSUME Sound, NEW p \in Attempts, NEW n \in exec[p].due, UpsertRow(p, n),
           \A r \in exec[p].rows : CoveredRow(exec[p], r)
    PROVE  /\ \A r \in exec'[p].rows : CoveredRow(exec[p], r)'
           /\ exec'[p].pc = "finish" => exec'[p].due = {}
<1> DEFINE x == exec[p]
           due == x.due \ {n}
           pc == IF x.due = {n} THEN "finish" ELSE "checking"
           y == [x EXCEPT !.due = due, !.pc = pc]
<1>1. /\ exec' = [exec EXCEPT ![p] = y]
      /\ online' = [online EXCEPT ![n.entity] = Upsert(@, Version(n))]
  BY DEF UpsertRow
<1>2. x.rows \in SUBSET Rows /\ x.due \in SUBSET Rows
  BY FitsNow DEF Execs
<1>3. n \in Rows /\ (pc = "finish" => due = {})
  BY <1>2
<1> HIDE DEF due, pc
<1>4. y.rows = x.rows /\ y.due = due /\ y.pc = pc
  BY FitsNow DEF Execs
<1> HIDE DEF y
<1>5. exec'[p] = y
  BY <1>1, MemoryOf
<1>6. /\ OnlineGrows /\ AtLeast(online'[n.entity], n)
      /\ online'[n.entity] \in Versions \cup {NoHash}
  BY <1>1, <1>3, UpsertGrows, UpsertType, RowFields
<1>7. ASSUME NEW r \in x.rows
      PROVE  AtLeast(online'[r.entity], r)
             \/ \E m \in due : m.entity = r.entity /\ AtLeast(m, r)
  <2>1. r \in Rows /\ r.entity \in Entities
    BY <1>2, RowFields
  <2>2. CASE AtLeast(online[r.entity], r)
    BY <1>6, <2>1, <2>2 DEF OnlineGrows
  <2>3. ASSUME NEW m \in x.due, m.entity = r.entity, AtLeast(m, r)
        PROVE  AtLeast(online'[r.entity], r) \/ m \in due
    BY <1>3, <1>6, <2>1, <2>3, VersionTransitive DEF due
  <2> QED BY <2>2, <2>3 DEF CoveredRow
<1> QED BY <1>3, <1>4, <1>5, <1>7 DEF CoveredRow

LEMMA CoveredInit == Init => Covered
BY DEF Init, Covered, Idle

LEMMA CoveredNext ==
    ASSUME Sound, Covered, [Next]_vars
    PROVE  Covered'
<1> SUFFICES ASSUME NEW q \in Attempts, q[1] \in Materializations,
                    exec'[q].pc \in {"checking", "upserting", "finish"}
             PROVE  /\ \A r \in exec'[q].rows : CoveredRow(exec[q], r)'
                    /\ exec'[q].pc = "finish" => exec'[q].due = {}
  BY DEF Covered
<1>1. CASE exec'[q] = exec[q]
  <2>1. exec[q].rows \in SUBSET Rows
    BY FitsNow DEF Execs
  <2>2. \A r \in exec[q].rows : CoveredRow(exec[q], r)
    BY <1>1 DEF Covered
  <2>3. \A r \in exec[q].rows : CoveredRow(exec[q], r)'
    BY <1>1, <2>1, <2>2, StaysCovered
  <2>4. exec[q].pc = "finish" => exec[q].due = {}
    BY <1>1 DEF Covered
  <2> QED BY <1>1, <2>3, <2>4
<1>2. CASE Calm
  BY <1>1, <1>2 DEF Calm
<1>3. ASSUME NEW p \in Attempts, Working(p) PROVE exec'[q] = exec[q]
  <2>1. p[1] \in Backfills \cup Appends
    BY <1>3, FitsNow DEF Working, Compare, RunChunk, AtChunk, Decide, Replace, Probe, Add,
                         Checkpoint, Fits
  <2>2. q # p
    BY <2>1, Kinds
  <2> QED BY <1>3, <2>2, BodySteps
<1>4. ASSUME NEW p \in Attempts, Reading(p), q # p PROVE exec'[q] = exec[q]
  BY <1>4, BodySteps
<1>5. CASE Scan(q)
  <2>1. \A r \in exec'[q].rows : CoveredRow(exec[q], r)'
    BY <1>5, ScanCovers DEF CoveredRow
  <2> QED BY <1>5, <2>1, ScanCovers
<1>6. CASE CheckUpsert(q)
  <2> DEFINE y == [exec[q] EXCEPT !.pc = "upserting"]
  <2>1. exec[q].pc = "checking" /\ online' = online /\ exec' = [exec EXCEPT ![q] = y]
    BY <1>6 DEF CheckUpsert, stores
  <2>2. y.rows = exec[q].rows /\ y.due = exec[q].due /\ y.pc = "upserting"
    BY FitsNow DEF Execs
  <2> HIDE DEF y
  <2>3. exec'[q] = y
    BY <2>1, MemoryOf
  <2>4. \A r \in exec[q].rows : CoveredRow(exec[q], r)
    BY <2>1 DEF Covered
  <2> QED BY <2>1, <2>2, <2>3, <2>4 DEF CoveredRow
<1>7. ASSUME NEW n \in exec[q].due, UpsertRow(q, n)
      PROVE  /\ \A r \in exec'[q].rows : CoveredRow(exec[q], r)'
             /\ exec'[q].pc = "finish" => exec'[q].due = {}
  <2>1. \A r \in exec[q].rows : CoveredRow(exec[q], r)
    BY <1>7 DEF UpsertRow, Covered
  <2> QED BY <1>7, <2>1, UpsertCovers
<1> QED BY <1>1, <1>2, <1>3, <1>4, <1>5, <1>6, <1>7, StepKinds DEF Reading

LEMMA AlwaysCovered == Spec => [](Sound /\ Covered)
<1>1. Init => Sound /\ Covered
  BY SoundInit, CoveredInit
<1>2. Sound /\ Covered /\ [Next]_vars => (Sound /\ Covered)'
  BY SoundNext, CoveredNext
<1> QED BY <1>1, <1>2, PTL DEF Spec

\* What a done materialization scanned is online.
LEMMA DoneIsOnline ==
    ASSUME Covered, NEW p \in Attempts, p[1] \in Materializations, exec[p].pc = "finish",
           NEW r \in exec[p].rows
    PROVE  AtLeast(online[r.entity], r)
BY DEF Covered, CoveredRow

-----------------------------------------------------------------------------
(* The published freshness *)

LEMMA FreshnessInit == Init => FreshnessServed
BY DEF Init, FreshnessServed

LEMMA FreshnessNext ==
    ASSUME Sound, Covered, FreshnessServed, [Next]_vars
    PROVE  FreshnessServed'
<1> DEFINE Served(t) == \E e \in Entities : online'[e].event_timestamp >= t
<1>1. published.source_freshness_at \in Nat
  BY DEF Sound, TypeOK
<1>2. \A e \in Entities : /\ online[e].event_timestamp \in Nat
                          /\ online'[e].event_timestamp \in Nat
  <2>1. Sound'
    BY SoundNext
  <2> QED BY <2>1 DEF Sound, TypeOK, Versions, NoHash
<1>3. published.source_freshness_at # 0 => Served(published.source_freshness_at)
  BY <1>1, <1>2, OnlineNeverBack DEF FreshnessServed, TimesGrow
<1>4. ASSUME NEW p \in Attempts, Succeed(p), p[1] \in Incrementals
      PROVE  published'.source_freshness_at # 0 => Served(published'.source_freshness_at)
  <2>1. /\ exec[p].pc = "finish" /\ p[1] \in Materializations /\ online' = online
    BY <1>4, Kinds DEF Succeed, Done, Materializations, stores
  <2>2. PICK newest \in EventTimes(p) :
          published' = [watermark |-> End[p[1]], source_freshness_at |-> newest]
    BY <1>4 DEF Succeed
  <2>3. ASSUME NEW r \in exec[p].rows PROVE Served(r.event_timestamp)
    <3>1. r \in Rows
      BY FitsNow DEF Execs
    <3>2. r.entity \in Entities /\ r.event_timestamp \in Nat
      BY <3>1, RowFields
    <3>3. AtLeast(online[r.entity], r)
      BY <2>1, DoneIsOnline
    <3>4. online[r.entity].event_timestamp >= r.event_timestamp
      BY <1>2, <3>2, <3>3 DEF AtLeast
    <3> QED BY <2>1, <3>2, <3>4
  <2>4. newest = published.source_freshness_at \/ \E r \in exec[p].rows : newest = r.event_timestamp
    BY <2>2 DEF EventTimes
  <2>5. newest # 0 => Served(newest)
    BY <1>3, <2>3, <2>4
  <2> QED BY <2>2, <2>5
<1>5. CASE published' = published
  BY <1>3, <1>5 DEF FreshnessServed
<1>6. published' = published \/ \E p \in Attempts : Succeed(p) /\ p[1] \in Incrementals
  <2>1. ASSUME NEW p \in Attempts, NEW terminal, NEW counts, Failed(p, terminal, counts)
        PROVE  published' = published
    BY <2>1 DEF Failed
  <2>2. CASE UNCHANGED vars
    BY <2>2 DEF vars
  <2>3. ASSUME NEW j \in Jobs, JobStep(j) PROVE published' = published
    BY <2>3 DEF JobStep, Ingest, Submit, Claim, Exhaust, Cancel
  <2>4. ASSUME NEW p \in Attempts, Crash(p) \/ Lost(p) \/ WriteStep(p)
        PROVE  published' = published
    BY <2>1, <2>4 DEF Crash, Lost, WriteStep, Decide, Replace, Probe, Add, Commits, AddRefused
  <2>5. ASSUME NEW p \in Attempts, BodyStep(p) PROVE published' = published
    BY <2>1, <2>5 DEF BodyStep, SkipChunk, RunChunk, RejectChunk, Checkpoint, Compare,
                      RejectAppend, Scan, ScanFails, CheckUpsert, UpsertRow
  <2>6. ASSUME NEW p \in Attempts, Succeed(p), p[1] \notin Incrementals
        PROVE  published' = published
    BY <2>6 DEF Succeed
  <2> QED BY <2>2, <2>3, <2>4, <2>5, <2>6 DEF Next
<1> QED BY <1>4, <1>5, <1>6 DEF FreshnessServed

\* The freshness that an incremental materialization publishes never runs ahead
\* of what online reads return, whatever consumers write and however attempts
\* crash or lose their leases between the scan and the success (_materialize's
\* check before each upsert, _finalize_success's fenced update of the view).
THEOREM FreshnessIsServed == Spec => []FreshnessServed
<1>1. Init => Sound /\ Covered /\ FreshnessServed
  BY SoundInit, CoveredInit, FreshnessInit
<1>2. Sound /\ Covered /\ FreshnessServed /\ [Next]_vars
        => (Sound /\ Covered /\ FreshnessServed)'
  BY SoundNext, CoveredNext, FreshnessNext
<1> QED BY <1>1, <1>2, PTL DEF Spec

-----------------------------------------------------------------------------
(* Historical queries *)

\* The first row of a join is one of its rows and as new as all of them.
LEMMA FirstRow ==
    ASSUME NEW rows \in SUBSET Rows, rows # {}
    PROVE  First(rows) \in rows /\ \A x \in rows : AtLeast(First(rows), x)
<1>1. PICK n \in rows : \A x \in rows : AtLeast(n, x)
  BY NewestExists
<1>2. \A x \in rows : ~Precedes(x, n)
  BY <1>1, Orders
<1>3. First(rows) \in rows /\ \A x \in rows : ~Precedes(x, First(rows))
  BY <1>2 DEF First
<1> QED BY <1>3, Orders

\* The join of pit.py answers as the documentation defines the answer.
LEMMA AnswerCorrect ==
    ASSUME NEW rows \in SUBSET Rows, NEW e \in Entities, NEW t \in Nat
    PROVE  Answers(rows, e, t, PointInTime(rows, e, t, TTL))
<1> DEFINE past  == {r \in rows : r.entity = e /\ r.event_timestamp <= t}
           fresh == {r \in past : TTL = 0 \/ t - r.event_timestamp <= TTL}
           first == First(past)
           answer == PointInTime(rows, e, t, TTL)
<1>1. Joined(rows, e, t) = past /\ past \in SUBSET Rows
  BY DEF Joined
<1>2. \A r \in Rows : r.event_timestamp \in Nat /\ r.event_id \in Nat
  BY RowFields
<1>3. TTL \in Nat
  BY ViewAssumption
<1>4. fresh \subseteq past
  OBVIOUS
<1>5. Answers(rows, e, t, answer) <=>
        /\ answer.status \in {"present", "missing", "expired"}
        /\ answer.status = "present" =>
             answer.row \in fresh /\ \A r \in fresh : AtLeast(answer.row, r)
        /\ answer.status = "missing" => past = {}
        /\ answer.status = "expired" => past # {} /\ fresh = {}
  BY DEF Answers
<1>6. answer = IF past = {} THEN [status |-> "missing", row |-> NoRow]
               ELSE IF Expired(first, t, TTL) THEN [status |-> "expired", row |-> NoRow]
               ELSE [status |-> "present", row |-> first]
  BY <1>1 DEF PointInTime
<1>7. past # {} => first \in past /\ \A x \in past : AtLeast(first, x)
  BY <1>1, FirstRow
<1>8. \A r \in past : r \in fresh <=> ~Expired(r, t, TTL)
  BY <1>1, <1>2, <1>3 DEF Expired
<1>9. ASSUME NEW r \in fresh, past # {} PROVE first \in fresh
  <2>1. /\ first \in past /\ r \in past /\ first \in Rows /\ r \in Rows
        /\ first.event_timestamp >= r.event_timestamp
    BY <1>1, <1>2, <1>4, <1>7, <1>9 DEF AtLeast
  <2>2. TTL = 0 \/ t - r.event_timestamp <= TTL
    OBVIOUS
  <2> QED BY <1>2, <1>3, <2>1, <2>2
<1> HIDE DEF past, fresh, first, answer
<1>10. CASE past = {}
  <2>1. answer.status = "missing"
    BY <1>6, <1>10
  <2> QED BY <1>5, <1>10, <2>1 DEF answer
<1>11. CASE past # {} /\ Expired(first, t, TTL)
  <2>1. answer.status = "expired"
    BY <1>6, <1>11
  <2>2. fresh = {}
    BY <1>7, <1>8, <1>9, <1>11
  <2> QED BY <1>5, <1>11, <2>1, <2>2 DEF answer
<1>12. CASE past # {} /\ ~Expired(first, t, TTL)
  <2>1. answer.status = "present" /\ answer.row = first
    BY <1>6, <1>12
  <2>2. first \in fresh /\ \A r \in fresh : AtLeast(first, r)
    BY <1>4, <1>7, <1>8, <1>12
  <2> QED BY <1>5, <2>1, <2>2 DEF answer
<1> QED BY <1>10, <1>11, <1>12

\* Every table the jobs can leave gives historical queries the documented
\* answer (the join of pit.py, its order and its TTL filter).
THEOREM AnswersArePointInTime == Spec => []PointInTimeCorrect
<1>1. TypeOK => PointInTimeCorrect
  <2> SUFFICES ASSUME TypeOK, NEW e \in Entities, NEW r \in Rows
               PROVE  Answers(Load(table), e, r.event_timestamp,
                              PointInTime(Load(table), e, r.event_timestamp, TTL))
    BY DEF PointInTimeCorrect
  <2>1. Load(table) \in SUBSET Rows
    BY DEF Load
  <2>2. r.event_timestamp \in Nat
    BY RowFields
  <2> QED BY <2>1, <2>2, AnswerCorrect
<1> QED BY <1>1, TypeCorrect, PTL

-----------------------------------------------------------------------------
(* Online reads against historical ones *)

\* What a scan passes over lies outside its window.
LEMMA ScanKeepsUp ==
    ASSUME Sound, NEW p \in Attempts, Scan(p), NEW r \in Load(table),
           r.event_timestamp < End[p[1]]
    PROVE  \/ r \in exec'[p].rows
           \/ r.event_timestamp <
                IF p[1] \in Explicits THEN Start[p[1]] ELSE published.watermark - Lookback
<1>1. exec'[p].rows = LoadRange(table, ScanStart(p[1]), End[p[1]])
  BY ScanCovers
<1>2. r \in Rows /\ r.event_timestamp \in Nat \ {0}
  BY RowFields DEF Load
<1>3. /\ published.watermark \in Nat /\ Lookback \in Nat
      /\ p[1] \in Explicits => Start[p[1]] \in Nat
  BY PayloadAssumption, ViewAssumption DEF Sound, TypeOK
<1>4. CASE ScanStart(p[1]) <= r.event_timestamp
  BY <1>1, <1>4 DEF LoadRange
<1>5. CASE ~(ScanStart(p[1]) <= r.event_timestamp)
  BY <1>2, <1>3, <1>5 DEF ScanStart
<1> QED BY <1>4, <1>5

\* The row that a historical query returns, if a done materialization scanned it.
LEMMA SuccessKeepsUp ==
    ASSUME Sound, Covered, NEW p \in Attempts, p[1] \in Materializations, Succeed(p),
           NEW e \in Entities, NEW t,
           PointInTime(Load(table), e, t, TTL).status = "present",
           PointInTime(Load(table), e, t, TTL).row \in exec[p].rows
    PROVE  AtLeast(online[e], PointInTime(Load(table), e, t, TTL).row)
<1> DEFINE joined == Joined(Load(table), e, t)
           row == PointInTime(Load(table), e, t, TTL).row
<1>1. joined \in SUBSET Rows
  BY DEF Joined, Load
<1>2. joined # {} /\ row = First(joined)
  BY DEF PointInTime
<1>3. row \in joined
  BY <1>1, <1>2, FirstRow
<1>4. row.entity = e
  BY <1>3 DEF Joined
<1>5. exec[p].pc = "finish"
  BY Kinds DEF Succeed, Done
<1>6. AtLeast(online[row.entity], row)
  BY <1>5, DoneIsOnline
<1> QED BY <1>4, <1>6

\* Online reads keep up with historical ones: what a scan passes over lies
\* outside its window, and what it took is online, or something newer is, when
\* the materialization succeeds (_scan_start and the upsert loop of _materialize).
THEOREM OnlineKeepsUpAlways == Spec => OnlineKeepsUp
<1>1. Sound /\ Covered => \A p \in Attempts : KeepsUp(p)
  BY ScanKeepsUp, SuccessKeepsUp DEF KeepsUp
<1>2. Sound /\ Covered => [\A p \in Attempts : KeepsUp(p)]_vars
  BY <1>1
<1> QED BY <1>2, AlwaysCovered, PTL DEF OnlineKeepsUp

=============================================================================
