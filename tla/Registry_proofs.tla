-------------------------- MODULE Registry_proofs --------------------------
(***************************************************************************)
(* Proofs about Registry, for all definitions, manifests, targets and      *)
(* sessions, and any number of applied manifests.                          *)
(***************************************************************************)
EXTENDS Registry, TLAPS

States == {Idle} \cup Applying \cup Checking \cup Writing

-----------------------------------------------------------------------------
(* Types *)

LEMMA IdleState == Idle \in States /\ Idle.pc = "idle"
BY DEF States, Idle

\* What a request holds follows from where it is.
LEMMA StateAt ==
    ASSUME NEW x \in States
    PROVE  /\ x.pc = "apply" => x \in Applying
           /\ x.pc = "check" => x \in Checking
           /\ x.pc = "write" => x \in Writing
BY DEF States, Idle, Applying, Checking, Writing

LEMMA FlushedType ==
    ASSUME NEW row \in Rows, NEW seen \in Rows, NEW want \in Rows
    PROVE  Flushed(row, seen, want) \in Rows
BY DEF Flushed, Column, Rows

LEMMA LoadedType ==
    ASSUME TypeOK, NEW t \in Targets
    PROVE  Loaded(t) \in Rows
BY DEF TypeOK, Loaded, NewRow, Rows

\* A row that a request loaded is still there: rows are never deleted.
RowsStay ==
    \A s \in Sessions : session[s].pc = "write" /\ session[s].seen # NoRow =>
        lifecycle[session[s].target] # NoRow

\* The row objects that the three handlers build.
LEMMA ChangedType ==
    ASSUME NEW row \in Rows, NEW r \in Targets \cup {None}
    PROVE  /\ \A o \in Owners : [row EXCEPT !.owner = o] \in Rows
           /\ [row EXCEPT !.status = "deprecated", !.replacement = r] \in Rows
           /\ [row EXCEPT !.status = "active", !.replacement = None] \in Rows
BY DEF Rows

LEMMA TypeInit == Init => TypeOK /\ RowsStay
BY IdleState DEF Init, TypeOK, RowsStay, States

LEMMA TypeNext == TypeOK /\ RowsStay /\ [Next]_vars => TypeOK'
<1> SUFFICES ASSUME TypeOK, RowsStay, [Next]_vars PROVE TypeOK'
    OBVIOUS
<1> USE TargetsAssumption
<1>1. ASSUME NEW s \in Sessions, NEW m \in Manifests, ApplyPlan(s, m) PROVE TypeOK'
    <2> DEFINE new == [pc |-> "apply",
                       created |-> {d \in m : d.id \notin {r.id : r \in records}}]
    <2>1. new \in States
        BY ManifestsAssumption DEF States, Applying
    <2>2. session' = [session EXCEPT ![s] = new]
        BY <1>1 DEF ApplyPlan, Go
    <2> QED BY <1>1, <2>1, <2>2 DEF ApplyPlan, TypeOK, States
<1>2. ASSUME NEW s \in Sessions, ApplyCommit(s) PROVE TypeOK'
    <2>1. session[s] \in Applying
        BY <1>2, StateAt DEF ApplyCommit, TypeOK, States
    <2>2. session[s].created \subseteq Definitions
        BY <2>1 DEF Applying
    <2> QED BY <1>2, <2>2, IdleState DEF ApplyCommit, Go, TypeOK, States
<1>3. ASSUME NEW s \in Sessions, NEW t \in Managed \cup Described,
             NEW op \in {"patch", "deprecate", "reactivate"}, NEW want \in Rows, Load(s, op, t, want), UNCHANGED <<records, lifecycle, admins>>
      PROVE  TypeOK'
    <2>1. [pc |-> "write", op |-> op, target |-> t, seen |-> lifecycle[t], want |-> want] \in Writing
        BY DEF Writing, TypeOK
    <2> QED BY <1>3, <2>1 DEF Load, Go, TypeOK, States
<1>4. ASSUME NEW s \in Sessions, NEW t \in Described, NEW o \in Owners, PatchMetadata(s, t, o)
      PROVE  TypeOK'
    <2>1. [Loaded(t) EXCEPT !.owner = o] \in Rows
        <3>1. Loaded(t) \in Rows
            BY LoadedType
        <3> QED BY <3>1, ChangedType
    <2> QED BY <1>3, <1>4, <2>1 DEF PatchMetadata
<1>5. ASSUME NEW s \in Sessions, NEW t \in Managed, NEW r \in Managed \cup {None}, Deprecate(s, t, r)
      PROVE  TypeOK'
    <2>1. [pc |-> "check", target |-> t, replacement |-> r] \in Checking
        BY DEF Checking
    <2> QED BY <1>5, <2>1 DEF Deprecate, Go, TypeOK, States
<1>6. ASSUME NEW s \in Sessions, DeprecateLoad(s) PROVE TypeOK'
    <2>1. session[s] \in Checking
        BY <1>6, StateAt DEF DeprecateLoad, TypeOK, States
    <2>2. /\ session[s].target \in Targets
          /\ session[s].replacement \in Targets \cup {None}
        BY <2>1 DEF Checking
    <2>3. [Loaded(session[s].target) EXCEPT !.status = "deprecated",
                                           !.replacement = session[s].replacement] \in Rows
        <3>1. Loaded(session[s].target) \in Rows
            BY <2>2, LoadedType
        <3> QED BY <2>2, <3>1, ChangedType
    <2>4. CASE IsReplacement(session[s].target)
        BY <1>6, <2>4, IdleState DEF DeprecateLoad, Go, TypeOK, States
    <2>5. CASE ~IsReplacement(session[s].target)
        <3> DEFINE want == [Loaded(session[s].target) EXCEPT
                                !.status = "deprecated", !.replacement = session[s].replacement]
                   new == [pc |-> "write", op |-> "deprecate", target |-> session[s].target,
                           seen |-> lifecycle[session[s].target], want |-> want]
        <3>1. new \in Writing
            BY <2>2, <2>3 DEF Writing, TypeOK
        <3>2. session' = [session EXCEPT ![s] = new]
            BY <1>6, <2>5 DEF DeprecateLoad, Load, Go
        <3> QED BY <1>6, <3>1, <3>2 DEF DeprecateLoad, TypeOK, States
    <2> QED BY <2>4, <2>5
<1>7. ASSUME NEW s \in Sessions, NEW t \in Managed, Reactivate(s, t) PROVE TypeOK'
    <2>1. lifecycle[t] \in Rows
        BY <1>7 DEF Reactivate, TypeOK
    <2>2. [lifecycle[t] EXCEPT !.status = "active", !.replacement = None] \in Rows
        BY <2>1, ChangedType
    <2> QED BY <1>3, <1>7, <2>2 DEF Reactivate
<1>8. ASSUME NEW s \in Sessions, CommitLifecycle(s) PROVE TypeOK'
    <2>1. session[s] \in Writing
        BY <1>8, StateAt DEF CommitLifecycle, TypeOK, States
    <2> DEFINE w == session[s]
    <2>2. w.target \in Targets /\ w.want \in Rows /\ w.seen \in Rows \cup {NoRow}
        BY <2>1 DEF Writing
    <2>3. CASE w.seen = NoRow
        BY <1>8, <2>2, <2>3, IdleState DEF CommitLifecycle, Go, TypeOK, States
    <2>4. CASE w.seen # NoRow /\ lifecycle[w.target] # NoRow
        <3>1. Flushed(lifecycle[w.target], w.seen, w.want) \in Rows
            BY <2>2, <2>4, FlushedType DEF TypeOK
        <3> QED BY <1>8, <2>2, <2>4, <3>1, IdleState DEF CommitLifecycle, Go, TypeOK, States
    <2> QED BY <1>8, <2>3, <2>4 DEF RowsStay, CommitLifecycle
<1>9. CASE UNCHANGED vars
    BY <1>9 DEF vars, TypeOK
<1> QED BY <1>1, <1>2, <1>4, <1>5, <1>6, <1>7, <1>8, <1>9 DEF Next

LEMMA RowsStayNext == TypeOK /\ RowsStay /\ [Next]_vars => RowsStay'
<1> SUFFICES ASSUME TypeOK, RowsStay, [Next]_vars PROVE RowsStay'
    OBVIOUS
<1> USE TargetsAssumption
\* A step that keeps the table and lets one request load the row as it is.
<1>1. ASSUME NEW s \in Sessions, NEW x, session' = [session EXCEPT ![s] = x],
             x.pc = "write" /\ x.seen # NoRow => lifecycle[x.target] # NoRow,
             lifecycle' = lifecycle
      PROVE  RowsStay'
    BY <1>1 DEF RowsStay, TypeOK
<1>2. ASSUME NEW s \in Sessions, NEW m \in Manifests, ApplyPlan(s, m) PROVE RowsStay'
    BY <1>1, <1>2 DEF ApplyPlan, Go
<1>3. ASSUME NEW s \in Sessions, ApplyCommit(s) PROVE RowsStay'
    BY <1>1, <1>3, IdleState DEF ApplyCommit, Go
<1>4. ASSUME NEW s \in Sessions, NEW t, NEW o, PatchMetadata(s, t, o) PROVE RowsStay'
    BY <1>1, <1>4 DEF PatchMetadata, Load, Go
<1>5. ASSUME NEW s \in Sessions, NEW t, NEW r, Deprecate(s, t, r) PROVE RowsStay'
    BY <1>1, <1>5 DEF Deprecate, Go
<1>6. ASSUME NEW s \in Sessions, DeprecateLoad(s) PROVE RowsStay'
    BY <1>1, <1>6, IdleState DEF DeprecateLoad, Load, Go
<1>7. ASSUME NEW s \in Sessions, NEW t, Reactivate(s, t) PROVE RowsStay'
    BY <1>1, <1>7 DEF Reactivate, Load, Go
<1>8. ASSUME NEW s \in Sessions, CommitLifecycle(s) PROVE RowsStay'
    <2>1. \A t \in Targets : lifecycle[t] # NoRow => lifecycle'[t] # NoRow
        <3> SUFFICES ASSUME NEW t \in Targets, lifecycle[t] # NoRow, lifecycle'[t] = NoRow
                     PROVE  FALSE
            OBVIOUS
        <3>1. TypeOK'
            BY TypeNext, <1>8 DEF Next
        <3>2. session[s] \in Writing
            BY <1>8, StateAt DEF CommitLifecycle, TypeOK, States
        <3>3. /\ session[s].target \in Targets /\ session[s].want \in Rows
              /\ session[s].seen \in Rows \cup {NoRow}
            BY <3>2 DEF Writing
        <3>4. lifecycle[t] \in Rows
            BY DEF TypeOK
        <3>5. session[s].seen # NoRow =>
                Flushed(lifecycle[t], session[s].seen, session[s].want) \in Rows
            BY <3>3, <3>4, FlushedType
        <3> QED BY <1>8, <3>3, <3>4, <3>5 DEF CommitLifecycle, TypeOK
    <2>2. \A u \in Sessions : session'[u].pc = "write" => session'[u] = session[u]
        BY <1>8, IdleState DEF CommitLifecycle, Go, TypeOK
    <2>3. \A u \in Sessions : session[u].pc = "write" => session[u].target \in Targets
        BY StateAt DEF TypeOK, States, Writing
    <2> QED BY <2>1, <2>2, <2>3 DEF RowsStay
<1>9. CASE UNCHANGED vars
    BY <1>9 DEF vars, RowsStay
<1> QED BY <1>2, <1>3, <1>4, <1>5, <1>6, <1>7, <1>8, <1>9 DEF Next

\* The tables and the requests always hold values of their types.
THEOREM TypeCorrect == Spec => []TypeOK
BY TypeInit, TypeNext, RowsStayNext, PTL DEF Spec

-----------------------------------------------------------------------------
(* Definitions *)

\* No two records have one identity.
OnePerIdentity == \A q, r \in records : q.id = r.id => q = r

\* What a request is about to insert finds what it refers to.
SessionsGrounded ==
    \A s \in Sessions : session[s].pc = "apply" =>
        \A d \in session[s].created : Grounded(d, records \cup session[s].created)

DefinitionsInv == OnePerIdentity /\ SessionsGrounded /\ NoDanglingReference

LEMMA GroundedMonotone ==
    ASSUME NEW d, NEW S, NEW T, S \subseteq T, Grounded(d, S)
    PROVE  Grounded(d, T)
BY DEF Grounded

(***************************************************************************)
(* The plan is enough: when it rejects nothing, everything in the manifest *)
(* finds what it refers to among the records and what will be created.     *)
(***************************************************************************)
LEMMA AcceptedGrounded ==
    ASSUME NEW stored, NEW manifest, NEW d \in manifest,
           \A e \in manifest : Accepted(stored, manifest, e)
    PROVE  Grounded(d, stored \cup {e \in manifest : e.id \notin {r.id : r \in stored}})
<1> DEFINE created == {e \in manifest : e.id \notin {r.id : r \in stored}}
<1>1. manifest \subseteq stored \cup created
    BY DEF Accepted, ViewAccepted, Conflicts
<1>2. Grounded(d, stored \cup manifest)
    BY DEF Accepted, ViewAccepted, Resolves, AvailableViews, Names, Grounded
<1>3. stored \cup manifest = stored \cup created
    BY <1>1
<1> QED BY <1>2, <1>3

LEMMA DefinitionsInit == Init => DefinitionsInv
BY IdleState DEF Init, DefinitionsInv, OnePerIdentity, SessionsGrounded, NoDanglingReference

LEMMA DefinitionsNext == TypeOK /\ DefinitionsInv /\ [Next]_vars => DefinitionsInv'
<1> SUFFICES ASSUME TypeOK, DefinitionsInv, [Next]_vars PROVE DefinitionsInv'
    OBVIOUS
<1> USE DEF DefinitionsInv
\* A step that leaves the records alone, and after which nobody else applies.
<1>1. ASSUME NEW s \in Sessions, NEW x, session' = [session EXCEPT ![s] = x],
             x.pc = "apply" => \A d \in x.created : Grounded(d, records \cup x.created),
             records' = records
      PROVE  DefinitionsInv'
    <2>1. OnePerIdentity' /\ NoDanglingReference'
        BY <1>1 DEF OnePerIdentity, NoDanglingReference
    <2>2. ASSUME NEW u \in Sessions, session'[u].pc = "apply",
                 NEW d \in session'[u].created
          PROVE  Grounded(d, records \cup session'[u].created)
        BY <1>1, <2>2 DEF SessionsGrounded, TypeOK
    <2> QED BY <1>1, <2>1, <2>2 DEF SessionsGrounded
<1>2. ASSUME NEW s \in Sessions, NEW m \in Manifests, ApplyPlan(s, m) PROVE DefinitionsInv'
    <2> DEFINE created == {d \in m : d.id \notin {r.id : r \in records}}
               x == [pc |-> "apply", created |-> created]
    <2>1. \A d \in x.created : Grounded(d, records \cup x.created)
        BY <1>2, AcceptedGrounded DEF ApplyPlan
    <2>2. session' = [session EXCEPT ![s] = x] /\ records' = records
        BY <1>2 DEF ApplyPlan, Go
    <2> HIDE DEF x
    <2> QED BY <1>1, <2>1, <2>2
<1>3. ASSUME NEW s \in Sessions, ApplyCommit(s) PROVE DefinitionsInv'
    <2> DEFINE created == session[s].created
    <2>1. CASE ~Insertable(records, created)
        BY <1>1, <1>3, <2>1, IdleState DEF ApplyCommit, Go
    <2>2. CASE Insertable(records, created)
        <3>1. records' = records \cup created /\ session' = [session EXCEPT ![s] = Idle]
            BY <1>3, <2>2 DEF ApplyCommit, Go
        <3>2. OnePerIdentity'
            BY <2>2, <3>1 DEF OnePerIdentity, Insertable
        <3>3. \A d \in created : Grounded(d, records \cup created)
            BY <1>3 DEF ApplyCommit, SessionsGrounded
        <3>4. NoDanglingReference'
            BY <3>1, <3>3, GroundedMonotone DEF NoDanglingReference
        <3>5. ASSUME NEW u \in Sessions, session'[u].pc = "apply",
                     NEW d \in session'[u].created
              PROVE  Grounded(d, records' \cup session'[u].created)
            <4>1. session'[u] = session[u]
                BY <3>1, <3>5, IdleState DEF TypeOK
            <4>2. Grounded(d, records \cup session[u].created)
                BY <3>5, <4>1 DEF SessionsGrounded
            <4> QED BY <3>1, <4>1, <4>2, GroundedMonotone
        <3> QED BY <3>2, <3>4, <3>5 DEF SessionsGrounded
    <2> QED BY <2>1, <2>2
<1>4. ASSUME NEW s \in Sessions, NEW t, NEW o, PatchMetadata(s, t, o) PROVE DefinitionsInv'
    BY <1>1, <1>4 DEF PatchMetadata, Load, Go
<1>5. ASSUME NEW s \in Sessions, NEW t, NEW r, Deprecate(s, t, r) PROVE DefinitionsInv'
    BY <1>1, <1>5 DEF Deprecate, Go
<1>6. ASSUME NEW s \in Sessions, DeprecateLoad(s) PROVE DefinitionsInv'
    BY <1>1, <1>6, IdleState DEF DeprecateLoad, Load, Go
<1>7. ASSUME NEW s \in Sessions, NEW t, Reactivate(s, t) PROVE DefinitionsInv'
    BY <1>1, <1>7 DEF Reactivate, Load, Go
<1>8. ASSUME NEW s \in Sessions, CommitLifecycle(s) PROVE DefinitionsInv'
    BY <1>1, <1>8, IdleState DEF CommitLifecycle, Go
<1>9. CASE UNCHANGED vars
    BY <1>9 DEF vars, OnePerIdentity, SessionsGrounded, NoDanglingReference
<1> QED BY <1>2, <1>3, <1>4, <1>5, <1>6, <1>7, <1>8, <1>9 DEF Next

(***************************************************************************)
(* Whatever manifests are applied at one time, no record refers to         *)
(* anything that is not stored: a competing definition of a view makes the *)
(* commit of a service that was planned on the other one fail.             *)
(***************************************************************************)
THEOREM ReferencesResolve == Spec => []NoDanglingReference
<1>1. TypeOK /\ RowsStay /\ DefinitionsInv /\ [Next]_vars
        => (TypeOK /\ RowsStay /\ DefinitionsInv)'
    BY TypeNext, RowsStayNext, DefinitionsNext
<1>2. Init => TypeOK /\ RowsStay /\ DefinitionsInv
    BY TypeInit, DefinitionsInit
<1>3. DefinitionsInv => NoDanglingReference
    BY DEF DefinitionsInv
<1> QED BY <1>1, <1>2, <1>3, PTL DEF Spec

\* Only a commit of new definitions changes the records, and it adds to them.
LEMMA RecordsGrow == [Next]_vars => records \subseteq records'
BY DEF Next, vars, ApplyPlan, ApplyCommit, PatchMetadata, Deprecate, DeprecateLoad,
       Reactivate, CommitLifecycle

\* A stored definition never changes, and its identity is never reused.
THEOREM RecordsImmutable == Spec => DefinitionsImmutable
<1>1. TypeOK /\ DefinitionsInv /\ [Next]_vars
        => [\A r \in records : r \in records' /\ \A q \in records' : q.id = r.id => q = r]_vars
    <2> SUFFICES ASSUME TypeOK, DefinitionsInv, [Next]_vars, NEW r \in records
                 PROVE  r \in records' /\ \A q \in records' : q.id = r.id => q = r
        OBVIOUS
    <2>1. OnePerIdentity'
        BY DefinitionsNext DEF DefinitionsInv
    <2> QED BY <2>1, RecordsGrow DEF OnePerIdentity
<1>2. TypeOK /\ RowsStay /\ DefinitionsInv /\ [Next]_vars
        => (TypeOK /\ RowsStay /\ DefinitionsInv)'
    BY TypeNext, RowsStayNext, DefinitionsNext
<1>3. Init => TypeOK /\ RowsStay /\ DefinitionsInv
    BY TypeInit, DefinitionsInit
<1> QED BY <1>1, <1>2, <1>3, PTL DEF Spec, DefinitionsImmutable

-----------------------------------------------------------------------------
(* Metadata and status *)

Seen(x) == IF x.seen = NoRow THEN NewRow ELSE x.seen

(***************************************************************************)
(* A request changes its own columns of the row object it holds: a patch   *)
(* the metadata, the others the status and the replacement.                *)
(***************************************************************************)
OwnColumns(x) ==
    x.pc = "write" =>
        /\ x.op = "patch" => /\ x.want.status = Seen(x).status
                             /\ x.want.replacement = Seen(x).replacement
        /\ x.op # "patch" => x.want.owner = Seen(x).owner

WritesOwnColumns == \A s \in Sessions : OwnColumns(session[s])

LEMMA OwnColumnsInit == Init => WritesOwnColumns
BY IdleState DEF Init, WritesOwnColumns, OwnColumns

LEMMA OwnColumnsNext == TypeOK /\ WritesOwnColumns /\ [Next]_vars => WritesOwnColumns'
<1> SUFFICES ASSUME TypeOK, WritesOwnColumns, [Next]_vars PROVE WritesOwnColumns'
    OBVIOUS
<1> USE TargetsAssumption
<1>1. ASSUME NEW s \in Sessions, NEW x, session' = [session EXCEPT ![s] = x], OwnColumns(x)
      PROVE  WritesOwnColumns'
    BY <1>1 DEF WritesOwnColumns, TypeOK
<1>2. OwnColumns(Idle)
    BY IdleState DEF OwnColumns
<1>3. ASSUME NEW s \in Sessions, NEW m, ApplyPlan(s, m) PROVE WritesOwnColumns'
    BY <1>1, <1>3 DEF ApplyPlan, Go, OwnColumns
<1>4. ASSUME NEW s \in Sessions, ApplyCommit(s) PROVE WritesOwnColumns'
    BY <1>1, <1>2, <1>4 DEF ApplyCommit, Go
<1>5. ASSUME NEW s \in Sessions, NEW t \in Described, NEW o \in Owners, PatchMetadata(s, t, o)
      PROVE  WritesOwnColumns'
    <2> DEFINE want == [Loaded(t) EXCEPT !.owner = o]
               x == [pc |-> "write", op |-> "patch", target |-> t, seen |-> lifecycle[t],
                     want |-> want]
    <2>1. Loaded(t) \in Rows
        BY LoadedType
    <2>2. want.status = Loaded(t).status /\ want.replacement = Loaded(t).replacement
        BY <2>1 DEF Rows
    <2>3. OwnColumns(x)
        BY <2>2 DEF OwnColumns, Seen, Loaded
    <2> QED BY <1>1, <1>5, <2>3 DEF PatchMetadata, Load, Go
<1>6. ASSUME NEW s \in Sessions, NEW t, NEW r, Deprecate(s, t, r) PROVE WritesOwnColumns'
    BY <1>1, <1>6 DEF Deprecate, Go, OwnColumns
<1>7. ASSUME NEW s \in Sessions, DeprecateLoad(s) PROVE WritesOwnColumns'
    <2> DEFINE t == session[s].target
               want == [Loaded(t) EXCEPT !.status = "deprecated",
                                         !.replacement = session[s].replacement]
               x == [pc |-> "write", op |-> "deprecate", target |-> t, seen |-> lifecycle[t],
                     want |-> want]
    <2>1. t \in Targets
        BY <1>7, StateAt DEF DeprecateLoad, TypeOK, States, Checking
    <2>2. Loaded(t) \in Rows
        BY <2>1, LoadedType
    <2>3. want.owner = Loaded(t).owner
        BY <2>2 DEF Rows
    <2>4. OwnColumns(x)
        BY <2>3 DEF OwnColumns, Seen, Loaded
    <2> QED BY <1>1, <1>2, <1>7, <2>4 DEF DeprecateLoad, Load, Go
<1>8. ASSUME NEW s \in Sessions, NEW t \in Managed, Reactivate(s, t) PROVE WritesOwnColumns'
    <2> DEFINE want == [lifecycle[t] EXCEPT !.status = "active", !.replacement = None]
               x == [pc |-> "write", op |-> "reactivate", target |-> t, seen |-> lifecycle[t],
                     want |-> want]
    <2>1. lifecycle[t] \in Rows
        BY <1>8 DEF Reactivate, TypeOK
    <2>2. want.owner = lifecycle[t].owner
        BY <2>1 DEF Rows
    <2>3. OwnColumns(x)
        BY <2>1, <2>2 DEF OwnColumns, Seen
    <2> QED BY <1>1, <1>8, <2>3 DEF Reactivate, Load, Go
<1>9. ASSUME NEW s \in Sessions, CommitLifecycle(s) PROVE WritesOwnColumns'
    BY <1>1, <1>2, <1>9 DEF CommitLifecycle, Go
<1>10. CASE UNCHANGED vars
    BY <1>10 DEF vars, WritesOwnColumns
<1> QED BY <1>3, <1>4, <1>5, <1>6, <1>7, <1>8, <1>9, <1>10 DEF Next

(***************************************************************************)
(* What an UPDATE does to a row: a column is as it was unless the request  *)
(* changed it in the row object.                                           *)
(***************************************************************************)
LEMMA FlushedColumns ==
    ASSUME NEW row \in Rows, NEW seen \in Rows, NEW want \in Rows
    PROVE  LET new == Flushed(row, seen, want)
           IN  /\ want.status = seen.status => new.status = row.status
               /\ want.replacement = seen.replacement => new.replacement = row.replacement
               /\ want.owner = seen.owner => new.owner = row.owner
BY DEF Flushed, Column

\* Metadata changes by patches alone, status and replacement by the others.
THEOREM MetadataIndependent == Spec => MetadataAndStatusApart
<1> DEFINE Apart(t) ==
        /\ lifecycle'[t].owner # lifecycle[t].owner => Wrote("patch", t)
        /\ lifecycle'[t].status # lifecycle[t].status =>
              Wrote("deprecate", t) \/ Wrote("reactivate", t)
        /\ lifecycle'[t].replacement # lifecycle[t].replacement =>
              Wrote("deprecate", t) \/ Wrote("reactivate", t)
<1>1. TypeOK /\ RowsStay /\ WritesOwnColumns /\ [Next]_vars
        => [\A t \in Targets :
               lifecycle[t] # NoRow /\ lifecycle'[t] # lifecycle[t] => Apart(t)]_vars
    <2> SUFFICES ASSUME TypeOK, RowsStay, WritesOwnColumns, [Next]_vars, NEW t \in Targets,
                        lifecycle[t] # NoRow, lifecycle'[t] # lifecycle[t]
                 PROVE  Apart(t)
        OBVIOUS
    <2>1. PICK s \in Sessions : CommitLifecycle(s)
        BY DEF Next, vars, ApplyPlan, ApplyCommit, PatchMetadata, Deprecate, DeprecateLoad,
               Reactivate
    <2> DEFINE w == session[s]
    <2>2. w \in Writing
        BY <2>1, StateAt DEF CommitLifecycle, TypeOK, States
    <2>3. /\ w.pc = "write" /\ w.op \in {"patch", "deprecate", "reactivate"}
          /\ w.target \in Targets /\ w.want \in Rows /\ w.seen \in Rows \cup {NoRow}
        BY <2>2 DEF Writing
    <2>4. w.target = t /\ w.seen # NoRow
          /\ lifecycle'[t] = Flushed(lifecycle[t], w.seen, w.want)
        BY <2>1, <2>3 DEF CommitLifecycle, TypeOK
    <2>5. lifecycle[t] \in Rows /\ w.seen \in Rows
        BY <2>3, <2>4 DEF TypeOK
    <2>6. Wrote(w.op, t)
        BY <2>3, <2>4 DEF Wrote
    <2>7. OwnColumns(w)
        BY DEF WritesOwnColumns
    <2>8. CASE w.op = "patch"
        <3>1. w.want.status = w.seen.status /\ w.want.replacement = w.seen.replacement
            BY <2>3, <2>4, <2>7, <2>8 DEF OwnColumns, Seen
        <3> QED BY <2>3, <2>4, <2>5, <2>6, <2>8, <3>1, FlushedColumns
    <2>9. CASE w.op # "patch"
        <3>1. w.want.owner = w.seen.owner
            BY <2>3, <2>4, <2>7, <2>9 DEF OwnColumns, Seen
        <3>2. Wrote("deprecate", t) \/ Wrote("reactivate", t)
            BY <2>3, <2>6, <2>9
        <3> QED BY <2>3, <2>4, <2>5, <3>1, <3>2, FlushedColumns
    <2> QED BY <2>8, <2>9
<1>2. TypeOK /\ RowsStay /\ WritesOwnColumns /\ [Next]_vars
        => (TypeOK /\ RowsStay /\ WritesOwnColumns)'
    BY TypeNext, RowsStayNext, OwnColumnsNext
<1>3. Init => TypeOK /\ RowsStay /\ WritesOwnColumns
    BY TypeInit, OwnColumnsInit
<1> QED BY <1>1, <1>2, <1>3, PTL DEF Spec, MetadataAndStatusApart

-----------------------------------------------------------------------------
(* Replacements *)

\* The replacement may stand for the target, and both are stored.
Replaceable(t, r) ==
    r \in Targets /\ Known(t) /\ Known(r) /\ Compatible(t, r) /\ ~IsDeprecated(r)

RowsActive ==
    \A t \in Targets : Replacement(t) # None =>
        IsDeprecated(t) /\ Replaceable(t, Replacement(t))

\* The request deprecates or reactivates.
Changes(x) == x.pc = "check" \/ (x.pc = "write" /\ x.op # "patch")

\* What such a request has read of lifecycles is still true: no other may
\* change a status, and patches leave statuses alone.
Plans(x) ==
    /\ x.pc = "check" /\ x.replacement # None => Replaceable(x.target, x.replacement)
    /\ x.pc = "write" /\ x.op # "patch" =>
         /\ x.seen # NoRow =>
              /\ IsDeprecated(x.target) <=> x.seen.status = "deprecated"
              /\ Replacement(x.target) = x.seen.replacement
         /\ x.op = "reactivate" =>
              x.seen # NoRow /\ x.want.status = "active" /\ x.want.replacement = None
         /\ x.op = "deprecate" =>
              /\ x.want.status = "deprecated"
              /\ ~IsReplacement(x.target)
              /\ x.want.replacement # None => Replaceable(x.target, x.want.replacement)

AdminsChange == \A s \in Sessions : Changes(session[s]) => s \in admins

AdminInv ==
    /\ AdminsChange
    /\ OneAdmin => RowsActive /\ \A s \in Sessions : Plans(session[s])

\* Records grow and keep their identities, and no status changes.
StatusesStay ==
    /\ records \subseteq records' /\ OnePerIdentity'
    /\ \A u \in Targets :
          /\ IsDeprecated(u)' <=> IsDeprecated(u)
          /\ Replacement(u)' = Replacement(u)

LEMMA KnownStays ==
    ASSUME records \subseteq records', NEW t, Known(t)
    PROVE  Known(t)'
BY DEF Known

\* A stored identity keeps its kind.
LEMMA KindStays ==
    ASSUME records \subseteq records', OnePerIdentity', NEW t, Known(t)
    PROVE  Kind(t.id)' = Kind(t.id)
<1>1. PICK d \in records : d.id = t.id
    BY DEF Known
<1>2. \A r \in records' : r.id = t.id => r = d
    BY <1>1 DEF OnePerIdentity
<1> QED BY <1>1, <1>2 DEF Kind

LEMMA CompatibleStays ==
    ASSUME records \subseteq records', OnePerIdentity', NEW t, NEW r,
           Known(t), Known(r), Compatible(t, r)
    PROVE  Compatible(t, r)'
<1>1. Kind(t.id)' = Kind(t.id) /\ Kind(r.id)' = Kind(r.id)
    BY KindStays
<1> QED BY <1>1 DEF Compatible

LEMMA ReplaceableStays ==
    ASSUME records \subseteq records', OnePerIdentity', NEW t, NEW r,
           Replaceable(t, r), ~IsDeprecated(r)'
    PROVE  Replaceable(t, r)'
BY KnownStays, CompatibleStays DEF Replaceable

LEMMA IsReplacementOf ==
    ASSUME NEW t
    PROVE  IsReplacement(t) <=> \E u \in Targets : IsDeprecated(u) /\ Replacement(u) = t
BY DEF IsReplacement, IsDeprecated, Replacement

LEMMA IsReplacementStays ==
    ASSUME StatusesStay, NEW t, ~IsReplacement(t)
    PROVE  ~IsReplacement(t)'
BY DEF StatusesStay, IsReplacement, IsDeprecated, Replacement

LEMMA RowsActiveStays ==
    ASSUME StatusesStay, RowsActive
    PROVE  RowsActive'
<1> SUFFICES ASSUME NEW t \in Targets, Replacement(t)' # None
             PROVE  IsDeprecated(t)' /\ Replaceable(t, Replacement(t))'
    BY DEF RowsActive
<1> DEFINE r == Replacement(t)
<1>1. IsDeprecated(t) /\ Replaceable(t, r) /\ Replacement(t)' = r /\ r # None
    BY DEF RowsActive, StatusesStay
<1>2. r \in Targets /\ ~IsDeprecated(r)
    BY <1>1 DEF Replaceable
<1>3. PICK x : x = r
    OBVIOUS
<1>4. Replaceable(t, x)'
    BY <1>1, <1>2, <1>3, ReplaceableStays DEF StatusesStay
<1> QED BY <1>1, <1>3, <1>4 DEF StatusesStay, Replaceable, Known, Compatible, Kind, IsDeprecated

LEMMA PlansStay ==
    ASSUME StatusesStay, NEW x \in States, Plans(x)
    PROVE  Plans(x)'
<1>1. ASSUME x.pc = "check", x.replacement # None PROVE Replaceable(x.target, x.replacement)'
    BY <1>1, ReplaceableStays DEF Plans, StatusesStay, Replaceable
<1>2. CASE x.pc # "write"
    BY <1>1, <1>2 DEF Plans
<1>3. CASE x.pc = "write"
    <2>1. x.target \in Targets
        BY <1>3, StateAt DEF Writing
    <2>2. ASSUME x.op = "deprecate", x.want.replacement # None
          PROVE  Replaceable(x.target, x.want.replacement)'
        BY <1>3, <2>2, ReplaceableStays DEF Plans, StatusesStay, Replaceable
    <2>3. x.op = "deprecate" => ~IsReplacement(x.target)'
        BY <1>3, IsReplacementStays DEF Plans
    <2> QED BY <1>1, <1>3, <2>1, <2>2, <2>3 DEF Plans, StatusesStay
<1> QED BY <1>2, <1>3

\* A step that changes no status, and lets one request go on.
LEMMA GoesOn ==
    ASSUME TypeOK, AdminInv, UNCHANGED admins, OneAdmin => StatusesStay,
           NEW s \in Sessions, NEW x, session' = [session EXCEPT ![s] = x],
           Changes(x) => s \in admins, OneAdmin => Plans(x)'
    PROVE  AdminInv'
<1>1. /\ session'[s] = x
      /\ \A u \in Sessions : session[u] \in States /\ (u # s => session'[u] = session[u])
    BY DEF TypeOK, States
<1>2. AdminsChange'
    BY <1>1 DEF AdminInv, AdminsChange
<1>3. ASSUME OneAdmin PROVE RowsActive' /\ \A u \in Sessions : Plans(session[u])'
    <2>1. RowsActive'
        BY <1>3, RowsActiveStays DEF AdminInv
    <2>2. ASSUME NEW u \in Sessions PROVE Plans(session[u])'
        <3>1. PICK y : y = session'[u]
            OBVIOUS
        <3>2. Plans(y)'
            <4>1. CASE u = s
                BY <1>1, <1>3, <2>1, <3>1, <4>1 DEF AdminInv
            <4>2. CASE u # s
                <5>1. y \in States /\ Plans(y)
                    BY <1>1, <1>3, <3>1, <4>2 DEF AdminInv
                <5> QED BY <1>3, <5>1, PlansStay
            <4> QED BY <4>1, <4>2
        <3> QED BY <3>1, <3>2 DEF Plans, IsReplacement, IsDeprecated, Replacement, Replaceable,
                                  Known, Compatible, Kind
    <2> QED BY <2>1, <2>2
<1> QED BY <1>2, <1>3 DEF AdminInv, OneAdmin

LEMMA AdminInit == Init => AdminInv
BY IdleState DEF Init, AdminInv, AdminsChange, Changes, RowsActive, Plans, Replacement

\* The steps that commit nothing to the lifecycle rows.
LEMMA AdminReads ==
    ASSUME TypeOK, RowsStay, DefinitionsInv, AdminInv, [Next]_vars, lifecycle' = lifecycle,
           NEW s \in Sessions, NEW x, session' = [session EXCEPT ![s] = x],
           Changes(x) => s \in admins, OneAdmin => Plans(x)
    PROVE  AdminInv'
<1>1. records \subseteq records' /\ OnePerIdentity' /\ UNCHANGED admins
    BY RecordsGrow, DefinitionsNext
       DEF DefinitionsInv, Next, vars, ApplyPlan, ApplyCommit, PatchMetadata, Deprecate,
           DeprecateLoad, Reactivate, CommitLifecycle
<1>2. StatusesStay
    BY <1>1 DEF StatusesStay, IsDeprecated, Replacement
<1>3. TypeOK'
    BY TypeNext
<1>4. x \in States
    <2>1. session'[s] = x
        BY DEF TypeOK
    <2> QED BY <1>3, <2>1 DEF TypeOK, States
<1>5. OneAdmin => Plans(x)'
    BY <1>2, <1>4, PlansStay DEF AdminInv
<1> QED BY <1>1, <1>2, <1>5, GoesOn

LEMMA AdminSteps ==
    ASSUME TypeOK, RowsStay, DefinitionsInv, AdminInv, NEW s \in Sessions,
           \/ \E m \in Manifests : ApplyPlan(s, m)
           \/ ApplyCommit(s)
           \/ \E t \in Described, o \in Owners : PatchMetadata(s, t, o)
           \/ \E t \in Managed, r \in Managed \cup {None} : Deprecate(s, t, r)
           \/ DeprecateLoad(s)
           \/ \E t \in Managed : Reactivate(s, t)
    PROVE  AdminInv'
<1> USE TargetsAssumption
<1>1. [Next]_vars
    BY DEF Next
<1>2. Plans(Idle) /\ ~Changes(Idle)
    BY IdleState DEF Plans, Changes
<1>3. ASSUME NEW m \in Manifests, ApplyPlan(s, m) PROVE AdminInv'
    <2> DEFINE x == [pc |-> "apply",
                     created |-> {d \in m : d.id \notin {r.id : r \in records}}]
    <2>1. session' = [session EXCEPT ![s] = x] /\ lifecycle' = lifecycle
        BY <1>3 DEF ApplyPlan, Go
    <2>2. x.pc = "apply"
        OBVIOUS
    <2> HIDE DEF x
    <2>3. Plans(x) /\ ~Changes(x)
        BY <2>2 DEF Plans, Changes
    <2> QED BY <1>1, <2>1, <2>3, AdminReads
<1>4. ASSUME ApplyCommit(s) PROVE AdminInv'
    BY <1>1, <1>2, <1>4, AdminReads DEF ApplyCommit, Go
<1>5. ASSUME NEW t \in Described, NEW o \in Owners, PatchMetadata(s, t, o) PROVE AdminInv'
    <2> DEFINE x == [pc |-> "write", op |-> "patch", target |-> t, seen |-> lifecycle[t],
                     want |-> [Loaded(t) EXCEPT !.owner = o]]
    <2>1. session' = [session EXCEPT ![s] = x] /\ lifecycle' = lifecycle
        BY <1>5 DEF PatchMetadata, Load, Go
    <2>2. Plans(x) /\ ~Changes(x)
        BY DEF Plans, Changes
    <2> QED BY <1>1, <2>1, <2>2, AdminReads
<1>6. ASSUME NEW t \in Managed, NEW r \in Managed \cup {None}, Deprecate(s, t, r)
      PROVE  AdminInv'
    <2> DEFINE x == [pc |-> "check", target |-> t, replacement |-> r]
    <2>1. /\ session' = [session EXCEPT ![s] = x] /\ lifecycle' = lifecycle /\ s \in admins
          /\ Known(t) /\ (r # None => ValidReplacement(t, r))
        BY <1>6 DEF Deprecate, Go
    <2>2. r # None => Replaceable(t, r)
        BY <2>1 DEF ValidReplacement, Replaceable
    <2>3. Plans(x)
        BY <2>2 DEF Plans
    <2> QED BY <1>1, <2>1, <2>3, AdminReads
<1>7. ASSUME DeprecateLoad(s) PROVE AdminInv'
    <2> DEFINE t == session[s].target
               r == session[s].replacement
               want == [Loaded(t) EXCEPT !.status = "deprecated", !.replacement = r]
               x == [pc |-> "write", op |-> "deprecate", target |-> t, seen |-> lifecycle[t],
                     want |-> want]
    <2>1. session[s].pc = "check" /\ s \in admins /\ lifecycle' = lifecycle
        BY <1>7 DEF DeprecateLoad, AdminInv, AdminsChange, Changes
    <2>2. t \in Targets /\ r \in Targets \cup {None}
        BY <2>1, StateAt DEF TypeOK, States, Checking
    <2>3. Loaded(t) \in Rows
        BY <2>2, LoadedType
    <2>4. want.status = "deprecated" /\ want.replacement = r
        BY <2>3 DEF Rows
    <2>5. OneAdmin /\ r # None => Replaceable(t, r)
        BY <2>1 DEF AdminInv, Plans
    <2>6. lifecycle[t] # NoRow =>
            /\ IsDeprecated(t) <=> lifecycle[t].status = "deprecated"
            /\ Replacement(t) = lifecycle[t].replacement
        BY DEF IsDeprecated, Replacement
    <2> HIDE DEF want, t, r
    <2>7. OneAdmin /\ ~IsReplacement(t) => Plans(x)
        BY <2>4, <2>5, <2>6 DEF Plans
    <2>8. CASE IsReplacement(t)
        BY <1>1, <1>2, <1>7, <2>1, <2>8, AdminReads DEF DeprecateLoad, Go, t
    <2>9. CASE ~IsReplacement(t)
        <3>1. session' = [session EXCEPT ![s] = x]
            BY <1>7, <2>9 DEF DeprecateLoad, Load, Go, t, r, want
        <3> QED BY <1>1, <2>1, <2>7, <2>9, <3>1, AdminReads
    <2> QED BY <2>8, <2>9
<1>8. ASSUME NEW t \in Managed, Reactivate(s, t) PROVE AdminInv'
    <2> DEFINE want == [lifecycle[t] EXCEPT !.status = "active", !.replacement = None]
               x == [pc |-> "write", op |-> "reactivate", target |-> t, seen |-> lifecycle[t],
                     want |-> want]
    <2>1. /\ session' = [session EXCEPT ![s] = x] /\ lifecycle' = lifecycle /\ s \in admins
          /\ lifecycle[t] # NoRow
        BY <1>8 DEF Reactivate, Load, Go
    <2>2. lifecycle[t] \in Rows
        BY <2>1 DEF TypeOK
    <2>3. want.status = "active" /\ want.replacement = None
        BY <2>2 DEF Rows
    <2> HIDE DEF want
    <2>4. Plans(x)
        BY <2>1, <2>3 DEF Plans, IsDeprecated, Replacement
    <2> QED BY <1>1, <2>1, <2>4, AdminReads
<1> QED BY <1>3, <1>4, <1>5, <1>6, <1>7, <1>8

\* What a commit does to the row of its target.
LEMMA CommitFacts ==
    ASSUME TypeOK, RowsStay, NEW s \in Sessions, CommitLifecycle(s)
    PROVE  LET w == session[s]
           IN  /\ w.pc = "write" /\ w.op \in {"patch", "deprecate", "reactivate"}
               /\ w.target \in Targets /\ w.want \in Rows /\ w.seen \in Rows \cup {NoRow}
               /\ session' = [session EXCEPT ![s] = Idle] /\ UNCHANGED <<records, admins>>
               /\ \A u \in Targets : u # w.target => lifecycle'[u] = lifecycle[u]
               /\ \/ lifecycle' = lifecycle
                  \/ /\ w.seen = NoRow /\ lifecycle[w.target] = NoRow
                     /\ lifecycle'[w.target] = w.want
                  \/ /\ w.seen \in Rows /\ lifecycle[w.target] \in Rows
                     /\ lifecycle'[w.target] = Flushed(lifecycle[w.target], w.seen, w.want)
<1> DEFINE w == session[s]
<1>1. w \in Writing
    BY StateAt DEF CommitLifecycle, TypeOK, States
<1>2. /\ w.pc = "write" /\ w.op \in {"patch", "deprecate", "reactivate"}
      /\ w.target \in Targets /\ w.want \in Rows /\ w.seen \in Rows \cup {NoRow}
    BY <1>1 DEF Writing
<1>3. session' = [session EXCEPT ![s] = Idle] /\ UNCHANGED <<records, admins>>
    BY DEF CommitLifecycle, Go
<1>4. w.seen # NoRow => w.seen \in Rows /\ lifecycle[w.target] \in Rows
    BY <1>2 DEF RowsStay, TypeOK
<1>5. lifecycle' =
        IF w.seen # NoRow
        THEN [lifecycle EXCEPT ![w.target] = Flushed(lifecycle[w.target], w.seen, w.want)]
        ELSE IF lifecycle[w.target] = NoRow THEN [lifecycle EXCEPT ![w.target] = w.want]
        ELSE lifecycle
    BY DEF CommitLifecycle
<1> QED BY <1>2, <1>3, <1>4, <1>5 DEF TypeOK

\* A patch leaves every status and every replacement alone.
LEMMA PatchCommit ==
    ASSUME TypeOK, RowsStay, WritesOwnColumns, OnePerIdentity, NEW s \in Sessions,
           CommitLifecycle(s), session[s].op = "patch"
    PROVE  StatusesStay
<1> USE TargetsAssumption
<1> DEFINE w == session[s]
<1>0. PICK t \in Targets : t = w.target
    BY CommitFacts
<1>1. /\ w.pc = "write" /\ t = w.target /\ w.want \in Rows /\ records' = records
      /\ \A u \in Targets : u # t => lifecycle'[u] = lifecycle[u]
      /\ \/ lifecycle' = lifecycle
         \/ w.seen = NoRow /\ lifecycle[t] = NoRow /\ lifecycle'[t] = w.want
         \/ /\ w.seen \in Rows /\ lifecycle[t] \in Rows
            /\ lifecycle'[t] = Flushed(lifecycle[t], w.seen, w.want)
    BY <1>0, CommitFacts
<1>2. w.want.status = Seen(w).status /\ w.want.replacement = Seen(w).replacement
    BY <1>1 DEF WritesOwnColumns, OwnColumns
<1>3. (IsDeprecated(t)' <=> IsDeprecated(t)) /\ Replacement(t)' = Replacement(t)
    <2>1. CASE lifecycle' = lifecycle
        BY <2>1 DEF IsDeprecated, Replacement
    <2>2. CASE w.seen = NoRow /\ lifecycle[t] = NoRow /\ lifecycle'[t] = w.want
        BY <1>1, <1>2, <2>2 DEF IsDeprecated, Replacement, Seen, NewRow
    <2>3. CASE /\ w.seen \in Rows /\ lifecycle[t] \in Rows
               /\ lifecycle'[t] = Flushed(lifecycle[t], w.seen, w.want)
        <3>1. lifecycle'[t] \in Rows
            BY <1>1, <2>3, FlushedType
        <3>2. /\ lifecycle'[t].status = lifecycle[t].status
              /\ lifecycle'[t].replacement = lifecycle[t].replacement
            BY <1>1, <1>2, <2>3, FlushedColumns DEF Seen
        <3> QED BY <2>3, <3>1, <3>2 DEF IsDeprecated, Replacement
    <2> QED BY <1>1, <2>1, <2>2, <2>3
<1> QED BY <1>1, <1>3 DEF StatusesStay, OnePerIdentity, IsDeprecated, Replacement

\* The only admin's commit puts its row there as it means it.
LEMMA AdminWrites ==
    ASSUME TypeOK, RowsStay, NEW s \in Sessions, CommitLifecycle(s),
           session[s].op # "patch", Plans(session[s]), lifecycle' # lifecycle,
           NEW t \in Targets, t = session[s].target
    PROVE  /\ IsDeprecated(t)' <=> session[s].want.status = "deprecated"
           /\ Replacement(t)' = session[s].want.replacement
<1> USE TargetsAssumption
<1> DEFINE w == session[s]
<1>1. /\ w.pc = "write" /\ t = w.target /\ w.want \in Rows
      /\ \/ w.seen = NoRow /\ lifecycle[t] = NoRow /\ lifecycle'[t] = w.want
         \/ /\ w.seen \in Rows /\ lifecycle[t] \in Rows
            /\ lifecycle'[t] = Flushed(lifecycle[t], w.seen, w.want)
    BY CommitFacts
<1>2. CASE w.seen = NoRow /\ lifecycle'[t] = w.want
    BY <1>1, <1>2 DEF IsDeprecated, Replacement
<1>3. CASE /\ w.seen \in Rows /\ lifecycle[t] \in Rows
           /\ lifecycle'[t] = Flushed(lifecycle[t], w.seen, w.want)
    <2>1. lifecycle'[t] \in Rows
        BY <1>1, <1>3, FlushedType
    <2>2. (IsDeprecated(t) <=> w.seen.status = "deprecated")
          /\ Replacement(t) = w.seen.replacement
        BY <1>1, <1>3 DEF Plans
    <2>3. lifecycle[t].status = w.seen.status /\ lifecycle[t].replacement = w.seen.replacement
        BY <1>3, <2>2 DEF IsDeprecated, Replacement, Rows
    <2>4. lifecycle'[t].status = w.want.status /\ lifecycle'[t].replacement = w.want.replacement
        BY <1>3, <2>3 DEF Flushed, Column
    <2> QED BY <2>1, <2>4 DEF IsDeprecated, Replacement
<1> QED BY <1>1, <1>2, <1>3

LEMMA AdminCommit ==
    ASSUME TypeOK, RowsStay, DefinitionsInv, WritesOwnColumns, AdminInv,
           NEW s \in Sessions, CommitLifecycle(s)
    PROVE  AdminInv'
<1> DEFINE w == session[s]
<1>1. PICK t \in Targets : t = w.target
    BY CommitFacts
<1>2. /\ w.pc = "write" /\ w.op \in {"patch", "deprecate", "reactivate"} /\ w.want \in Rows
      /\ session' = [session EXCEPT ![s] = Idle] /\ UNCHANGED <<records, admins>>
      /\ \A u \in Targets : u # t => lifecycle'[u] = lifecycle[u]
    BY <1>1, CommitFacts
<1>3. ~Changes(Idle) /\ Plans(Idle) /\ Plans(Idle)'
    BY IdleState DEF Plans, Changes
<1>4. OnePerIdentity /\ OnePerIdentity'
    BY <1>2 DEF DefinitionsInv, OnePerIdentity
<1>5. CASE w.op = "patch" \/ lifecycle' = lifecycle \/ ~OneAdmin
    <2>1. OneAdmin => StatusesStay
        BY <1>2, <1>4, <1>5, PatchCommit DEF StatusesStay, IsDeprecated, Replacement
    <2> QED BY <1>2, <1>3, <2>1, GoesOn
<1>6. CASE w.op # "patch" /\ lifecycle' # lifecycle /\ OneAdmin
    <2>1. RowsActive /\ Plans(w) /\ s \in admins
        BY <1>2, <1>6 DEF AdminInv, AdminsChange, Changes
    <2>2. /\ IsDeprecated(t)' <=> w.want.status = "deprecated"
          /\ Replacement(t)' = w.want.replacement
        BY <1>1, <1>6, <2>1, AdminWrites
    <2>3. \A u \in Targets : u # t =>
            (IsDeprecated(u)' <=> IsDeprecated(u)) /\ Replacement(u)' = Replacement(u)
        BY <1>2 DEF IsDeprecated, Replacement
    <2>4. \A u \in Sessions : Plans(session[u])' /\ (Changes(session[u])' => u \in admins)
        <3> SUFFICES ASSUME NEW u \in Sessions
                     PROVE  ~Changes(session[u])'
            BY DEF Plans, Changes
        <3>1. u # s => ~Changes(session[u]) /\ session'[u] = session[u]
            BY <1>2, <1>6, <2>1 DEF AdminInv, AdminsChange, OneAdmin, TypeOK
        <3>2. u = s => session'[u] = Idle
            BY <1>2 DEF TypeOK
        <3> QED BY <1>3, <3>1, <3>2 DEF Changes
    <2>5. ASSUME NEW u \in Targets, NEW r, Replaceable(u, r), ~IsDeprecated(r)'
          PROVE  Replaceable(u, r)'
        BY <1>2, <1>4, <2>5, ReplaceableStays
    <2>6. ASSUME NEW u \in Targets, NEW r, r = Replacement(u)', r # None
          PROVE  IsDeprecated(u)' /\ Replaceable(u, r)'
        <3>1. CASE w.op = "deprecate"
            <4>1. /\ w.want.status = "deprecated" /\ ~IsReplacement(t)
                  /\ w.want.replacement # None => Replaceable(t, w.want.replacement)
                BY <1>1, <1>2, <2>1, <3>1 DEF Plans
            <4>2. CASE u = t
                <5>1. Replaceable(t, r) /\ r # t /\ ~IsDeprecated(r)
                    BY <2>2, <2>6, <4>1, <4>2 DEF Replaceable, Compatible
                <5>2. ~IsDeprecated(r)'
                    BY <2>3, <5>1 DEF Replaceable
                <5> QED BY <2>2, <2>5, <4>1, <4>2, <5>1, <5>2
            <4>3. CASE u # t
                <5>1. IsDeprecated(u) /\ Replaceable(u, r) /\ r = Replacement(u)
                    BY <2>1, <2>3, <2>6, <4>3 DEF RowsActive
                <5>2. r # t
                    BY <4>1, <5>1, IsReplacementOf
                <5>3. ~IsDeprecated(r)'
                    BY <2>3, <5>1, <5>2 DEF Replaceable
                <5> QED BY <2>3, <2>5, <4>3, <5>1, <5>3
            <4> QED BY <4>2, <4>3
        <3>2. CASE w.op = "reactivate"
            <4>1. w.want.status = "active" /\ w.want.replacement = None
                BY <1>2, <2>1, <3>2 DEF Plans
            <4>2. u # t
                BY <2>2, <2>6, <4>1
            <4>3. IsDeprecated(u) /\ Replaceable(u, r)
                BY <2>1, <2>3, <2>6, <4>2 DEF RowsActive
            <4>4. ~IsDeprecated(r)'
                BY <2>2, <2>3, <4>1, <4>3 DEF Replaceable
            <4> QED BY <2>3, <2>5, <4>2, <4>3, <4>4
        <3> QED BY <1>2, <1>6, <3>1, <3>2
    <2>7. RowsActive'
        <3> SUFFICES ASSUME NEW u \in Targets, Replacement(u)' # None
                     PROVE  IsDeprecated(u)' /\ Replaceable(u, Replacement(u))'
            BY DEF RowsActive
        <3>1. PICK r : r = Replacement(u)'
            OBVIOUS
        <3>2. IsDeprecated(u)' /\ Replaceable(u, r)'
            BY <2>6, <3>1
        <3> QED BY <3>1, <3>2 DEF Replaceable, Known, Compatible, Kind, IsDeprecated
    <2> QED BY <1>2, <2>4, <2>7 DEF AdminInv, AdminsChange
<1> QED BY <1>5, <1>6

\* A deprecated target's replacement may be used, as long as one session at a
\* time deprecates and reactivates: patches of the same rows in between, and
\* manifests applied in between, do not disturb it.
THEOREM ReplacementsActive == Spec => []ReplacementActive
<1> DEFINE Inv == TypeOK /\ RowsStay /\ DefinitionsInv /\ WritesOwnColumns /\ AdminInv
<1>1. Inv /\ [Next]_vars => Inv'
    <2> SUFFICES ASSUME Inv, [Next]_vars PROVE Inv'
        OBVIOUS
    <2>1. (TypeOK /\ RowsStay /\ DefinitionsInv /\ WritesOwnColumns)'
        BY TypeNext, RowsStayNext, DefinitionsNext, OwnColumnsNext
    <2>2. CASE UNCHANGED vars
        <3>1. \A t, r : Replaceable(t, r)' <=> Replaceable(t, r)
            BY <2>2 DEF vars, Replaceable, Known, Compatible, Kind, IsDeprecated
        <3>2. /\ \A t : /\ IsReplacement(t)' <=> IsReplacement(t)
                        /\ IsDeprecated(t)' <=> IsDeprecated(t)
                        /\ Replacement(t)' = Replacement(t)
              /\ UNCHANGED <<session, admins>>
            BY <2>2 DEF vars, IsReplacement, IsDeprecated, Replacement
        <3>3. OneAdmin' => RowsActive' /\ \A s \in Sessions : Plans(session[s])'
            BY <3>1, <3>2 DEF AdminInv, OneAdmin, RowsActive, Plans
        <3> QED BY <2>1, <3>2, <3>3 DEF AdminInv, AdminsChange, Changes
    <2>3. CASE Next
        BY <2>1, <2>3, AdminSteps, AdminCommit DEF Next
    <2> QED BY <2>2, <2>3
<1>2. Init => Inv
    BY TypeInit, DefinitionsInit, OwnColumnsInit, AdminInit
<1>3. Inv => ReplacementActive
    BY DEF AdminInv, RowsActive, Replaceable, Replacement, IsDeprecated, ReplacementActive
<1> HIDE DEF Inv
<1> QED BY <1>1, <1>2, <1>3, PTL DEF Spec

-----------------------------------------------------------------------------
(* Deprecation warnings *)

\* Lifecycle rows are about stored definitions, and so are the requests that
\* mean to write one.
KnownTargets ==
    /\ \A t \in Targets : lifecycle[t] # NoRow => Known(t)
    /\ \A s \in Sessions : session[s].pc \in {"check", "write"} => Known(session[s].target)

LEMMA KnownTargetsInit == Init => KnownTargets
BY IdleState DEF Init, KnownTargets

LEMMA KnownTargetsNext == TypeOK /\ KnownTargets /\ [Next]_vars => KnownTargets'
<1> SUFFICES ASSUME TypeOK, KnownTargets, [Next]_vars PROVE KnownTargets'
    OBVIOUS
<1>1. \A t : Known(t) => Known(t)'
    BY RecordsGrow, KnownStays
\* A request that goes on, about a known target, and at most one row that is written.
<1>2. ASSUME NEW s \in Sessions, NEW x, session' = [session EXCEPT ![s] = x],
             x.pc \in {"check", "write"} => Known(x.target),
             \A t \in Targets : lifecycle'[t] # NoRow => Known(t)
      PROVE  KnownTargets'
    <2>1. \A t \in Targets : lifecycle'[t] # NoRow => Known(t)'
        BY <1>1, <1>2
    <2>2. ASSUME NEW u \in Sessions, session'[u].pc \in {"check", "write"}
          PROVE  Known(session[u].target)'
        <3>1. session'[u] = IF u = s THEN x ELSE session[u]
            BY <1>2 DEF TypeOK
        <3>2. PICK t : t = session'[u].target
            OBVIOUS
        <3>3. Known(t)
            BY <1>2, <2>2, <3>1, <3>2 DEF KnownTargets
        <3> QED BY <1>1, <3>2, <3>3 DEF Known
    <2> QED BY <2>1, <2>2 DEF KnownTargets
<1>3. lifecycle' = lifecycle => \A t \in Targets : lifecycle'[t] # NoRow => Known(t)
    BY DEF KnownTargets
<1>4. ASSUME NEW s \in Sessions, NEW m \in Manifests, ApplyPlan(s, m) PROVE KnownTargets'
    BY <1>2, <1>3, <1>4 DEF ApplyPlan, Go
<1>5. ASSUME NEW s \in Sessions, ApplyCommit(s) PROVE KnownTargets'
    BY <1>2, <1>3, <1>5, IdleState DEF ApplyCommit, Go
<1>6. ASSUME NEW s \in Sessions, NEW t, NEW o, PatchMetadata(s, t, o) PROVE KnownTargets'
    BY <1>2, <1>3, <1>6 DEF PatchMetadata, Load, Go
<1>7. ASSUME NEW s \in Sessions, NEW t, NEW r, Deprecate(s, t, r) PROVE KnownTargets'
    BY <1>2, <1>3, <1>7 DEF Deprecate, Go
<1>8. ASSUME NEW s \in Sessions, DeprecateLoad(s) PROVE KnownTargets'
    <2>1. Known(session[s].target)
        BY <1>8 DEF DeprecateLoad, KnownTargets
    <2> QED BY <1>2, <1>3, <1>8, <2>1, IdleState DEF DeprecateLoad, Load, Go
<1>9. ASSUME NEW s \in Sessions, NEW t, Reactivate(s, t) PROVE KnownTargets'
    BY <1>2, <1>3, <1>9 DEF Reactivate, Load, Go
<1>10. ASSUME NEW s \in Sessions, CommitLifecycle(s) PROVE KnownTargets'
    <2>1. Known(session[s].target) /\ session[s].target \in Targets
        BY <1>10, StateAt DEF CommitLifecycle, KnownTargets, TypeOK, States, Writing
    <2>2. \A t \in Targets : lifecycle'[t] # NoRow => Known(t)
        BY <1>10, <2>1 DEF CommitLifecycle, KnownTargets, TypeOK
    <2> QED BY <1>2, <1>10, <2>2, IdleState DEF CommitLifecycle, Go
<1>11. CASE UNCHANGED vars
    BY <1>11 DEF vars, KnownTargets, Known
<1> QED BY <1>4, <1>5, <1>6, <1>7, <1>8, <1>9, <1>10, <1>11 DEF Next

\* Among stored and accepted definitions, what a definition rests on: entities
\* and sources rest on nothing, a view on those, and a service on views.
LEMMA Shapes ==
    ASSUME NEW d \in Definitions, NEW e \in Definitions, d.id = e.id
    PROVE  /\ d.kind = e.kind
           /\ e.kind \in {"entity", "batch_source", "stream_source"} =>
                d.deps = {} /\ d.refs = {}
           /\ e.features # {} => d.refs = {}
           /\ d.kind = "feature_service" => d.deps = {}
BY ShapesAssumption

\* A set of targets that holds a deprecated one warns of it.
LEMMA KnownWarned ==
    ASSUME KnownTargets, NEW targets \in SUBSET Targets, NEW u \in targets, IsDeprecated(u)
    PROVE  Warned(targets, u)
<1>1. Known(u)
    BY DEF KnownTargets, IsDeprecated
<1>2. [target |-> u, source |-> u] \in Warnings(targets)
    BY <1>1 DEF Warnings
<1> QED BY <1>2 DEF Warned

\* Three steps of use stay within a set that is closed under them.
LEMMA UsesWithin ==
    ASSUME NEW t, NEW defs, NEW near, NEW far, t \in near,
           Uses(t, defs) \subseteq near,
           \A u \in Uses(t, defs) : Uses(u, defs) \subseteq near,
           \A u \in Uses(t, defs) : \A v \in Uses(u, defs) : Uses(v, defs) \subseteq far,
           near \subseteq far
    PROVE  UsesAll(t, defs) \subseteq far
<1> DEFINE More(S) == S \cup UNION {Uses(u, defs) : u \in S}
<1>1. UsesAll(t, defs) = More(More(More({t})))
    BY DEF UsesAll
<1> DEFINE one == Uses(t, defs)
           two == UNION {Uses(u, defs) : u \in one}
           three == UNION {Uses(u, defs) : u \in two}
<1>2. More({t}) = {t} \cup one
    OBVIOUS
<1>3. More({t} \cup one) = {t} \cup one \cup two
    OBVIOUS
<1>4. More({t} \cup one \cup two) = {t} \cup one \cup two \cup three
    OBVIOUS
<1>5. one \subseteq near /\ two \subseteq near /\ three \subseteq far
    OBVIOUS
<1> HIDE DEF one, two, three, More
<1> QED BY <1>1, <1>2, <1>3, <1>4, <1>5

\* What an object uses.
LEMMA UsesObject ==
    ASSUME NEW i, NEW defs, NEW x
    PROVE  x \in Uses(Object(i), defs) <=>
             \E d \in defs : d.id = i /\ (x \in Objects(d.deps)
                                          \/ \E ref \in d.refs : x = FeatureOf(ref))
<1>1. Object(i).feature = NoFeature /\ Object(i).id = i
    BY DEF Object
<1> QED BY <1>1 DEF Uses

\* A feature uses its view.
LEMMA UsesFeature ==
    ASSUME NEW ref \in References, NEW defs
    PROVE  Uses(FeatureOf(ref), defs) = {Object(ref.view)}
BY TargetsAssumption DEF Uses, FeatureOf, References

\* The targets of a manifest, and of what its services rest on.
LEMMA ManifestTargetFacts ==
    ASSUME NEW m, NEW d \in m
    PROVE  /\ Object(d.id) \in ManifestTargets(m)
           /\ Objects(d.deps) \subseteq ManifestTargets(m)
           /\ \A ref \in d.refs :
                 /\ {FeatureOf(ref), Object(ref.view)} \subseteq ManifestTargets(m)
                 /\ \A v \in records : v.id = ref.view =>
                       Objects(v.deps) \subseteq ManifestWarningTargets(m)
           /\ ManifestTargets(m) \subseteq ManifestWarningTargets(m)
<1>1. /\ Object(d.id) \in ManifestTargets(m)
      /\ Objects(d.deps) \subseteq ManifestTargets(m)
      /\ \A ref \in d.refs : {FeatureOf(ref), Object(ref.view)} \subseteq ManifestTargets(m)
    BY DEF ManifestTargets
<1>2. /\ \A ref \in d.refs : \A v \in records : v.id = ref.view =>
             Objects(v.deps) \subseteq ManifestWarningTargets(m)
      /\ ManifestTargets(m) \subseteq ManifestWarningTargets(m)
    BY DEF ManifestWarningTargets
<1> QED BY <1>1, <1>2

LEMMA TargetTypes ==
    ASSUME NEW d \in Definitions
    PROVE  /\ Object(d.id) \in Targets /\ Objects(d.deps) \subseteq Targets
           /\ {[id |-> d.id, feature |-> f] : f \in d.features} \subseteq Targets
           /\ \A ref \in d.refs :
                 ref \in References /\ FeatureOf(ref) \in Targets /\ Object(ref.view) \in Targets
BY DefinitionsAssumption DEF DefinitionType, References, Targets, Object, Objects, FeatureOf

LEMMA ManifestTargetType ==
    ASSUME TypeOK, NEW m \in Manifests
    PROVE  ManifestWarningTargets(m) \in SUBSET Targets
<1>1. m \subseteq Definitions /\ records \subseteq Definitions
    BY ManifestsAssumption DEF TypeOK
<1>2. ManifestTargets(m) \subseteq Targets
    BY <1>1, TargetTypes DEF ManifestTargets
<1>3. \A v \in records : Objects(v.deps) \subseteq Targets
    BY <1>1, TargetTypes
<1> QED BY <1>2, <1>3 DEF ManifestWarningTargets

LEMMA PlanAnnounced ==
    ASSUME TypeOK, KnownTargets, NEW u, IsDeprecated(u), NEW m \in Manifests, NEW d \in m,
           u \in UsesAll(Object(d.id), records \cup m),
           \A e \in m : Accepted(records, m, e)
    PROVE  Warned(ManifestWarningTargets(m), u)
<1> DEFINE defs == records \cup m
           near == ManifestTargets(m)
           far  == ManifestWarningTargets(m)
<1>1. defs \subseteq Definitions
    BY ManifestsAssumption DEF TypeOK
<1>2. \A e \in defs : e.id = d.id => e \in m
    BY DEF Accepted, ViewAccepted, Conflicts
<1>3. ASSUME NEW x \in Uses(Object(d.id), defs)
      PROVE  /\ x \in near
             /\ Uses(x, defs) \subseteq near
             /\ \A y \in Uses(x, defs) : Uses(y, defs) \subseteq far
    <2>1. PICK e \in m : x \in Objects(e.deps) \/ \E ref \in e.refs : x = FeatureOf(ref)
        BY <1>2, UsesObject
    <2>2. CASE x \in Objects(e.deps)
        <3>1. PICK i \in e.deps : x = Object(i)
            BY <2>2 DEF Objects
        <3>2. PICK r \in defs : r.id = i /\ r.kind \in {"entity", "batch_source", "stream_source"}
            BY <3>1 DEF Accepted, ViewAccepted, Names
        <3>3. \A g \in defs : g.id = i => g.deps = {} /\ g.refs = {}
            BY <1>1, <3>2, Shapes
        <3>4. Uses(x, defs) = {}
            BY <3>1, <3>3, UsesObject DEF Objects
        <3> QED BY <2>2, <3>4, ManifestTargetFacts
    <2>3. CASE \E ref \in e.refs : x = FeatureOf(ref)
        <3>1. PICK ref \in e.refs : x = FeatureOf(ref)
            BY <2>3
        <3>2. ref \in References /\ Uses(x, defs) = {Object(ref.view)}
            BY <1>1, <3>1, TargetTypes, UsesFeature
        <3>3. PICK r \in defs : r.id = ref.view /\ ref.feature \in r.features
            BY DEF Accepted, Resolves, AvailableViews
        <3>4. ASSUME NEW v \in defs, v.id = ref.view PROVE v.refs = {} /\ Objects(v.deps) \subseteq far
            <4>1. v.refs = {}
                BY <1>1, <3>3, <3>4, Shapes
            <4>2. v \in m => Objects(v.deps) \subseteq far
                BY ManifestTargetFacts
            <4>3. v \in records => Objects(v.deps) \subseteq far
                BY <3>4, ManifestTargetFacts
            <4> QED BY <4>1, <4>2, <4>3
        <3>5. Uses(Object(ref.view), defs) \subseteq far
            BY <3>4, UsesObject
        <3> QED BY <3>1, <3>2, <3>5, ManifestTargetFacts
    <2> QED BY <2>1, <2>2, <2>3
<1>4. UsesAll(Object(d.id), defs) \subseteq far
    <2>1. Object(d.id) \in near /\ near \subseteq far
        BY ManifestTargetFacts
    <2> HIDE DEF near, far, defs
    <2>2. Uses(Object(d.id), defs) \subseteq near
        BY <1>3
    <2> QED BY <1>3, <2>1, <2>2, UsesWithin
<1>5. far \in SUBSET Targets
    BY ManifestTargetType
<1> QED BY <1>4, <1>5, KnownWarned

LEMMA QueryAnnounced ==
    ASSUME TypeOK, DefinitionsInv, KnownTargets, NEW u, IsDeprecated(u),
           NEW s \in records, s.kind = "feature_service", u \in UsesAll(Object(s.id), records)
    PROVE  Warned(QueryTargets(s), u)
<1> DEFINE far == QueryTargets(s)
<1>1. records \subseteq Definitions
    BY DEF TypeOK
<1>2. /\ Object(s.id) \in far
      /\ \A ref \in s.refs : FeatureOf(ref) \in far /\ Object(ref.view) \in far
    BY DEF QueryTargets
<1>3. \A ref \in s.refs : \A v \in records : v.id = ref.view => Objects(v.deps) \subseteq far
    BY DEF QueryTargets
<1>4. s.deps = {} /\ \A e \in records : e.id = s.id => e = s
    BY <1>1, Shapes DEF DefinitionsInv, OnePerIdentity
<1>5. ASSUME NEW x \in Uses(Object(s.id), records)
      PROVE  /\ x \in far
             /\ Uses(x, records) \subseteq far
             /\ \A y \in Uses(x, records) : Uses(y, records) \subseteq far
    <2>1. PICK ref \in s.refs : x = FeatureOf(ref)
        BY <1>4, UsesObject DEF Objects
    <2>2. Uses(x, records) = {Object(ref.view)}
        BY <1>1, <2>1, TargetTypes, UsesFeature
    <2>3. PICK r \in records : r.id = ref.view /\ ref.feature \in r.features
        BY DEF DefinitionsInv, NoDanglingReference, Grounded
    <2>4. \A v \in records : v.id = ref.view => v.refs = {}
        BY <1>1, <2>3, Shapes
    <2>5. Uses(Object(ref.view), records) \subseteq far
        BY <1>3, <2>4, UsesObject
    <2> QED BY <1>2, <2>1, <2>2, <2>5
<1>6. UsesAll(Object(s.id), records) \subseteq far
    <2> HIDE DEF far
    <2>1. Uses(Object(s.id), records) \subseteq far
        BY <1>5
    <2> QED BY <1>2, <1>5, <2>1, UsesWithin
<1>7. far \in SUBSET Targets
    BY <1>1, TargetTypes DEF QueryTargets
<1> QED BY <1>6, <1>7, KnownWarned

\* Whoever plans a manifest or queries a service that rests on a deprecated
\* target is warned of it, through any number of definitions in between
\* (_manifest_warning_targets, warnings_for_query, warnings_for_targets).
THEOREM DeprecationsAnnounced == Spec => []DeprecationAnnounced
<1> DEFINE Inv == TypeOK /\ RowsStay /\ DefinitionsInv /\ KnownTargets
<1>1. Inv /\ [Next]_vars => Inv'
    BY TypeNext, RowsStayNext, DefinitionsNext, KnownTargetsNext
<1>2. Init => Inv
    BY TypeInit, DefinitionsInit, KnownTargetsInit
<1>3. Inv => DeprecationAnnounced
    BY PlanAnnounced, QueryAnnounced DEF DeprecationAnnounced
<1> HIDE DEF Inv
<1> QED BY <1>1, <1>2, <1>3, PTL DEF Spec

=============================================================================
