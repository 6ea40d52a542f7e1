------------------------------ MODULE Registry ------------------------------
(***************************************************************************)
(* The registry (registry.py): immutable definitions of entities, sources, *)
(* feature views and feature services, and beside them the mutable         *)
(* lifecycle rows that deprecate a definition or one feature of a view.    *)
(*                                                                         *)
(* Every request of the HTTP API has a database session of its own.  What  *)
(* it reads and what it writes are separate steps, between which other     *)
(* requests commit; nothing but the unique constraints of the two tables   *)
(* stands between them.                                                    *)
(***************************************************************************)
EXTENDS Naturals, FiniteSets

CONSTANTS
    Identities,   \* (kind, name, version) of a registry record
    Features,     \* feature names
    Definitions,  \* the definitions that manifests contain
    Manifests,    \* the manifests that are applied
    Owners,       \* values of the discovery metadata
    NoOwner,      \* the metadata of a new lifecycle row
    NoFeature,    \* the feature_name of a row about a whole object
    None,         \* no replacement
    NoRow,        \* no lifecycle row
    Managed,      \* bound: the targets that are deprecated and reactivated
    Described,    \* bound: the targets whose metadata is edited
    Sessions,     \* requests in flight at one time
    AdminSets     \* which sessions may deprecate and reactivate

Kinds == {"entity", "batch_source", "stream_source", "feature_view", "feature_service"}

(***************************************************************************)
(* A definition with its kind, the sources and the entity it names, the    *)
(* features a view offers and the features a service refers to.  Equal     *)
(* fingerprints are equal definitions.                                     *)
(***************************************************************************)
References == [view : Identities, feature : Features]

DefinitionType ==
    [id : Identities, kind : Kinds, deps : SUBSET Identities,
     features : SUBSET Features, refs : SUBSET References]

Targets == [id : Identities, feature : Features \cup {NoFeature}]

Rows == [status : {"active", "deprecated"}, replacement : Targets \cup {None},
         owner : Owners \cup {NoOwner}]

ASSUME DefinitionsAssumption == Definitions \subseteq DefinitionType
\* Views name an entity and sources and offer features, services refer to
\* these; and the kind is part of an identity.
ASSUME ShapesAssumption ==
    /\ \A d, e \in Definitions : d.id = e.id => d.kind = e.kind
    /\ \A d \in Definitions :
          /\ d.kind # "feature_view" => d.deps = {} /\ d.features = {}
          /\ d.kind # "feature_service" => d.refs = {}
ASSUME ManifestsAssumption == Manifests \subseteq SUBSET Definitions
ASSUME TargetsAssumption ==
    /\ NoFeature \notin Features
    /\ None \notin Targets
    /\ NoRow \notin Rows
    /\ Managed \subseteq Targets /\ Described \subseteq Targets
ASSUME AdminAssumption == AdminSets \subseteq SUBSET Sessions

VARIABLES
    records,    \* table registry_records
    lifecycle,  \* table registry_lifecycle, by target
    session,    \* what each request has read and means to write
    admins      \* the sessions that deprecate and reactivate

vars == <<records, lifecycle, session, admins>>

Object(i) == [id |-> i, feature |-> NoFeature]

Idle == [pc |-> "idle"]

Applying == [pc : {"apply"}, created : SUBSET Definitions]
Checking == [pc : {"check"}, target : Targets, replacement : Targets \cup {None}]
Writing  == [pc : {"write"}, op : {"patch", "deprecate", "reactivate"},
             target : Targets, seen : Rows \cup {NoRow}, want : Rows]

Init ==
    /\ records = {}
    /\ lifecycle = [t \in Targets |-> NoRow]
    /\ session = [s \in Sessions |-> Idle]
    /\ admins \in AdminSets

Go(s, state) == session' = [session EXCEPT ![s] = state]

-----------------------------------------------------------------------------
(* Plan and apply *)

\* A record of the same identity holds other content.
Conflicts(stored, d) == \E r \in stored : r.id = d.id /\ r # d

(***************************************************************************)
(* The names a view may refer to.  Manifest objects are visited kind by    *)
(* kind, so those of the manifest were all judged before; one of them is   *)
(* rejected only when it conflicts, and then its name is stored already.   *)
(***************************************************************************)
Names(stored, manifest) ==
    {r.id : r \in {r \in stored \cup manifest :
        r.kind \in {"entity", "batch_source", "stream_source"}}}

ViewAccepted(stored, manifest, v) ==
    ~Conflicts(stored, v) /\ v.deps \subseteq Names(stored, manifest)

\* The views a service may refer to: the stored ones and those just accepted.
AvailableViews(stored, manifest) ==
    {v \in stored \cup {v \in manifest : ViewAccepted(stored, manifest, v)} :
        v.kind = "feature_view"}

Resolves(views, d) ==
    \A ref \in d.refs : \E v \in views : v.id = ref.view /\ ref.feature \in v.features

\* Mutant: what changed is not compared, so a changed definition is accepted.
AcceptedAnyContent(stored, manifest, d) ==
    /\ d.deps \subseteq Names(stored, manifest)
    /\ Resolves(AvailableViews(stored, manifest) \cup
                {v \in manifest : v.kind = "feature_view"}, d)

\* The plan of the manifest rejects no object: _apply_ goes on.
Accepted(stored, manifest, d) ==
    /\ ViewAccepted(stored, manifest, d)
    /\ Resolves(AvailableViews(stored, manifest), d)

\* Registry.apply up to the commit: the records are read once.
ApplyPlan(s, manifest) ==
    /\ session[s].pc = "idle"
    /\ \A d \in manifest : Accepted(records, manifest, d)
    /\ Go(s, [pc |-> "apply",
              created |-> {d \in manifest : d.id \notin {r.id : r \in records}}])
    /\ UNCHANGED <<records, lifecycle, admins>>

\* The unique constraint over kind, name and version.
Insertable(stored, created) ==
    /\ \A d \in created : d.id \notin {r.id : r \in stored}
    /\ \A d, e \in created : d.id = e.id => d = e

\* Mutant: an insert that finds its identity taken is skipped, the others stay.
ApplyCommitSkips(s) ==
    /\ session[s].pc = "apply"
    /\ records' = records \cup
          {d \in session[s].created : d.id \notin {r.id : r \in records}}
    /\ Go(s, Idle)
    /\ UNCHANGED <<lifecycle, admins>>

\* Mutant: an insert that finds its identity taken replaces the record.
ApplyCommitReplaces(s) ==
    /\ session[s].pc = "apply"
    /\ records' = {r \in records : r.id \notin {d.id : d \in session[s].created}}
          \cup session[s].created
    /\ Go(s, Idle)
    /\ UNCHANGED <<lifecycle, admins>>

\* All inserts of the manifest, or an integrity error and none of them.
ApplyCommit(s) ==
    /\ session[s].pc = "apply"
    /\ records' = IF Insertable(records, session[s].created)
                  THEN records \cup session[s].created ELSE records
    /\ Go(s, Idle)
    /\ UNCHANGED <<lifecycle, admins>>

-----------------------------------------------------------------------------
(* Lifecycle rows *)

\* _record_for_target finds a record, and the feature if one is named.
Known(t) ==
    \E r \in records : r.id = t.id /\ (t.feature = NoFeature \/ t.feature \in r.features)

IsDeprecated(t) == lifecycle[t] # NoRow /\ lifecycle[t].status = "deprecated"

NewRow == [status |-> "active", replacement |-> None, owner |-> NoOwner]

\* The row object in memory, before the handler changes it.
Loaded(t) == IF lifecycle[t] = NoRow THEN NewRow ELSE lifecycle[t]

Load(s, op, t, want) ==
    Go(s, [pc |-> "write", op |-> op, target |-> t, seen |-> lifecycle[t], want |-> want])

\* patch_metadata, up to the commit.
PatchMetadata(s, t, owner) ==
    /\ session[s].pc = "idle"
    /\ Known(t)
    /\ Load(s, "patch", t, [Loaded(t) EXCEPT !.owner = owner])
    /\ UNCHANGED <<records, lifecycle, admins>>

Kind(i) == {r.kind : r \in {r \in records : r.id = i}}

\* Same kind and same granularity, and not the target itself.
Compatible(t, r) ==
    /\ r # t
    /\ Kind(r.id) = Kind(t.id)
    /\ (r.feature = NoFeature) = (t.feature = NoFeature)

Replacement(t) == IF lifecycle[t] = NoRow THEN None ELSE lifecycle[t].replacement

\* The n-th target of the replacement chain from t, None behind its end.
Chain(t) ==
    LET walk[n \in Nat] ==
            IF n = 0 THEN t
            ELSE LET last == walk[n - 1]
                 IN  IF last = None THEN None ELSE Replacement(last)
    IN  walk

\* The walk of _validate_replacement reaches an end without meeting the target.
ChainEnds(t, r) ==
    \E n \in 1..Cardinality(Targets) :
        Chain(r)[n] = None /\ \A m \in 0..(n - 1) : Chain(r)[m] # t

\* Mutant: the status of the replacement is not looked at.
ValidReplacementAnyStatus(t, r) ==
    Compatible(t, r) /\ Known(r) /\ ChainEnds(t, r)

\* _validate_replacement
ValidReplacement(t, r) ==
    /\ Compatible(t, r)
    /\ Known(r)
    /\ ~IsDeprecated(r)
    /\ ~IsDeprecated(Object(r.id))
    /\ ChainEnds(t, r)

\* deprecate, its first part: the target and its replacement are looked up.
Deprecate(s, t, r) ==
    /\ session[s].pc = "idle" /\ s \in admins
    /\ Known(t)
    /\ r # None => ValidReplacement(t, r)
    /\ Go(s, [pc |-> "check", target |-> t, replacement |-> r])
    /\ UNCHANGED <<records, lifecycle, admins>>

\* A deprecated target names this one as its replacement.
IsReplacement(t) == \E u \in Targets : IsDeprecated(u) /\ lifecycle[u].replacement = t

\* Mutant: nobody asks whether the target replaces another.
DeprecateLoadUnchecked(s) ==
    LET t == session[s].target
    IN  /\ session[s].pc = "check"
        /\ Load(s, "deprecate", t,
                [Loaded(t) EXCEPT !.status = "deprecated",
                                  !.replacement = session[s].replacement])
        /\ UNCHANGED <<records, lifecycle, admins>>

\* deprecate, its second part: the dependents, then the row, or a conflict.
DeprecateLoad(s) ==
    LET t == session[s].target
    IN  /\ session[s].pc = "check"
        /\ IF IsReplacement(t) THEN Go(s, Idle)
           ELSE Load(s, "deprecate", t,
                     [Loaded(t) EXCEPT !.status = "deprecated",
                                       !.replacement = session[s].replacement])
        /\ UNCHANGED <<records, lifecycle, admins>>

\* Mutant: the status becomes null like the other columns.
ReactivateToNull(s, t) ==
    /\ session[s].pc = "idle" /\ s \in admins
    /\ Known(t) /\ lifecycle[t] # NoRow
    /\ Load(s, "reactivate", t,
            [lifecycle[t] EXCEPT !.status = None, !.replacement = None])
    /\ UNCHANGED <<records, lifecycle, admins>>

\* reactivate, up to the commit; without a row there is nothing to do.
Reactivate(s, t) ==
    /\ session[s].pc = "idle" /\ s \in admins
    /\ Known(t) /\ lifecycle[t] # NoRow
    /\ Load(s, "reactivate", t,
            [lifecycle[t] EXCEPT !.status = "active", !.replacement = None])
    /\ UNCHANGED <<records, lifecycle, admins>>

\* Mutant: the UPDATE writes every column of the row object.
FlushedWhole(row, seen, want) == want

\* The ORM's UPDATE names the columns that differ from what was loaded.
Column(now, seen, want) == IF want = seen THEN now ELSE want

Flushed(row, seen, want) ==
    [status      |-> Column(row.status, seen.status, want.status),
     replacement |-> Column(row.replacement, seen.replacement, want.replacement),
     owner       |-> Column(row.owner, seen.owner, want.owner)]

(***************************************************************************)
(* The commit of the three handlers.  A row that was not there is          *)
(* inserted, and the unique constraint refuses it when another session was *)
(* first; a row that was there is updated as it is now.                    *)
(***************************************************************************)
CommitLifecycle(s) ==
    LET w == session[s]
    IN  /\ w.pc = "write"
        /\ lifecycle' =
             IF w.seen # NoRow
             THEN [lifecycle EXCEPT ![w.target] = Flushed(@, w.seen, w.want)]
             ELSE IF lifecycle[w.target] = NoRow
                  THEN [lifecycle EXCEPT ![w.target] = w.want]
                  ELSE lifecycle
        /\ Go(s, Idle)
        /\ UNCHANGED <<records, admins>>

-----------------------------------------------------------------------------
(* Deprecation warnings *)

FeatureOf(ref) == [id |-> ref.view, feature |-> ref.feature]

Objects(ids) == {Object(i) : i \in ids}

\* _manifest_targets
ManifestTargets(manifest) ==
    UNION {{Object(d.id)} \cup Objects(d.deps)
           \cup {[id |-> d.id, feature |-> f] : f \in d.features}
           \cup UNION {{FeatureOf(ref), Object(ref.view)} : ref \in d.refs} :
        d \in manifest}

\* Mutant: the entity and the sources of a service's stored views are left out.
ManifestWarningTargetsShallow(manifest) == ManifestTargets(manifest)

\* _manifest_warning_targets: what the stored views of its services rest on.
ManifestWarningTargets(manifest) ==
    ManifestTargets(manifest) \cup
    UNION {Objects(v.deps) : v \in {v \in records :
        \E d \in manifest : \E ref \in d.refs : ref.view = v.id}}

\* warnings_for_query with a feature service.
QueryTargets(service) ==
    {Object(service.id)} \cup
    UNION {{FeatureOf(ref), Object(ref.view)}
           \cup UNION {Objects(v.deps) : v \in {v \in records : v.id = ref.view}} :
        ref \in service.refs}

\* warnings_for_targets: a feature also inherits the deprecation of its view.
Warnings(targets) ==
    UNION {{[target |-> t, source |-> u] : u \in {u \in {t, Object(t.id)} : IsDeprecated(u)}} :
        t \in {t \in targets : Known(t)}}

-----------------------------------------------------------------------------

Next ==
    \E s \in Sessions :
        \/ \E m \in Manifests : ApplyPlan(s, m)
        \/ ApplyCommit(s)
        \/ \E t \in Described, o \in Owners : PatchMetadata(s, t, o)
        \/ \E t \in Managed, r \in Managed \cup {None} : Deprecate(s, t, r)
        \/ DeprecateLoad(s)
        \/ \E t \in Managed : Reactivate(s, t)
        \/ CommitLifecycle(s)

Spec == Init /\ [][Next]_vars

-----------------------------------------------------------------------------
(* Properties *)

\* Every variable holds what the tables and the sessions can hold.
TypeOK ==
    /\ records \subseteq Definitions
    /\ lifecycle \in [Targets -> Rows \cup {NoRow}]
    /\ session \in [Sessions -> {Idle} \cup Applying \cup Checking \cup Writing]
    /\ admins \in AdminSets

(***************************************************************************)
(* A stored view finds its entity and its sources, and a stored service    *)
(* finds every feature it names in the stored view it names, however many  *)
(* manifests are applied at one time: a plan is judged against records     *)
(* read before the commit (registry.py:164-274), and a competing manifest  *)
(* may have stored another definition of the view meanwhile.               *)
(***************************************************************************)
Grounded(d, stored) ==
    /\ d.deps \subseteq {r.id : r \in stored}
    /\ \A ref \in d.refs :
          \E v \in stored : v.id = ref.view /\ ref.feature \in v.features

NoDanglingReference == \A d \in records : Grounded(d, records)

(***************************************************************************)
(* A stored definition never changes or disappears, and its identity is    *)
(* never given to another (ARCHITECTURE.md:62, registry.py:120-159), also  *)
(* when two sessions create the same identity at once.                     *)
(***************************************************************************)
DefinitionsImmutable ==
    [][\A r \in records :
          r \in records' /\ \A q \in records' : q.id = r.id => q = r]_vars

OneAdmin == \A a, b \in admins : a = b

(***************************************************************************)
(* A deprecated target names a replacement that may be used: of its kind   *)
(* and granularity, and not deprecated itself (registry.py:334-374 and     *)
(* 552-578).  Then replacement chains have one link and no cycle.  It      *)
(* holds while one session at a time changes lifecycles, whatever the      *)
(* sessions that edit metadata do; the code itself excludes no other.      *)
(***************************************************************************)
ReplacementActive ==
    OneAdmin =>
        \A t \in Targets :
            lifecycle[t] # NoRow /\ lifecycle[t].replacement # None =>
                /\ lifecycle[t].status = "deprecated"
                /\ Compatible(t, lifecycle[t].replacement)
                /\ ~IsDeprecated(lifecycle[t].replacement)

(***************************************************************************)
(* Metadata and deprecation are changed independently: a concurrent patch  *)
(* never brings back a status it read earlier, and deprecating or          *)
(* reactivating never brings back old metadata, although each handler      *)
(* changes a copy of the whole row (registry.py:307-386).                  *)
(***************************************************************************)
Wrote(op, t) ==
    \E s \in Sessions :
        session[s].pc = "write" /\ session[s].op = op /\ session[s].target = t

MetadataAndStatusApart ==
    [][\A t \in Targets : lifecycle[t] # NoRow /\ lifecycle'[t] # lifecycle[t] =>
          /\ lifecycle'[t].owner # lifecycle[t].owner => Wrote("patch", t)
          /\ lifecycle'[t].status # lifecycle[t].status =>
                Wrote("deprecate", t) \/ Wrote("reactivate", t)
          /\ lifecycle'[t].replacement # lifecycle[t].replacement =>
                Wrote("deprecate", t) \/ Wrote("reactivate", t)]_vars

\* What a target is built on, directly, among the given definitions.
Uses(t, defs) ==
    IF t.feature # NoFeature THEN {Object(t.id)}
    ELSE UNION {Objects(d.deps) \cup {FeatureOf(ref) : ref \in d.refs} :
            d \in {d \in defs : d.id = t.id}}

\* Directly or not: a service, its features, their views, the sources of those.
UsesAll(t, defs) ==
    LET More(near) == near \cup UNION {Uses(u, defs) : u \in near}
    IN  More(More(More({t})))

Warned(targets, u) == \E w \in Warnings(targets) : w.source = u

(***************************************************************************)
(* A deprecation is announced to everything that is built on it: to the    *)
(* plan of a manifest with a definition that uses the target through any   *)
(* number of steps, and to a query for a stored service that does          *)
(* (registry.py:388-434 and 640-700).                                      *)
(***************************************************************************)
DeprecationAnnounced ==
    \A u \in {u \in Targets : IsDeprecated(u)} :
        /\ \A m \in Manifests :
              (\E d \in m : u \in UsesAll(Object(d.id), records \cup m)) /\
              (\A d \in m : Accepted(records, m, d)) =>
                  Warned(ManifestWarningTargets(m), u)
        /\ \A s \in {r \in records : r.kind = "feature_service"} :
              u \in UsesAll(Object(s.id), records) => Warned(QueryTargets(s), u)

=============================================================================
