---------------------------- MODULE MCRegistry ----------------------------
(* Values of the constants of Registry for TLC. *)
EXTENDS Registry

CONSTANTS e1, b1, v1, v2, svc, f, g, s1, s2, o1, NoF

Source(i, kind) == [id |-> i, kind |-> kind, deps |-> {}, features |-> {}, refs |-> {}]

View(i, features) ==
    [id |-> i, kind |-> "feature_view", deps |-> {e1, b1}, features |-> features, refs |-> {}]

Service == [id |-> svc, kind |-> "feature_service", deps |-> {}, features |-> {},
            refs |-> {[view |-> v1, feature |-> f]}]

Entity == Source(e1, "entity")
Batch  == Source(b1, "batch_source")

MCManifests ==
    { {Entity, Batch, View(v2, {f})},    \* the sources and a view
      {Entity, View(v1, {f}), Service},  \* a service and its view
      {View(v1, {g})},                   \* the same view, other features
      {Service} }

MCDefinitions == UNION MCManifests

\* Two views, a feature of one of them, and the entity they share.
MCManaged ==
    {[id |-> v1, feature |-> NoF], [id |-> v2, feature |-> NoF],
     [id |-> v1, feature |-> f], [id |-> e1, feature |-> NoF]}

MCDescribed == {[id |-> v1, feature |-> NoF]}

\* One session that changes lifecycles, or two of them.
MCAdminSets == {{s1}, {s1, s2}}
=============================================================================
