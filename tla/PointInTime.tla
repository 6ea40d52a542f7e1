---------------------------- MODULE PointInTime ----------------------------
(***************************************************************************)
(* The point-in-time join (pit.py): one observation, an entity at an       *)
(* instant, against the rows of one feature view.                          *)
(***************************************************************************)
EXTENDS Integers, FiniteSets

CONSTANT NoRow   \* the columns of a LEFT JOIN that matched nothing

\* ORDER BY event_timestamp DESC, event_id DESC puts x before r.
Precedes(x, r) ==
    \/ x.event_timestamp > r.event_timestamp
    \/ x.event_timestamp = r.event_timestamp /\ x.event_id > r.event_id

\* QUALIFY ROW_NUMBER() = 1.  Rows that agree in both columns are one version
\* of the entity, and which of them is first is not defined.
First(rows) == CHOOSE r \in rows : \A x \in rows : ~Precedes(x, r)

\* The ON clause: rows of the entity up to the instant.
Joined(rows, entity, t) == {r \in rows : r.entity = entity /\ r.event_timestamp <= t}

\* Mutant: a row of exactly the age of the TTL has expired.
ExpiredAtLimit(r, t, ttl) == ttl # 0 /\ r.event_timestamp <= t - ttl

\* ttl_expired; a view without TTL has ttl 0.
Expired(r, t, ttl) == ttl # 0 /\ r.event_timestamp < t - ttl

\* _join_view, and _append_missing for a table that is absent or empty.
PointInTime(rows, entity, t, ttl) ==
    LET joined == Joined(rows, entity, t)
        first  == First(joined)
    IN  IF joined = {} THEN [status |-> "missing", row |-> NoRow]
        ELSE IF Expired(first, t, ttl) THEN [status |-> "expired", row |-> NoRow]
        ELSE [status |-> "present", row |-> first]

=============================================================================
