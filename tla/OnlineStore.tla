---------------------------- MODULE OnlineStore ----------------------------
(***************************************************************************)
(* The online store: one Redis hash per feature view and entity.  A hash   *)
(* is modelled by its version, the pair that decides every comparison of   *)
(* the update script: the event time, as text of fixed width in UTC and so *)
(* ordered as the instants are, and the identifier of the event.  The      *)
(* feature values travel with the version: the script writes both or none. *)
(***************************************************************************)
EXTENDS Naturals

Versions == [event_timestamp : Nat \ {0}, event_id : Nat]

\* The key does not exist: HGET returns nothing.
NoHash == [event_timestamp |-> 0, event_id |-> 0]

\* The script's comparison of the stored version with the offered one.
AtLeast(stored, event) ==
    \/ stored.event_timestamp > event.event_timestamp
    \/ /\ stored.event_timestamp = event.event_timestamp
       /\ stored.event_id >= event.event_id

\* The script: the stored hash stays, or the offered event replaces it.
Upsert(stored, event) ==
    IF stored # NoHash /\ AtLeast(stored, event) THEN stored ELSE event

=============================================================================
