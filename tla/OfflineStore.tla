---------------------------- MODULE OfflineStore ----------------------------
(***************************************************************************)
(* The offline store (offline.py): Delta tables of feature rows,           *)
(* partitioned by the date of the event.  A Delta commit is atomic and no  *)
(* table is ever dropped, so a table is a value; a table holds a bag of    *)
(* rows, for nothing in it makes an event_id unique.                       *)
(***************************************************************************)
EXTENDS Integers, FiniteSets

CONSTANTS
    Rows,       \* the rows that a table may hold
    DayLength   \* how many instants a date has

Bags == [Rows -> Nat]
Tables == [exists : BOOLEAN, rows : Bags]

NoRows  == [r \in Rows |-> 0]
NoTable == [exists |-> FALSE, rows |-> NoRows]

Date(t) == t \div DayLength

\* load: the rows, without their multiplicity.
Load(table) == {r \in Rows : table.rows[r] > 0}

\* load_range: the timestamps of [from, to).
LoadRange(table, from, to) ==
    {r \in Load(table) : from <= r.event_timestamp /\ r.event_timestamp < to}

\* concat_tables: new rows beside those of a bag.
Plus(bag, new) == [r \in Rows |-> IF r \in new THEN bag[r] + 1 ELSE bag[r]]

\* write_deltalake in mode "append", or "error" on a table that does not exist.
Appended(table, new) == [exists |-> TRUE, rows |-> Plus(table.rows, new)]

\* write_deltalake in mode "overwrite": one date is replaced, the others stay.
Overwritten(table, date, bag) ==
    [exists |-> TRUE,
     rows |-> [r \in Rows |->
                 IF Date(r.event_timestamp) = date THEN bag[r] ELSE table.rows[r]]]

=============================================================================
