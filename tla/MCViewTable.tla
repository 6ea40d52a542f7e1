----------------------------- MODULE MCViewTable -----------------------------
(* Values of the constants of ViewTable for TLC.  A date has two instants. *)
EXTENDS ViewTable, TLC

CONSTANTS e1, e2, b1, b2, a1, a2, m1, m2, x1

Row(e, t, id, value) ==
    [entity |-> e, event_timestamp |-> t, event_id |-> id, value |-> value]

\* In the table at the start: one row before the backfill's range, on the date
\* that its first chunk shares, and one inside it.
Before == Row(e1, 2, 1, 1)
Inside == Row(e1, 3, 2, 4)
MCSeed == {Before, Inside}

\* The batch source: a row of the lookback, a chunk of one row, and a chunk
\* with two rows that break uniqueness and one that breaks nothing.
Late == Row(e1, 5, 16, 3)
MCSource ==
    {Row(e2, 2, 11, 0), Row(e1, 3, 12, 1), Row(e1, 4, 13, 2), Row(e2, 5, 14, 2), Late,
     Row(e2, 8, 17, 2)}

\* Events of a date of their own beside one that the table may hold already;
\* and an event that reuses the identity of a batch row.
MCStaged ==
    a1 :> {Before, Row(e2, 6, 21, 1), Row(e1, 7, 22, 1)} @@ a2 :> {Row(e1, 5, 16, 7)}

MCRows == MCSeed \cup MCSource \cup MCStaged[a1] \cup MCStaged[a2]

MCStart == b1 :> 3 @@ b2 :> 8 @@ x1 :> 3
MCEnd   == b1 :> 6 @@ b2 :> 9 @@ m1 :> 5 @@ m2 :> 9 @@ x1 :> 7

MCContract ==
    [nullable |-> FALSE, minimum |-> 1, maximum |-> 5, accepted_values |-> 0..9,
     unique |-> TRUE, max_age_seconds |-> 2]

Scene(jobs, exists, policy, overtaken, cancelled) ==
    [jobs |-> jobs, exists |-> exists, policy |-> policy,
     overtaken |-> overtaken, cancelled |-> cancelled]

MCScenarios ==
    { \* A backfill alone under every fault, in a table old and new.
      Scene({b1}, TRUE, "quarantine", {b1}, {b1}),
      Scene({b1}, FALSE, "quarantine", {b1}, {}),
      Scene({b1}, TRUE, "report", {b1}, {}),
      Scene({b1}, TRUE, "reject", {b1}, {}),
      \* Writers side by side.
      Scene({a1, b1}, TRUE, "quarantine", {}, {a1}),
      Scene({a1, b1}, FALSE, "quarantine", {}, {}),
      Scene({a1, a2}, FALSE, "report", {a1}, {}),
      Scene({b1, b2}, FALSE, "quarantine", {}, {}),
      Scene({a2, b1}, FALSE, "report", {}, {}),
      \* Materializations beside writers.
      Scene({b1, m1, m2}, TRUE, "quarantine", {}, {m1}),
      Scene({a1, b2, m2}, FALSE, "report", {}, {}),
      Scene({a1, m1, m2}, FALSE, "report", {m1}, {}),
      Scene({a1, m1, x1}, TRUE, "report", {}, {}) }
=============================================================================
