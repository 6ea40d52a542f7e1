------------------------------ MODULE Quality ------------------------------
(***************************************************************************)
(* Data quality contracts (models.py, quality.py).  A feature view has one *)
(* constrained feature here, the value of a row; with several, a row is    *)
(* invalid when any of them is.  A bound that a contract omits is a value  *)
(* no row crosses, omitted accepted values are all of them.                *)
(***************************************************************************)
EXTENDS Integers

CONSTANT Null   \* the value of a feature that is absent

Constraints ==
    {"nullable", "minimum", "maximum", "accepted_values", "unique", "max_age_seconds"}

Policies == {"reject", "quarantine", "report"}

Contracts ==
    [nullable : BOOLEAN, minimum : Int, maximum : Int, accepted_values : SUBSET Int,
     unique : BOOLEAN, max_age_seconds : Nat]

\* The constraints that row r of a chunk breaks; all the rows that share a
\* value break uniqueness, and age counts for an absent value too.
Violated(quality, rows, r, reference) ==
    {c \in Constraints :
        \/ c = "nullable" /\ r.value = Null /\ ~quality.nullable
        \/ c = "minimum" /\ r.value # Null /\ r.value < quality.minimum
        \/ c = "maximum" /\ r.value # Null /\ r.value > quality.maximum
        \/ c = "accepted_values" /\ r.value # Null /\ r.value \notin quality.accepted_values
        \/ /\ c = "unique" /\ r.value # Null /\ quality.unique
           /\ \E x \in rows \ {r} : x.value = r.value
        \/ /\ c = "max_age_seconds"
           /\ r.event_timestamp < reference - quality.max_age_seconds}

\* The rows of a chunk that break a constraint.
Invalid(quality, rows, reference) ==
    {r \in rows : Violated(quality, rows, r, reference) # {}}

=============================================================================
