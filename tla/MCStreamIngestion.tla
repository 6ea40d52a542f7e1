-------------------------- MODULE MCStreamIngestion --------------------------
(* Values of the constants of StreamIngestion for TLC. *)
EXTENDS StreamIngestion

CONSTANTS v1, v2, e1

MCIds == {1, 2}

Older == [entity |-> e1, event_timestamp |-> 1]
Newer == [entity |-> e1, event_timestamp |-> 2]
MCContents == {Older, Newer}

Msg(v, i, c, verdicts) == [key |-> <<v, i>>, content |-> c, verdicts |-> verdicts]

\* An event; the same identity with other content, which a freshness rule
\* rejects when it is late; an event of the other view, under quarantine.
Event    == Msg(v1, 1, Newer, {"valid"})
Conflict == Msg(v1, 1, Older, {"valid", "reject"})
Other    == Msg(v2, 1, Older, {"valid", "quarantine"})

\* A second event of the first view, and a message validation never passes.
Second   == Msg(v1, 2, Older, {"valid"})
Invalid  == Msg(v1, 2, Newer, {"invalid"})

\* One partition holds two messages, the other one the event.
MCLogs ==
    {[p \in Partitions |-> IF p = 1 THEN <<a, b>> ELSE <<Event>>] :
        a \in {Event, Conflict, Other},
        b \in {Event, Conflict, Other, Second, Invalid}}
=============================================================================
