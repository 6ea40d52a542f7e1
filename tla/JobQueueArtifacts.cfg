\* One historical query and two workers under fair polling: its artifacts from
\* submission to the sweep, and its decision.
CONSTANTS
    Backfills = {}
    Materializations = {}
    Incrementals = {}
    Historicals = {h}
    NoJob = NoJob
    Views = {v}
    ViewOf <- OneView
    Workers = {w1, w2}
    Clients = {}
    Cutoffs = {1}
    Chunks = 1
    MaxAttempts = 2
    LeaseSeconds = 1
    RetryBase = 1
    RetryMax = 1
    TTL = 1
    MaxDelay = 0
    MaxBeats = 1
    MaxTokens = 2
    LastRetry = 9
    Faults = {"crash", "sweep_abort"}
SPECIFICATION FairSpec
CHECK_DEADLOCK FALSE
INVARIANTS InputRetained ResultRetained
PROPERTIES EveryJobDecided ArtifactsReclaimed
