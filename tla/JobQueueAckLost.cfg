\* The success transaction commits but its acknowledgement is lost.
CONSTANTS
    Backfills = {}
    Materializations = {}
    Incrementals = {}
    Historicals = {h}
    NoJob = NoJob
    Views = {v}
    ViewOf <- OneView
    Workers = {w1}
    Clients = {}
    Cutoffs = {1}
    Chunks = 1
    MaxAttempts = 1
    LeaseSeconds = 1
    RetryBase = 1
    RetryMax = 1
    TTL = 1
    MaxDelay = 0
    MaxBeats = 0
    MaxTokens = 0
    LastRetry = 9
    Faults = {"ack_lost"}
SPECIFICATION Spec
SYMMETRY WorkerSymmetry
CHECK_DEADLOCK FALSE
INVARIANTS ResultRetained
