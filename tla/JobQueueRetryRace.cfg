\* A retry checks the retention period, the sweep runs, the retry writes.
CONSTANTS
    Backfills = {}
    Materializations = {}
    Incrementals = {}
    Historicals = {h}
    NoJob = NoJob
    Views = {v}
    ViewOf <- OneView
    Workers = {w1}
    Clients = {c}
    Cutoffs = {1}
    Chunks = 1
    MaxAttempts = 1
    LeaseSeconds = 1
    RetryBase = 1
    RetryMax = 1
    TTL = 1
    MaxDelay = 0
    MaxBeats = 0
    MaxTokens = 1
    LastRetry = 9
    Faults = {"stalled_retry"}
SPECIFICATION Spec
SYMMETRY WorkerSymmetry
CHECK_DEADLOCK FALSE
INVARIANTS InputRetained
