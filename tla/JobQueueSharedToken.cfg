\* A worker refreshes its claim after another one has taken the expired lease.
CONSTANTS
    Backfills = {b}
    Materializations = {}
    Incrementals = {}
    Historicals = {}
    NoJob = NoJob
    Views = {v}
    ViewOf <- OneView
    Workers = {w1, w2}
    Clients = {}
    Cutoffs = {1}
    Chunks = 1
    MaxAttempts = 2
    LeaseSeconds = 1
    RetryBase = 1
    RetryMax = 1
    TTL = 1
    MaxDelay = 0
    MaxBeats = 0
    MaxTokens = 0
    LastRetry = 9
    Faults = {"stalled_claim"}
SPECIFICATION Spec
SYMMETRY WorkerSymmetry
CHECK_DEADLOCK FALSE
INVARIANTS TokenIsPrivate
