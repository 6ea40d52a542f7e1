\* A retried job with an older cutoff succeeds after a newer one.
CONSTANTS
    Backfills = {}
    Materializations = {}
    Incrementals = {i1, i2}
    Historicals = {}
    NoJob = NoJob
    Views = {v}
    ViewOf <- OneView
    Workers = {w1}
    Clients = {}
    Cutoffs = {1, 2}
    Chunks = 1
    MaxAttempts = 1
    LeaseSeconds = 1
    RetryBase = 1
    RetryMax = 1
    TTL = 1
    MaxDelay = 0
    MaxBeats = 0
    MaxTokens = 2
    LastRetry = 9
    Faults = {}
SPECIFICATION Spec
SYMMETRY WorkerSymmetry
CHECK_DEADLOCK FALSE
PROPERTIES WatermarkMonotone
