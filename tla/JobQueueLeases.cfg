\* A backfill of two chunks and two workers: slow clock readings, renewals, backoff,
\* expiry, crashes and one manual retry.
CONSTANTS
    Backfills = {b}
    Materializations = {}
    Incrementals = {}
    Historicals = {}
    NoJob = NoJob
    Views = {v}
    ViewOf <- OneView
    Workers = {w1, w2}
    Clients = {}
    Cutoffs = {1}
    Chunks = 2
    MaxAttempts = 2
    LeaseSeconds = 2
    RetryBase = 1
    RetryMax = 2
    TTL = 1
    MaxDelay = 1
    MaxBeats = 1
    MaxTokens = 3
    LastRetry = 9
    Faults = {"crash"}
SPECIFICATION Spec
SYMMETRY WorkerSymmetry
CHECK_DEADLOCK FALSE
INVARIANTS TokenIsPrivate
PROPERTIES CheckpointsNeverRegress
