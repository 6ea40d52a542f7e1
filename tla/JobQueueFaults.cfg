\* One historical query and two workers under every fault at once.
CONSTANTS
    Backfills = {}
    Materializations = {}
    Incrementals = {}
    Historicals = {h}
    NoJob = NoJob
    Views = {v}
    ViewOf <- OneView
    Workers = {w1, w2}
    Clients = {c}
    Cutoffs = {1}
    Chunks = 1
    MaxAttempts = 2
    LeaseSeconds = 1
    RetryBase = 1
    RetryMax = 1
    TTL = 1
    MaxDelay = 0
    MaxBeats = 0
    MaxTokens = 2
    LastRetry = 2
    Faults = {"crash", "stalled_claim", "stalled_retry", "ack_lost", "sweep_abort"}
SPECIFICATION Spec
SYMMETRY WorkerSymmetry
CHECK_DEADLOCK FALSE
INVARIANTS TypeOK LeaseInv PublishedByLastAttempt
PROPERTIES OnlyRetryRevives
