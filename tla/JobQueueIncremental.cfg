\* Two incremental jobs on one view, two workers that crash and overtake each other:
\* the reservation, the watermark and the lifecycle both tables implement together.
CONSTANTS
    Backfills = {}
    Materializations = {}
    Incrementals = {i1, i2}
    Historicals = {}
    NoJob = NoJob
    Views = {v}
    ViewOf <- OneView
    Workers = {w1, w2}
    Clients = {}
    Cutoffs = {1, 2}
    Chunks = 1
    MaxAttempts = 2
    LeaseSeconds = 1
    RetryBase = 1
    RetryMax = 1
    TTL = 1
    MaxDelay = 0
    MaxBeats = 0
    MaxTokens = 2
    LastRetry = 2
    Faults = {"crash"}
SPECIFICATION Spec
SYMMETRY WorkerSymmetry
CHECK_DEADLOCK FALSE
INVARIANTS ReservationInv WatermarkInv
PROPERTIES ImplementsLifecycle
