SPECIFICATION FairSpec
CONSTANTS
    v1 = v1
    v2 = v2
    e1 = e1
    None = None
    Views = {v1, v2}
    Ids <- MCIds
    Entities = {e1}
    Contents <- MCContents
    Partitions = {1, 2}
    Logs <- MCLogs
    BatchSize = 2
    MaxFaults = 2
    MaxLog = 2
    Faults = {"crash", "shutdown", "ledger", "staging", "after_staging", "dlq_error", "kafka", "redis", "ledger_ack", "dlq_loss"}
INVARIANTS
    TypeOK
    CommittedIsSettled
    StagedExactlyOnce
    StagedIsOnlineOrFailed
PROPERTIES
    OffsetsNeverRegress
    EveryMessageSettled
    PendingIsStaged
CHECK_DEADLOCK FALSE
