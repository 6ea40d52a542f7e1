SPECIFICATION Spec
CONSTANTS
    v1 = v1
    v2 = v2
    e1 = e1
    None = None
    Views = {v1, v2}
    Ids <- MCIds
    Entities = {e1}
    Contents <- MCContents
    Partitions = {1, 2}
    Logs <- MCLogs
    BatchSize = 2
    MaxFaults = 1
    MaxLog = 2
    Faults = {"redis"}
INVARIANTS
    StagedIsOnline
CHECK_DEADLOCK FALSE
