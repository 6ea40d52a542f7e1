SPECIFICATION Spec
CONSTANTS
    e1 = e1
    e2 = e2
    b1 = b1
    b2 = b2
    a1 = a1
    a2 = a2
    m1 = m1
    m2 = m2
    x1 = x1
    Entities = {e1, e2}
    Backfills = {b1, b2}
    Appends = {a1, a2}
    Incrementals = {m1, m2}
    Explicits = {x1}
    Null = Null
    NoRow = NoRow
    Rows <- MCRows
    DayLength = 2
    Start <- MCStart
    End <- MCEnd
    Staged <- MCStaged
    Source <- MCSource
    Seed <- MCSeed
    Contract <- MCContract
    TTL = 2
    Lookback = 2
    MaxAttempts = 2
    Scenarios <- MCScenarios
CHECK_DEADLOCK FALSE
INVARIANTS
    TypeOK
    OnlyAdmittedRows
    
    ChunksExact
    RowsOutsideKept
    AppendedOnce
    FreshnessServed
    PointInTimeCorrect
PROPERTIES
    OnlineKeepsUp
