SPECIFICATION BackfillFairSpec
CONSTANTS
    e1 = e1
    e2 = e2
    api = api
    consumer = consumer
    Events = {e1, e2}
    Workers = {api, consumer}
    LongSession = {consumer}
    MaxSubmits = 2
    None = None
    before = before
    after = after
    Foreign = {before, after}
    Unfit = {before, after}
    OccurredAt <- Order
    Limit = 2
INVARIANTS
    AcceptedOnce
    LedgerFirst
    KnownAfterAudit
    GraphTopicMatchesDeltaLog
PROPERTIES
    ImplementsLedger
    LedgerEventGetsDelta
CHECK_DEADLOCK FALSE
