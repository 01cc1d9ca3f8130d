SPECIFICATION BackfillSpec
CONSTANTS
    e1 = e1
    e2 = e2
    api = api
    consumer = consumer
    Events = {e1}
    Workers = {api, consumer}
    LongSession = {consumer}
    MaxSubmits = 2
    None = None
    before = before
    after = after
    Foreign = {before, after}
    Unfit = {before, after}
    OccurredAt <- Order
    Limit = 2
INVARIANTS
    AuditAlways
CHECK_DEADLOCK FALSE
