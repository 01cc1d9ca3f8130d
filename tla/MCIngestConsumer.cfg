SPECIFICATION ConsumerFairSpec
CONSTANTS
    e1 = e1
    e2 = e2
    Events = {e1, e2}
    Workers = {api, consumer}
    LongSession = {consumer}
    Consumer = consumer
    Topic <- TwoAndMalformed
    MaxSubmits = 4
    ClientEvents = {e1}
    MaxCrashes = 1
    Malformed = Malformed
    None = None
INVARIANTS
    DroppedOnlyOnError
    RedeliveryIsIdempotent
PROPERTIES
    TopicDrained
CHECK_DEADLOCK FALSE
