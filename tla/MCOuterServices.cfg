SPECIFICATION OuterSpec
CONSTANTS
    InferRows = {i1}
    TrainRows = {t1, t2}
    PushLimit = 1
    Lookback = 1
    MaxTime = 3
    MaxFailures = 1
    LocalEntities = {x1}
    Threads = {sched, user}
    Scheduler = sched
    RetrainEvery = 2
    Retention = 1
    MaxRuns = 3
    MaxCrashes = 1
    Partners = {p1, p2}
    Hashes = {h1}
    Workers = {w1, w2}
    MaxPerHour = 1
    MinPartners = 2
    MaxRows = 2
    Free = Free
    Syncs = {sched, user}
    Scheduled = sched
    InboxLimit = 1
    MaxWarnings = 2
    MaxAcks = 2
    MaxFaults = 1
    Entities = {e1, e2}
    InWindow = {e1}
    Trainers = {fw, gw}
    ByFeedback = fw
    RetrainThreshold = 1
    MaxLabels = 2
    MaxFailed = 1
    Threshold = 2
    MinInterval = 2
    MaxUptime = 3
    MaxEvents = 6
    MaxRestarts = 2
    MaxFailedRuns = 2
    Sessions = {s1, s2}
    Requests = {r1, r2}
    MaxPasswords = 2
    MaxPairs = 2
    Versions = {g1, h1v}
    Default = h1v
    NoVersion = NoVersion
    Rollouts = {o1, o2}
    Upserts = {u1, u2}
    Drifts = {d1, d2}
    MaxChanges = 2
    Reported = {v1, v2, v3}
    MaxPerPoll = 1
    MaxInstant = 3
    MaxConnections = 2
INVARIANTS
    PassedIsSent
    ResentOnlyAfterFailure
    PublishedIsIndexed
    RetrainedInTime
    TotalIsExact
    AckRemembered
    NewestLabelWins
    BacklogBounded
    OldSessionsEnd
    RolledBackNotServed
    StreamIsExact
PROPERTIES
    EventuallyAtHub
    CacheCatchesUp
    FeedbackReachesModel
    RevokedStays
CHECK_DEADLOCK FALSE
