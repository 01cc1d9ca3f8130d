SPECIFICATION MCFairSpec
CONSTANTS
    d1 = d1
    d2 = d2
    d3 = d3
    odd = odd
    shared = shared
    own = own
    Deltas <- FourDeltas
    Edges = {shared, own}
    EdgesOf <- SharedEdges
    Unmergeable = {odd}
    Writers = {w1}
    Projectors = {loop, backfill}
    BatchSize = 2
    MaxCrashes = 1
    MaxClock = 5
    None = None
INVARIANTS
    NothingSkipped
    OneReplayPerCrash
PROPERTIES
    EventuallyProjected
CHECK_DEADLOCK FALSE
