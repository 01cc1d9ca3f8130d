SPECIFICATION MCSpec
CONSTANTS
    d1 = d1
    d2 = d2
    d3 = d3
    odd = odd
    shared = shared
    own = own
    Deltas <- TwoDeltas
    Edges = {shared, own}
    EdgesOf <- TwoDeltaEdges
    Unmergeable = {}
    Writers = {w1, w2}
    Projectors = {loop}
    BatchSize = 2
    MaxCrashes = 1
    MaxClock = 5
    None = None
INVARIANTS
    NothingSkipped
CHECK_DEADLOCK FALSE
