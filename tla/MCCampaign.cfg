SPECIFICATION MCFairSpec
CONSTANTS
    e1 = e1
    e2 = e2
    e3 = e3
    endpoint = endpoint
    ip = ip
    person = person
    device = device
    Events = {e1, e2, e3}
    Keys = {endpoint, ip}
    Entities = {person, device}
    Shape <- MCShape
    EntitiesOf <- MCEntities
    Occurred <- MCOccurred
    Window = 1
    MaxCampaigns = 6
    Appliers = {api, kafka}
    MaxNow = 3
    MaxApplies = 3
    None = None
INVARIANTS
    StatsAreExact
    EverySignalLinked
    OneActivePerKey
PROPERTIES
    ApplyEnds
CHECK_DEADLOCK FALSE
