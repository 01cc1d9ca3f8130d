SPECIFICATION Spec
CONSTANTS
    Targets = {ip1, ip2}
    Handlers = {analyst}
    Workers = {inference}
    Windows = {1, 2}
    RollbackWindow = 1
    Cooldown = 1
    MaxActions = 2
    MaxNow = 3
    MaxItems = 4
    None = None
SYMMETRY Symmetry
INVARIANTS
    RolledBackOnce
    EventHasAction
    RecordedCooldownKept
    OncePerWindow
CHECK_DEADLOCK FALSE
