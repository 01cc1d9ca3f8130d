SPECIFICATION Spec
CONSTANTS
    Targets = {ip1}
    Handlers = {analyst, lead}
    Workers = {}
    Windows = {1}
    RollbackWindow = 1
    Cooldown = 1
    MaxActions = 2
    MaxNow = 3
    MaxItems = 5
    None = None
INVARIANT
    RolledBackOnce
CHECK_DEADLOCK FALSE
