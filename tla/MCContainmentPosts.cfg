SPECIFICATION PostsSpec
CONSTANTS
    Targets = {ip1, ip2}
    Handlers = {}
    Workers = {inference}
    Windows = {1, 2}
    RollbackWindow = 1
    Cooldown = 1
    MaxActions = 2
    MaxNow = 3
    MaxItems = 2
    None = None
INVARIANT
    PostedCooldownKept
CHECK_DEADLOCK FALSE
