CONSTANTS
    i1 = i1
    i2 = i2
    i3 = i3
    Nil = Nil
    BaseIds = {i1, i2, i3}
    BaseIp <- MCBaseIp
    Operations <- MCOperations
    Policies <- MCPolicies
    phase_timeouts <- MCTimeouts
    InstanceIds = {}
    Configs = {saved}
    MaxTime = 3
    MaxOps = 1
    MaxResults = 0
    Octets = 4
    AvailableCores = 3
    MaxU32 = 7
    MaxChurn = 0
SPECIFICATION ClusterSpec
INVARIANTS RollbackRestores
CHECK_DEADLOCK FALSE
