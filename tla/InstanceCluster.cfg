CONSTANTS
    i1 = i1
    i2 = i2
    i3 = i3
    Nil = Nil
    BaseIds = {i1, i2, i3}
    BaseIp <- MCBaseIp
    Operations <- MCOperations
    Policies <- MCPolicies
    phase_timeouts <- MCTimeouts
    InstanceIds = {}
    Configs = {saved}
    MaxTime = 2
    MaxOps = 2
    MaxResults = 0
    Octets = 4
    AvailableCores = 3
    MaxU32 = 7
    MaxChurn = 2
SPECIFICATION FairClusterSpec
INVARIANTS ClusterTypeOK HistoryMirrorsPhase EarlyEndLeavesNoTrace CompletedAsAsked 
PROPERTIES TemplateStays  ClusterRefinesLifecycle OperationsEnd
CHECK_DEADLOCK FALSE
