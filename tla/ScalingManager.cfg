CONSTANTS
    Operations = {out, in}
    InstanceIds = {ids1}
    Configs = {cfg1}
    Nil = Nil
    phase_timeouts <- MCTimeouts
    MaxTime = 3
    MaxOps = 2
    MaxResults = 1
SPECIFICATION Spec
INVARIANTS TypeOK HistoryMirrorsPhase NoOverlap
PROPERTIES ClosedRecordsFrozen RefinesLifecycle
CHECK_DEADLOCK FALSE
