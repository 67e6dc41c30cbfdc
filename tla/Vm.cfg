CONSTANTS
    boot_vcpus = 1
    num_queues = 2
    RequestsAfterFailure = {"shutdown"}
SPECIFICATION FairSpec
INVARIANTS TypeOK ParkedWhilePaused WorkersIdleWhilePaused
PROPERTIES FirstNmiReachesAll FirstPauseReturns ShutdownReturns
CHECK_DEADLOCK FALSE
