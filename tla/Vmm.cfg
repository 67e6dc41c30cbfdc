SPECIFICATION FairSpec
CONSTANTS
    Pages = {p1, p2}
    MAX_DIRTY_MIGRATIONS = 1
    MaxAsked = 1
INVARIANTS TypeOK OneCopyRuns 
PROPERTIES HandsOverAllMemory MigrationEnds
CHECK_DEADLOCK FALSE
