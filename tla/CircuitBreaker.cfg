\* API_DOCUMENTATION.md configures two half-open calls.
SPECIFICATION FairSpec
CONSTANTS
    t1 = t1
    t2 = t2
    Tasks <- MCTasks
    failure_threshold = 2
    half_open_allowed_calls = 2
    reset_timeout = 1
    max_retries = 1
INVARIANTS
    TypeOK
    HalfOpenAdmits
    ThresholdTrips
PROPERTIES
    Recovers
    Sheds
