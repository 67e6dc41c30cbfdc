\* CircuitBreakerConfig::default() allows one half-open call.
SPECIFICATION Spec
CONSTANTS
    t1 = t1
    t2 = t2
    Tasks <- MCTasks
    failure_threshold = 1
    half_open_allowed_calls = 1
    reset_timeout = 1
    max_retries = 0
INVARIANTS
    HalfOpenAdmits
