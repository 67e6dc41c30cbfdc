CONSTANTS
    Callers = {c1}
    SessionIds = {s1, s2, s3}
    Peers = {p1, p2}
    max_total_sessions = 1
    max_sessions_per_client = 1
    session_inactivity_timeout = 1
    session_expiration = 1
    NoSession = NoSession
SPECIFICATION Spec
INVARIANTS TypeOK SessionsBounded SlotsNeverLeak StatsSettle AddressesInOrder
SYMMETRY IdsAndPeers
