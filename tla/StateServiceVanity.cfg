SPECIFICATION FairSpec
CONSTANTS
    Nodes = {n1, n2}
    Requests = {r1, r2}
    Kinds = {"network_write", "read", "request_vanity"}
    Creds = {"none"}
    AllowInternal = TRUE
PROPERTY
    RequestsAnswered
