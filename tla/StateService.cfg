SPECIFICATION FairSpec
CONSTANTS
    Nodes = {n1, n2}
    Requests = {r1, r2}
    Kinds <- MCKinds
    Creds <- MCCreds
    AllowInternal = FALSE
INVARIANTS
    TypeOK
    
    SuccessMeansPublished
PROPERTY
    RequestsAnswered
