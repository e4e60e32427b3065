SPECIFICATION FairSpec
CONSTANTS
    self = self  p1 = p1  p2 = p2  w0 = w0  w1 = w1  w2 = w2  r1 = r1
    NULL = NULL
    Self = self
    Remotes <- OneRemote
    Endpoints <- OneEndpoint
    OwnerOf <- OneOwner
    WriterEndpoints <- OneEndpoint
    Oversized <- NoEndpoints
    GRAPH_CACHE_MAX_PARTICIPANTS = 2
    GRAPH_CACHE_MAX_NODES = 3
    GRAPH_CACHE_MAX_ENDPOINTS = 1
    GRAPH_DISCOVERY_BATCH = 1
    CoalesceLoss = TRUE
    Snapshots <- NoSnapshots
    MaxSnapshots <- WriteNothing
    MaxAppearances <- AppearOnce
PROPERTY
    DeadEndpointsAreForgotten
CHECK_DEADLOCK FALSE
