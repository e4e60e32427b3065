SPECIFICATION Spec
CONSTANTS
    self = self  p1 = p1  p2 = p2  w0 = w0  w1 = w1  w2 = w2  r1 = r1
    NULL = NULL
    Self = self
    Remotes <- OneRemote
    Endpoints <- SomeEndpoints
    OwnerOf <- SomeOwners
    WriterEndpoints <- SomeWriters
    Oversized <- NoEndpoints
    GRAPH_CACHE_MAX_PARTICIPANTS = 2
    GRAPH_CACHE_MAX_NODES = 2
    GRAPH_CACHE_MAX_ENDPOINTS = 2
    GRAPH_DISCOVERY_BATCH = 2
    CoalesceLoss = TRUE
    Snapshots <- NoSnapshots
    MaxSnapshots <- WriteNothing
    MaxAppearances <- W1AppearsTwice
INVARIANTS
    TypeOK
    WithinLimits
    OneEntryPerEndpoint
    ChangeIsSignalled
PROPERTIES
    ListenersLeaveLocalPartAlone
CHECK_DEADLOCK FALSE
