SPECIFICATION Spec
CONSTANTS
    self = self  p1 = p1  p2 = p2  w0 = w0  w1 = w1  w2 = w2  r1 = r1
    NULL = NULL
    Self = self
    Remotes <- TwoRemotes
    Endpoints <- NoEndpoints
    OwnerOf <- NoOwners
    WriterEndpoints <- NoEndpoints
    Oversized <- NoEndpoints
    GRAPH_CACHE_MAX_PARTICIPANTS = 2
    GRAPH_CACHE_MAX_NODES = 2
    GRAPH_CACHE_MAX_ENDPOINTS = 1
    GRAPH_DISCOVERY_BATCH = 1
    CoalesceLoss = FALSE
    Snapshots <- LargeSnapshots
    MaxSnapshots <- P2WritesNothing
    MaxAppearances <- P1AppearsTwice
INVARIANTS
    WithinLimits
    NodesHaveParticipant
    WholeSnapshots
PROPERTIES
    SnapshotsAdvance
    ListenersLeaveLocalPartAlone
CHECK_DEADLOCK FALSE
