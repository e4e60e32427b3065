SPECIFICATION Spec
CONSTANTS
    t1 = t1  t2 = t2  n1 = n1  n2 = n2  n3 = n3
    g1 = g1  g2 = g2  g3 = g3
    NULL = NULL
    Threads <- MCThreads
    Nodes <- MCNodes
    Guids <- MCGuids
    GRAPH_MAX_NODES = 2
    GRAPH_MAX_ENDPOINTS_PER_NODE = 2
    GRAPH_CACHE_MAX_NODES = 3
    WriteMayFail = TRUE
SYMMETRY Symmetry
INVARIANTS
    TypeOK
    LockProtectsTable
    HandlesOwnTheirSlots
    EndpointsAreListedOnce
    ListedGidsExist
    PublishedIsCurrent
    CreatedIsVisible
    OnlyNodeCreationIsRefused
PROPERTIES
    RemovalIsAnnouncedFirst
    ImplementsGraphTable
