SPECIFICATION RosSpec
CONSTANTS
    self = self  p1 = p1  n1 = n1  n2 = n2  w1 = w1  w2 = w2  r1 = r1  r2 = r2
    NULL = NULL
    Self = self
    Remotes <- OneRemote
    Remote = p1
    Endpoints <- MCEndpoints
    OwnerOf <- MCOwnerOf
    WriterEndpoints <- MCWriters
    Oversized <- NoneOversized
    GRAPH_CACHE_MAX_PARTICIPANTS = 2
    GRAPH_CACHE_MAX_NODES = 2
    GRAPH_CACHE_MAX_ENDPOINTS = 4
    GRAPH_DISCOVERY_BATCH = 1
    CoalesceLoss = TRUE
    Snapshots <- MCSnapshots
    MaxSnapshots <- MCMaxSnapshots
    MaxAppearances <- AppearOnce
    RemoteNodes = {n1, n2}
    FirstNode = n1
    FirstEndpoints <- MCFirst
    GRAPH_MAX_NODES = 2
    GRAPH_MAX_ENDPOINTS_PER_NODE = 3
    TopicOf <- MCTopicOf
    TypeOf <- MCTypeOf
    AskedTopic <- Chatter
    MaxFailures = 1
INVARIANTS
    FillMatchesCount
    SettledAnswerIsRight
PROPERTIES
    AnswersAreExact
CHECK_DEADLOCK FALSE
