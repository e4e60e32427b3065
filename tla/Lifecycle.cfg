SPECIFICATION Spec
CONSTANTS
    n1 = n1  p1 = p1  s1 = s1  g1 = g1  w1 = w1
    Context = Context
    Nodes = {n1}
    Publishers = {p1}
    Subscriptions = {s1}
    Guards = {g1}
    WaitSets = {w1}
    NodeOf <- MCNodeOf
    MaxCalls = 2
INVARIANTS
    NothingLeaks
    NothingIsReleasedTwice
    GraphEntriesAreBacked
