SPECIFICATION Spec
CONSTANTS
    c1 = c1  c2 = c2  m1 = m1  k1 = k1  k2 = k2  p1 = p1
    u1 = u1  r1 = r1  r2 = r2  v1 = v1  v2 = v2  t1 = t1  t2 = t2
    Channel = {c1, c2}
    ModelSpec = {m1}
    Key = {k1, k2}
    Provider = {p1}
    Reviewer = {v1}
    Tester = {t1, t2}
    User = {u1}
    Request = {r1, r2}
    Stream = {r2}
    Path = {"/v1/messages"}
    KeyOwner <- MCKeyOwner
    Protocols <- MCProtocols
    SeedProtocols <- MCSeedProtocols
    SeedHome <- MCSeedHome
    UserOf <- MCUserOf
    SpecOf <- MCSpecOf
    Priority <- MCPriority
    Weight <- MCWeight
    MaxOps = 2
    MaxRetries = 1
INVARIANTS
    PickedWasServable BilledIsAnswered
    FailuresAreCounted OnlyApprovedItemsServe
PROPERTY EveryRequestEnds
CHECK_DEADLOCK FALSE
