SPECIFICATION Spec
CONSTANTS
    Local = {"l1"}
    Remote = {"p1"}
    Keys = {"k1"}
    MaxChunks = 2
    ChunkCap = 1
INVARIANTS
    PoolServes
PROPERTIES
    ImplementsDelivery
    EveryRequestEnds
CHECK_DEADLOCK FALSE
