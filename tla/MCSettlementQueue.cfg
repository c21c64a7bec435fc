\* Two requests of one consumer, two workers, every fault.
CONSTANTS
    r1 = r1
    r2 = r2
    r3 = r3
    u1 = u1
    w1 = w1
    w2 = w2
    Request = {r1, r3}
    User = {u1}
    Worker = {w1, w2}
    UserOf <- MCUserOf
    Cost <- MCCost
    Lazy <- MCLazy
    Meter = {"model_key", "key_model"}
    Limit <- MCLimit
    Opening = 3
    Recharge = 1
    MaxRetries = 1
    Faults = {"redis", "tokenizer", "db", "commit", "crash"}
SPECIFICATION FairSpec
CHECK_DEADLOCK FALSE
INVARIANTS
    RecordedOnce
    ChargedOnce
    MeteredOnce
    NoTaskForgotten
PROPERTIES
    EveryTaskLeaves
