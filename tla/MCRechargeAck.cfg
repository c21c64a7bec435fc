\* A notification is repeated after a failed one.
CONSTANTS
    c1 = c1
    c2 = c2
    c3 = c3
    k1 = k1
    k2 = k2
    o1 = o1
    Caller = {c1}
    Credit = {k1, k2}
    Ref = {o1}
    Order = {o1}
    OrderCredit <- MCOrderCredit
    Faults = {"db"}
SPECIFICATION RechargeSpec
CHECK_DEADLOCK FALSE
INVARIANTS
    AcknowledgedIsCredited
