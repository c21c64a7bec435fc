\* Three handlers at once on one ref, an order's that anyone may give, and
\* two different recharges, every fault.
CONSTANTS
    c1 = c1
    c2 = c2
    c3 = c3
    k1 = k1
    k2 = k2
    o1 = o1
    Caller = {c1, c2, c3}
    Credit = {k1, k2}
    Ref = {o1}
    Order = {o1}
    OrderCredit <- MCOrderCredit
    Faults = {"db", "commit", "crash"}
SPECIFICATION FairRechargeSpec
CHECK_DEADLOCK FALSE
INVARIANTS
    CreditedOnce
    OrderMatchesLedger
    SuccessIsCredited
PROPERTIES
    EveryHandlerEnds
