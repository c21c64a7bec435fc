\* Every kind of operation, settlements that cross each other included.
CONSTANTS
    p1 = p1
    p2 = p2
    u1 = u1
    u2 = u2
    platform = platform
    Proc = {p1, p2}
    Account <- MCAccount
    Op <- AllOps
    MaxVersion = 1
SPECIFICATION FairLSpec
INVARIANTS
    StatementsAddUp
    DebitsAreCovered
    CreditsAreConserved
PROPERTIES
    ImplementsAtomicLedger
    EveryCallReturns
