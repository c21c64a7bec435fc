\* Two scanners whose passes overlap, two faults.
CONSTANTS
    r1 = r1
    r2 = r2
    r3 = r3
    s1 = s1
    s2 = s2
    Record = {r1, r2, r3}
    Scanner = {s1, s2}
    Revenue <- MCRevenue
    MaxFaults = 2
SPECIFICATION FairSpec
CHECK_DEADLOCK FALSE
INVARIANTS
    SettledIsPaid
    RepeatsAreBounded
PROPERTIES
    DueIsSettled
