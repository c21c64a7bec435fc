SPECIFICATION Spec
CONSTANTS
    e1 = e1  a1 = a1  a2 = a2  p1 = p1  p2 = p2
    Email = {e1}
    Application = {a1, a2}
    Caller = {p1, p2}
SYMMETRY Symmetric
INVARIANTS
    StandingIsEarned SuccessIsComplete
