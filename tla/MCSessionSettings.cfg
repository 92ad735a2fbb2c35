SPECIFICATION Spec
CONSTANTS
    a = a
    b = b
    Setters = {a, b}
    TopTier = 2
    StoreFails = FALSE
    MaxIterations = 2
    CeilingMoves = 1
INVARIANTS
    TypeOK
    TierStaysAdmitted
    LoweringBindsNextIteration
CHECK_DEADLOCK FALSE
