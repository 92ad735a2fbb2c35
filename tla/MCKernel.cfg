CONSTANTS
    w1 = w1
    w2 = w2
    Workbenches = {w1, w2}
    Claimers = {c1, c2}
    Reporters = {s}
    Enders = {s}
    Names <- AnyName
    MaxQueued = 1
    MaxSweeps = 1
    MaxCulls = 1
    MaxUpsets = 2
SPECIFICATION Spec
INVARIANTS TypeOK OneRunPerKernel TakenKernelsComeFree CountersAreExact
PROPERTY RequestsReturn
CHECK_DEADLOCK FALSE
