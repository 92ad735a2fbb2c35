CONSTANTS
    w1 = w1
    w2 = w2
    Workbenches = {w1, w2}
    Claimers = {}
    Reporters = {s, t}
    Enders = {}
    Names <- AnyName
    MaxQueued = 1
    MaxSweeps = 0
    MaxCulls = 0
    MaxUpsets = 0
SPECIFICATION Spec
PROPERTY RequestsReturn
CHECK_DEADLOCK FALSE
