SPECIFICATION Spec
CONSTANTS
    s1 = s1
    k1 = k1
    n1 = n1
    Senders = {s1}
    Confirmers = {k1}
    Exchanges = {s1, k1}
    Noters = {n1}
    MaxActors = 2
    NoExchange = NoExchange
    MaxIterations = 2
    Cap = 2
    StoreFails = FALSE
INVARIANT RequestsAreAcceptable
CHECK_DEADLOCK FALSE
