SPECIFICATION Spec
CONSTANTS
    c1 = c1
    d1 = d1
    d2 = d2
    s1 = s1
    n1 = n1
    turn = turn
    Calls = {c1}
    Deciders = {d1, d2, s1}
    Strangers = {s1}
    Confirmers = {n1}
    Turn = turn
    Exchanges = {turn, n1}
    NoExchange = NoExchange
    StoreFails = FALSE
INVARIANTS
    TypeOK
    AcceptedDecisionStands
    ActedOnlyOnApproval
    CardOutlivesOnlyALostCall
    NoHoldIsStuck
PROPERTIES
    HeldCallReturns
    ImplementsHeldAnswer
CHECK_DEADLOCK FALSE
