SPECIFICATION Spec
CONSTANTS
    c1 = c1
    n1 = n1
    n2 = n2
    turn = turn
    Calls = {c1}
    Deciders = {}
    Strangers = {}
    Confirmers = {n1, n2}
    Turn = turn
    Exchanges = {turn, n1, n2}
    NoExchange = NoExchange
    StoreFails = FALSE
INVARIANT NoSecondDispatch
CHECK_DEADLOCK FALSE
