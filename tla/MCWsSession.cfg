CONSTANTS
    Readers = {1, 2}
    Plans <- Plan
    subscriberBuffer = 0
    watcherBuffer = 1
    MaxEvents = 2
    outboundBuffer = 1
    concurrentPerConnection = 1
SPECIFICATION Spec
INVARIANTS TypeOK ChannelsAreUsedOpen ViewsAreWhole NobodyIsForgotten
PROPERTIES OperationsEnd
CHECK_DEADLOCK FALSE
