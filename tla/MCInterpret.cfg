CONSTANTS
    Runs = {1, 2, 3}
    Readers = {q}
    Batch = 2
    Situations <- Situation
    Connections = {k}
    MaxPending = 2
    MaxAttempts = 2
    maxSilentTurns = 2
SPECIFICATION Spec
INVARIANTS TypeOK InjectedOnce RecordTellsTheEnd SummaryTellsTheEnd LetGoForAReason
PROPERTIES RecordsSettle FinishedRunsAreRead
CHECK_DEADLOCK FALSE
