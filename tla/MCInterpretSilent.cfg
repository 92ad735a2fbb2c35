CONSTANTS
    Runs = {1, 2}
    Readers = {q}
    Batch = 2
    Situations <- Undisturbed
    Connections = {k}
    MaxPending = 2
    MaxAttempts = 2
    maxSilentTurns = 2
SPECIFICATION Spec
PROPERTY SpokenTurnsAreReplies
CHECK_DEADLOCK FALSE
