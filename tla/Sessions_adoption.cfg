SPECIFICATION Spec
CONSTANTS
    MaxSessions = 2
    Pids = {1}
    Keeps = {TRUE}
    Interrupts = FALSE
INVARIANTS DebuggersAlive
CHECK_DEADLOCK FALSE
