SPECIFICATION Spec
CONSTANTS
    MaxSessions = 4
    Pids = {1, 2}
    Keeps = {TRUE, FALSE}
    Interrupts = TRUE
INVARIANTS DebuggersApart TracedOwned StatusKept
PROPERTIES ProcessKept
CHECK_DEADLOCK FALSE
