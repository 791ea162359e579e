SPECIFICATION Spec
CONSTANTS
    Heads = {"xp"}
    Instances = {1}
    MaxStarts = 0
    MaxCommands = 3
INVARIANTS OriginalRestored
CHECK_DEADLOCK FALSE
