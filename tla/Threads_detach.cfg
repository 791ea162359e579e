SPECIFICATION DetachSpec
CONSTANTS
    Tids = {1, 2, 3}
    Main = 1
    Signals = {}
    BreakOn = {"SIGTRAP", "SIGSTOP"}
    Mask = {}
    Client = {"memory", "suspend"}
    World = {"trap", "clone"}
    MaxWorld = 3
    MaxUser = 1
    DeletedMax = 10
    QwaitStub = FALSE
INVARIANTS CleanRelease
PROPERTIES DetachEnds
