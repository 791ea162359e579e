SPECIFICATION Spec
CONSTANTS
    Tids = {1, 2, 3}
    Main = 1
    Signals = {"SIGUSR1"}
    BreakOn = {"SIGTRAP", "SIGSTOP"}
    Mask = {"SIGUSR1"}
    Client = {"memory", "pause", "step"}
    World = {"trap", "signal", "clone", "exit", "kill", "library"}
    MaxWorld = 3
    MaxUser = 0
    DeletedMax = 1
    QwaitStub = FALSE
INVARIANTS NobodyForgotten NoThreadLeftBehind
