SPECIFICATION Spec
CONSTANTS
    Tids = {1, 2}
    Main = 1
    Signals = {"SIGUSR1"}
    BreakOn = {"SIGUSR1", "SIGTRAP", "SIGSTOP"}
    Mask = {}
    Client = {"memory", "suspend", "step"}
    World = {"trap", "signal", "clone", "exit"}
    MaxWorld = 3
    MaxUser = 1
    DeletedMax = 10
    QwaitStub = FALSE
INVARIANTS TypeOK PendingNeverHidden EventMeansSuspended UserSuspended NoThreadLeftBehind FreezeReleased SigstopsAccounted NoInterr
