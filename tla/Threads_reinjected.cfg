SPECIFICATION Spec
CONSTANTS
    Tids = {1}
    Main = 1
    Signals = {}
    BreakOn = {"SIGUSR1", "SIGTRAP", "SIGSTOP"}
    Mask = {}
    Client = {"memory"}
    World = {"trap"}
    MaxWorld = 2
    MaxUser = 0
    DeletedMax = 10
    QwaitStub = FALSE
PROPERTY SignalSentOnce
