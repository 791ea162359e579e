SPECIFICATION FairSpec
CONSTANTS
    Tids = {1, 2}
    Main = 1
    Signals = {"SIGUSR1"}
    BreakOn = {"SIGUSR1", "SIGTRAP", "SIGSTOP"}
    Mask = {}
    Client = {"memory", "exit"}
    World = {"trap", "signal", "clone", "exit"}
    MaxWorld = 3
    MaxUser = 0
    DeletedMax = 10
    QwaitStub = FALSE
PROPERTIES FreezeEnds ExitReported StoredSignalTaken
