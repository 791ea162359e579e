SPECIFICATION ServerSpec
CONSTANTS
    Machines <- MCMachines
    MaxOps = 3
    MAX_BPT = 2
    Tids = {1, 2}
    Eas = {5, 6}
    Types = {1, 4}
    Lens = {1}
    AddrSpace = 128
    Sps = {3, 10, 36, 44, 83, 96, 127}
    Sizes = {0, 5, 12, 30}
    Skips = {0, 4}
    MaxCalls = 2
    Files = {"f"}
    Channels = 2
    Bytes = {7}
    MaxLen = 3
    MaxRequests = 6
INVARIANTS BreakpointsKept HardwareBreakpointsHold AppcallsNest LibrariesKnown StartsRight
    PacketsArrive FilesAreKept NamesAreRight DataTypesHold
PROPERTIES RunsUndisturbed RestoresExactly StepsAreExact
CHECK_DEADLOCK FALSE
