SPECIFICATION Spec
CONSTANTS
    ClientPolls = TRUE
    MaxEvents = 3
    MaxExtra = 3
    MaxTalk = 2
    MaxNames = 2
INVARIANTS NoPollWhilePerforming RepliesMatch NoMutualWait
PROPERTIES DeliversEvents EventTold SessionEnds
