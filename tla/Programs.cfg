SPECIFICATION ProgramsSpec
CONSTANTS
    Panels <- MCPanels
    Taken <- MCTaken
    MaxKeys = 2
INVARIANTS UnlockerHolds ScreensFollow ToolsHold
CHECK_DEADLOCK FALSE
