SPECIFICATION Spec
CONSTANTS
    Frames <- AllFrames
    MaxFrames = 3
    MaxPolls = 2
    MaxBoots = 2
INVARIANTS
    McpTypeOK
    AnsweredOnceInOrder
PROPERTIES
    ReadyHasReported
    ToolsReturn
CHECK_DEADLOCK FALSE
