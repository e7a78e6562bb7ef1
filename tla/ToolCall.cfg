SPECIFICATION ToolSpec
CONSTANTS
    Scripts <- SomeScripts
    PipeSize = 1
    Limit = 2
    MaxHeirWrites = 1
PROPERTIES
    EveryCallEnds
CHECK_DEADLOCK FALSE
