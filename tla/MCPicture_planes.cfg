SPECIFICATION Spec
CONSTANTS
    Sizes <- OddSizes
    Pictures <- MCPictures
    Qualities <- MCQualities
    MaxSize = 12
    RoundOff = 2
INVARIANTS BlocksStayInside
CHECK_DEADLOCK FALSE
