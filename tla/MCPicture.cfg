SPECIFICATION Spec
CONSTANTS
    Sizes <- MCSizes
    Pictures <- MCPictures
    Qualities <- MCQualities
    MaxSize = 12
    RoundOff = 2
INVARIANTS PictureTypeOK BlocksStayInside PictureIsWhole CoefficientsFit
           CloseToTheOriginal GreyStaysGrey
CHECK_DEADLOCK FALSE
