SPECIFICATION Spec
CONSTANTS
    MaxStreams = 2
    FrameTypes <- MCFrameTypes
    Pts <- MCPts
    Sizes <- MCSizes
    FirstCap = 1
    MaxFrames = 1
    MaxFaults = 1
    KillAfter = {}
    Buffers <- MCBuffers
    NoFrame = NoFrame
    MayDamage = FALSE
INVARIANTS
    CloseOkMeansHeaderUpdated
