SPECIFICATION Spec
CONSTANTS
    MaxStreams = 2
    FrameTypes <- MCFrameTypes
    Pts <- MCPts
    Sizes <- MCSizes
    FirstCap = 1
    MaxFrames = 2
    MaxFaults = 2
    KillAfter <- MCKillAfter
    Buffers <- MCBuffers
    NoFrame = NoFrame
    MayDamage = TRUE
INVARIANTS
    WTypeOK
    GoodEntriesPointAtFrames
    HeaderImpliesIndex
    DurationCoversFrames
    OpenedIndexIsGenuine
PROPERTIES
    PlaysWhatWasRecorded
    SeekReachesTheFrame
