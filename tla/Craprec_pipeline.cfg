SPECIFICATION Spec
CONSTANTS
    Sources = {"video", "audio"}
    BootTime = 3
    MaxTime = 4
    MaxBuffers = 3
    Duration = 1
INVARIANTS
    BuffersHaveOneOwner
    EncoderUsedWhileOpen
    TimestampsOrdered
PROPERTIES
    RecordingEnds
    LateBuffersAreFreed
CHECK_DEADLOCK FALSE
