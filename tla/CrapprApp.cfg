SPECIFICATION Spec
CONSTANTS
    MaxPlays = 2
    MaxStarts = 2
    Clips = {c1}
INVARIANTS
    TypeOK
    DecoderHasOneUser
    StoppedRecordingIsClosed
PROPERTIES
    RemovesOnlyWhenReleased
    WindowResponds
CHECK_DEADLOCK FALSE
