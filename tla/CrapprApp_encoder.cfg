SPECIFICATION Spec
CONSTANTS
    MaxPlays = 2
    MaxStarts = 2
    Clips = {c1}
INVARIANTS
    OneEncoderPerFile
CHECK_DEADLOCK FALSE
