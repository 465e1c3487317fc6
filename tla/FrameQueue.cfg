SPECIFICATION FqSpec
CONSTANTS
    WordBits = 4
    MaxCapacity = 4
    Requests = {0, 3, 7}
    NoFrame = NoFrame
    MaxFrames = 17
INVARIANTS
    QueueTypeOK
    SizeWithinCapacity
PROPERTIES
    QueueIsFifo
