SPECIFICATION FqSpec
CONSTANTS
    WordBits = 4
    MaxCapacity = 4
    Requests = {0, 3, 7, 12}
    NoFrame = NoFrame
    MaxFrames = 17
INVARIANT
    CapacityIsPowerOfTwo
