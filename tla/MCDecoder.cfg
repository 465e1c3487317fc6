SPECIFICATION Spec
CONSTANTS
    BlockCount = 3
    Files <- MCFiles
    MaxFaults = 2
INVARIANTS
    BlocksHaveOneOwner
    NoBufferLeaks
    CrashNeedsEveryFrameHeld
    DeliversInOrder
PROPERTIES
    NullMeansEndOrDamage
\* The program stops after a crash or after decoder_close.
CHECK_DEADLOCK FALSE
