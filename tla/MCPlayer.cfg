SPECIFICATION FairPSpec
CONSTANTS
    Cap = 4
    MaxPush = 9
    MaxPull = 3
    MaxBytes = 27
    Files <- MCFiles
    Milli = 2
    LongWait = 8
    BytesPerMilli = 1
    Period = 2
    MaxClock = 2
INVARIANTS
    RingHoldsTheLatest
    QuitShowsOneFrameAtMost
    SoundIsPlayedOut
PROPERTIES
    PlaysForward
    NotBeforeItsTime
    PlayerEnds
\* The program stops after Close.
CHECK_DEADLOCK FALSE
