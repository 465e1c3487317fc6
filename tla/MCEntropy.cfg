SPECIFICATION Spec
CONSTANTS
    ByteBits = 4
    FieldBits = 2
    N = 10
    MaxSize = 3
    Inputs <- MCInputs
    Caps <- MCCaps
INVARIANTS
    DecodesWhatWasEncoded
    MissingBytesAreNoticed
    EncoderHasRoom
\* The codec stops after an error or at the end of the stream.
CHECK_DEADLOCK FALSE
