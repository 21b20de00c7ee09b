SPECIFICATION Spec
CONSTANTS
    Undefined = Undefined
    Null = Null
    Duties <- MCDuties
    NoisePieces <- MCNoise
    MaxNoise = 3
INVARIANT RoundTrip SizeExact CutRejected DecodeSound MessageMeant
CHECK_DEADLOCK FALSE
