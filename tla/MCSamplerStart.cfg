SPECIFICATION Spec
CONSTANTS
    FrameIds = 3
    SampleSize = 2
    StartsValid = TRUE
INVARIANT ValidIsMeasured
