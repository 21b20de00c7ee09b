SPECIFICATION Spec
CONSTANTS
    FrameIds = 3
    SampleSize = 2
    StartsValid = FALSE
INVARIANT SamplerTypeOK ExclusiveRead FrameWhole SignalWhole CountedTwiceAtMost
PROPERTY FrameCompletes SignalRefreshed
