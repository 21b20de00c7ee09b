SPECIFICATION Spec
CONSTANTS
    SampleSize = 10
    MaxDeviation = 400
    MaxMisfits = 1
    CarLevels <- Cars
    MaxHasty = 1
INVARIANT SettlesInTime DoubtIsShort
