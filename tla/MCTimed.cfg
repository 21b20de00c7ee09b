SPECIFICATION TimedSpec
CONSTANTS
    Readings <- LoadReadings
    PwmStopTicks = 2
    LockCheckTicks = 1
    TickWrap = 5
    MaxUnstableTicks = 2
    RelayCanStick = FALSE
    RcdFitted = FALSE
    Configurable = FALSE
INVARIANT LoadShedInTime
PROPERTY LoadEventuallyShed DisabledOpens
