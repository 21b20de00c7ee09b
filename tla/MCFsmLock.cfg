SPECIFICATION Spec
CONSTANTS
    Readings <- EveryReading
    PwmStopTicks = 2
    LockCheckTicks = 1
    TickWrap = 4
    RelayCanStick = FALSE
    RcdFitted = FALSE
    Configurable = FALSE
INVARIANT LockedUnderLoad
