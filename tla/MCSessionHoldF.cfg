SPECIFICATION SessionSpec
CONSTANTS
    Readings <- EveryReading
    PwmStopTicks = 2
    LockCheckTicks = 1
    TickWrap = 3
    RelayCanStick = FALSE
    RcdFitted = FALSE
    Configurable = FALSE
INVARIANT FUntilPwmCommand
