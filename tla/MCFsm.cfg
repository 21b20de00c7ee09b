SPECIFICATION Spec
CONSTANTS
    Readings <- EveryReading
    PwmStopTicks = 1
    LockCheckTicks = 1
    TickWrap = 2
    RelayCanStick = FALSE
    RcdFitted = TRUE
    Configurable = TRUE
INVARIANT TypeOK PowerNeedsCar PwmStopGuard RcdGuardsPower
PROPERTY PhasesFixedUnderLoad NoForbiddenReclose ImplementsContract
