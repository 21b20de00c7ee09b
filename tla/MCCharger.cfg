SPECIFICATION ChargerSpec
CONSTANTS
    Readings = {}
    PwmStopTicks = 1
    LockCheckTicks = 1
    TickWrap = 2
    RelayCanStick = FALSE
    RcdFitted = FALSE
    Configurable = FALSE
    SampleSize = 3
    MaxDeviation = 400
    MaxMisfits = 1
    CarLevels <- Cars
    MaxHasty = 1
INVARIANT ContactorFitsCar
PROPERTY ClosesForCar
VIEW StateView
