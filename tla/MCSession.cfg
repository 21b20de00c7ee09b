SPECIFICATION SessionSpec
CONSTANTS
    Readings <- EveryReading
    PwmStopTicks = 2
    LockCheckTicks = 1
    TickWrap = 3
    RelayCanStick = TRUE
    RcdFitted = FALSE
    Configurable = FALSE
INVARIANT PowerReportExact PlugReportExact RequestReportExact
PROPERTY ReportsPower
