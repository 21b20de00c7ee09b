SPECIFICATION Spec
CONSTANTS
    Word = 128
    Period = 100
    Latency = 3
    Duties <- MCDuties
    MaxCommands = 3
INVARIANT DutyDelivered SampledInPart
PROPERTY TriggersComplete
