SPECIFICATION LinkSpec
CONSTANTS
    Endpoints = {e1, e2}
    NoPeer = NoPeer
    Corrupt = "corrupt"
    Bodies <- MCBodies
    MaxBacklog = 2
    QueueLimit = 3
    Threads = {t1, t2}
    Nobody = Nobody
    Unwritten = "unwritten"
    UplinkLimit = 1
    MaxCalls = 2
    MaxRestarts = 1
    MaxStray = 1
INVARIANT EndpointTypeOK RecvNeverFails BacklogExact CommandWhole ViewExact
PROPERTY MessageHandled OffIsHeard
