CONSTANTS
    Configured = {"cache", "mongo", "bus", "mongoose", "http", "ws", "grpc", "logs"}
    OpenFails = {"grpc"}
    CloseFails = {"ws", "cache"}
    Flusher = {"SIGTERM", "program"}
    Work = {w1}
    FlushEvery = 2
    MaxRecord = 3
    MaxTime = 1
SPECIFICATION FairShutdown
INVARIANTS FlushAnswers
           BackendsOutliveWork ClosesInOrder WorkIsLogged
PROPERTIES RecordsHaveOneFate SignalLeadsToExit
CHECK_DEADLOCK FALSE
