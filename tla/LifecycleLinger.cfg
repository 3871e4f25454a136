CONSTANTS
    Configured = {"cache", "bus", "http", "ws", "logs"}
    OpenFails = {}
    CloseFails = {}
    Closer = {"SIGTERM"}
    Work = {w1}
SPECIFICATION LingerSpec
PROPERTY CloseSettles
CHECK_DEADLOCK FALSE
