CONSTANTS
    Request = {r1, r2, r3, r4}
    Stores = {"local", "memory", "redis"}
    WindowMs = 2
    Max = 1
    MaxTime = 2
SPECIFICATION Spec
INVARIANTS WindowBound NoEarlyRejection
CHECK_DEADLOCK FALSE
