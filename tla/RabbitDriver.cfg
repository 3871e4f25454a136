CONSTANTS
    Task = {t1, t2, t3}
    Ops = {"connect", "on", "onWildcard", "emit", "close"}
    Faults = {"dial", "channel", "loss"}
    MaxConn = 3
    MaxSlips = 2
SPECIFICATION Spec
INVARIANTS OrphansAreSlips FieldsUsable
CHECK_DEADLOCK FALSE
