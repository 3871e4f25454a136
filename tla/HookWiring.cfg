CONSTANTS
    u = u
    c = c
    log = log
    audit = audit
    again = again
    typo = typo
    plain = plain
    empty = empty
    broken = broken
    nowhere = nowhere
    EmptySegment = Empty
    Segment <- SegmentMC
    MaxSegments = 2
    Hook <- HookMC
    Id <- IdMC
    IdOf <- IdOfMC
    Pattern <- PatternMC
    On <- OnMC
    Grade <- GradeMC
    FileLists <- FileListsMC
    Event <- EventMC
    Program = {prog}
    MaxRun = 4
    MaxSwap = 2
SPECIFICATION WiringSpec
INVARIANTS CallsPerRegistration HeardIsListed
CHECK_DEADLOCK FALSE
