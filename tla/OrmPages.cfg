CONSTANTS
    Key = {1, 2, 3}
    PageSize = 2
    IdBound = 2
    MaxInsert = 3
SPECIFICATION FairWalk
INVARIANTS WalkComplete WalkForward OffsetExact
PROPERTY WalkEnds
CHECK_DEADLOCK FALSE
