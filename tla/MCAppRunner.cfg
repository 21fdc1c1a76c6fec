CONSTANTS
    MaxProcs = 3
    MaxTerms = 2

SPECIFICATION FairSpec
INVARIANTS TypeOK LeavesNothing
PROPERTY TermEndsIt
CHECK_DEADLOCK FALSE
