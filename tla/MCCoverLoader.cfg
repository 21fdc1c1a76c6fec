CONSTANTS
    Paths = {c1, c2, c3}
    NoPath = NoPath
    MaxWanted = 3
    MaxWants = 4
    MaxClears = 2

SPECIFICATION CLFairSpec
INVARIANTS CLTypeOK NothingStale NoDoubleWork
PROPERTIES WantedComes LeavesInTheEnd
CHECK_DEADLOCK FALSE
