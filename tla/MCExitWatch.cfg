CONSTANTS
    ExitHoldMs = 4
    ExitGraceMs = 6
    MaxElapsed = 2
    ResetTermCycles = 3
    ResetKillCycles = 6

SPECIFICATION FairSpec
INVARIANT TypeOK
PROPERTIES HoldWasUnbroken KillAfterGrace HoldingEnds ResetEnds
CHECK_DEADLOCK FALSE
