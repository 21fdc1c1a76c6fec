CONSTANTS
    MaxRuns = 2
    Phases = 2
    MaxCrashes = 1

SPECIFICATION FairSpec
INVARIANT TypeOK
PROPERTIES OutcomeIsTheRunners ProgressGoesForward JobEnds
