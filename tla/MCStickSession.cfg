CONSTANTS
    Kinds = {"fat", "exfat", "ext"}
    MaxCrashes = 3

SPECIFICATION Spec
INVARIANTS TypeOK CleanIsSound HarmIsChecked LauncherIsMarked StandbyIsLeftAlone
CHECK_DEADLOCK FALSE
PROPERTY PulledIsAnswered
