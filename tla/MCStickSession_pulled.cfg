CONSTANTS
    Kinds = {"exfat"}
    MaxCrashes = 3

SPECIFICATION Spec
INVARIANT PulledIsChecked
CHECK_DEADLOCK FALSE
