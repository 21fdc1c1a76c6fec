CONSTANTS
    RealPads <- MCRealPads
    Ids <- MCIds
    VirtualIds = "console"
    Hidapi <- MCHidapi
    MaxPads = 3
    MaxChanges = 3

SPECIFICATION Spec
INVARIANTS TypeOK OwnToldApart NoSharedNode PlayersAreThere RealPadsAreSilent
CHECK_DEADLOCK FALSE
