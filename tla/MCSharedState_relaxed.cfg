CONSTANTS
    Readers <- MCReaders
    PadInputs <- MCPadInputs
    MaxPads = 2
    CountMod = 1
    MaxReadAttempts = 2
    SeqMod = 4
    MaxLag = 1
    Memory = "relaxed"

SPECIFICATION Spec
PROPERTY DeadBlockRefused
