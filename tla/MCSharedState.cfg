CONSTANTS
    Readers <- MCReaders
    PadInputs <- MCPadInputs
    MaxPads = 2
    CountMod = 2
    MaxReadAttempts = 2
    SeqMod = 4
    MaxLag = 1
    Memory = "inOrder"

SPECIFICATION Spec
INVARIANT TypeOK
PROPERTIES IsARegister TornBlockRefused
