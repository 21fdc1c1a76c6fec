CONSTANTS
    a = a
    b = b
    Players = 2
    ElementOrder <- MCElementOrder
    Laid <- MCLaid
    KeyOf <- MCKeyOf
    NoKey = NoKey
    QueueMax = 5
    MaxChanges = 3

SPECIFICATION FairSpec
INVARIANTS TypeOK LastWordIsRight NoRepeats
PROPERTIES KeysComeUp QuitIsHeard
