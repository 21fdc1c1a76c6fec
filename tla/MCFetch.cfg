\* Two releases of 2 and 3 pieces: the rest of one is the rest of the other,
\* and the larger one can be complete, or too large, for the smaller.
CONSTANTS
    old = old
    new = new
    Releases = {old, new}
    Size <- MCSize
    MaxRedirects = 1
SPECIFICATION Spec
INVARIANTS TypeOK OkIsWhole FailureLeaves
