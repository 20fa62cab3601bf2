\* A server that counts when it left out a document.
CONSTANTS
    d1 = d1  d2 = d2
    Docs = {d1, d2}
    AlwaysCounts = FALSE
    MaxVersion = 2
    MaxListens = 2
    MaxBreaks = 1
SPECIFICATION Spec
INVARIANTS ResumesFromItsKeys
CHECK_DEADLOCK FALSE
