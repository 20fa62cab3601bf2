\* A server that counts every time; the query changes once.
CONSTANTS
    d1 = d1  d2 = d2
    Docs = {d1, d2}
    AlwaysCounts = TRUE
    MaxVersion = 2
    MaxListens = 2
    MaxBreaks = 2
SPECIFICATION FairSpec
INVARIANTS TypeOK MappingsAgree CurrentMeansMatching QuietMeansServed
PROPERTIES ListensSettle
CHECK_DEADLOCK FALSE
