\* Every list of up to six documents about three friends.
CONSTANTS
    ann = ann  bob = bob  cy = cy
    Names = {ann, bob, cy}
    MaxDocs = 6
SPECIFICATION Spec
INVARIANTS
    TypeOK
    EveryFriendHasATile
    VisitedNamesHaveOneTile
CHECK_DEADLOCK FALSE
