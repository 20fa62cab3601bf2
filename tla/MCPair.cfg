\* Two users who look for friends at once, one add each.
CONSTANTS
    a = a  b = b
    near = near
    Users = {a, b}
    Seekers = {a, b}
    Places = {near}
    Zones <- OneZone
    Subs = {1}
    NoPlace = NoPlace
    Nobody = Nobody
    MaxAdds = 1
    MaxSeen = 2
    MaxFixes = 1
SPECIFICATION FairSpec
INVARIANTS
    TypeOK
    RoomOnlyForMutualFriends
    OneSidedExplained
    NoSelfFriend
    DoneIsComplete
PROPERTIES
    ImplementsHandshake
    CallsEnd
