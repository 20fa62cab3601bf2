\* One user writes to three friends: two sends, edits while an answer is awaited.
\* Two other users' chat shares a room with one of hers.
CONSTANTS
    ann = ann  mbob = mbob  annm = annm  bob = bob  hi = hi  yo = yo
    Users = {ann, mbob, annm, bob}
    Writers = {ann}
    Address <- Addresses
    Texts = {hi, yo, Blank}
    Blank = Blank
    Null = Null
    Nobody = Nobody
    MaxSends = 2
SPECIFICATION FairSpec
INVARIANTS
    TypeOK
    BothSidesList
    OnlyThePairIsListed
    SendsWhatIsShown
PROPERTIES SendsArrive ImplementsRooms
