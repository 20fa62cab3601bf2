\* One device, one address, two sign-outs, up to five screens.
CONSTANTS
    ann = ann  bob = bob
    Emails = {ann}
    Nobody = Nobody
    Unread = Unread
    MaxDepth = 5
    MaxOuts = 2
SPECIFICATION Spec
INVARIANTS
    TypeOK
    OldMainsStayBuried
    AccountsAreExplained
