\* A sign-in reply that comes after the sign-out.
CONSTANTS
    ann = ann  bob = bob
    Emails = {ann}
    Nobody = Nobody
    Unread = Unread
    MaxDepth = 5
    MaxOuts = 2
SPECIFICATION Spec
PROPERTY
    SignedOutStaysSignedOut
