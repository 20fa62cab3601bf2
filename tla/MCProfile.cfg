\* Two users of one device, two presses of the camera, one registration.
CONSTANTS
    ann = ann  bob = bob
    Emails = {ann, bob}
    Null = Null
    Default = Default
    MaxPicks = 2
    MaxForms = 1
SPECIFICATION Spec
INVARIANTS
    TypeOK
    FlagHasUrl
    UrlWasStored
