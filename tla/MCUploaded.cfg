\* One user: the delete that lands after the upload it should precede.
CONSTANTS
    ann = ann  bob = bob
    Emails = {ann}
    Null = Null
    Default = Default
    MaxPicks = 2
    MaxForms = 0
SPECIFICATION Spec
INVARIANT UploadedMeansStored
