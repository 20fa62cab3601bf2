CONSTANTS
    Users = {ann, nobody}
    Aborted = aborted
    MaxChanges = 3
    MaxBreaks = 1
SPECIFICATION FairSpec
INVARIANTS TypeOK OwnToken ResumeMeetsStarting NeverStuck
PROPERTIES SettlesOnTheUser
CHECK_DEADLOCK FALSE
