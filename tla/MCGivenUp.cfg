CONSTANTS
    Users = {ann}
    Calls = {w1, w2, w3, w4}
    Hello = hello
    MaxPending = 4
    MaxStreams = 2
SPECIFICATION Spec
INVARIANTS GivesUpTheRefused
CHECK_DEADLOCK FALSE
