CONSTANTS
    MaxLines = 1
    MaxBoots = 1
    CallsFail = FALSE
SPECIFICATION Spec
PROPERTY
    StopJoinsCleanly
CHECK_DEADLOCK FALSE
