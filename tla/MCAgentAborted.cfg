CONSTANTS
    MaxLines = 1
    MaxBoots = 1
    CallsFail = FALSE
SPECIFICATION Spec
PROPERTY
    AbortedSwapStaysOnBuiltin
CHECK_DEADLOCK FALSE
