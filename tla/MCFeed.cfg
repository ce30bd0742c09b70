CONSTANTS
    MaxFiles = 2
    MaxLength = 5
    MaxChanges = 2
    ReadBuf = 2
    EventBuf = 2
SPECIFICATION Spec
INVARIANTS
    LinesAreWhole
    NoticesRotation
    ReadsOnce
    MissedWereTorn
PROPERTIES
    LeavesNothingBehind
    AppendsAreRead
CHECK_DEADLOCK FALSE
