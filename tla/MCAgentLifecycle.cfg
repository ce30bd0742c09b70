CONSTANTS
    MaxLines = 2
    MaxBoots = 2
    CallsFail = TRUE
SPECIFICATION Spec
INVARIANTS
    OneDetector
    ModeHasDetector
    YamlNamesMode
    ShutdownIsQuiet
    WatchFileIsRead
PROPERTIES
    SwapEnds
    ShutdownEnds
\* The process may be stopped for good.
CHECK_DEADLOCK FALSE
