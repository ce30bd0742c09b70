CONSTANTS
    Capacity = 2
    MaxPublish = 5
    MaxStarts = 2
SPECIFICATION Spec
INVARIANTS
    TypeOK
    Conservation
    SocketOpenWhileSending
    StopDrains
PROPERTIES
    IsLossyChannel
    StopReturns
    AcceptedIsSent
\* The publisher may rest for good: stopped, or with nobody publishing.
CHECK_DEADLOCK FALSE
