\* A window of no whole second, in half-second ticks: an age of no tick is inside it,
\* of one only by the truncation, of two or three outside.  Consensus of two nodes as in coordinator.cpp.
CONSTANTS
    n1 = n1
    n2 = n2
    n3 = n3
    ssh = ssh
    scan = scan
    NoIp = NoIp
    Nodes = {n1, n2, n3}
    Ips = {n3}
    Rules = {ssh, scan}
    Inputs <- MCInputs
    WindowSec = 0
    Threshold = 2
    TicksPerSec = 2
    MaxTime = 3
    MaxThreats = 2
SPECIFICATION Spec
INVARIANT
    ExactConsensus
PROPERTIES
    OthersNameTheKey
    OutranksTrigger
    ImplementsConsensus
CHECK_DEADLOCK FALSE
