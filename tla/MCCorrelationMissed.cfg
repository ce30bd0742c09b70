\* Window of one second of two ticks, consensus of two nodes as in coordinator.cpp.
CONSTANTS
    n1 = n1
    n2 = n2
    n3 = n3
    ssh = ssh
    scan = scan
    NoIp = NoIp
    Nodes = {n1, n2, n3}
    Ips = {n3}
    Rules = {ssh, scan}
    Inputs <- MCInputs
    WindowSec = 1
    Threshold = 2
    TicksPerSec = 2
    MaxTime = 4
    MaxThreats = 2
SPECIFICATION Spec
INVARIANT
    EveryRecentNodeCounts
CHECK_DEADLOCK FALSE
