CONSTANTS
    n1 = n1
    n2 = n2
    ip1 = ip1
    ssh = ssh
    NoIp = NoIp
    Nodes = {n1, n2}
    Ips = {ip1}
    Rules = {ssh}
    Inputs <- MCInputs
    WindowSec = 0
    Threshold = 2
    TicksPerSec = 1
    MaxTime = 1
    MaxThreats = 2
    AlertCap = 2
    ThreatCap = 1
    InFlight = 2
    MaxSeq = 2
    MaxRestarts = 1
    MaxAgentRestarts <- MCAgentRestarts
    MaxFailures = 0
SPECIFICATION Spec
INVARIANT
    SavedThreatsAreStored
CHECK_DEADLOCK FALSE
