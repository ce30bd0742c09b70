CONSTANTS
    n1 = n1
    n2 = n2
    Nodes = {n1, n2}
    DeadThreshold = 4
    Period = 2
    BeatPeriod = 1
    MaxMissed = 1
    AgeCap = 7
    MaxAlerts = 1
SYMMETRY Exchange
SPECIFICATION Spec
INVARIANTS
    DeadIsSilent
    AliveIsFresh
    DeathsAreReported
    AlertsAreCounted
    RunningIsAlive
