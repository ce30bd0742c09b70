CONSTANTS
    ip1 = ip1
    alice = alice
    root = root
    Ips = {ip1}
    NoIp = NoIp
    Users = {alice, root}
    NoUser = NoUser
    Host = Host
    Shapes <- MCShapes
    Cap = 3
    SshThreshold = 3
    ScanThreshold = 2
    MinServices = 2
    Values <- MCValues
    Blank = Blank
    YearLen = 8
    Day = 2
    Zone = 1
    Saving = 1
    Summer <- MCSummer
    RuleWindow <- MCWindow
    Cooldown <- MCCooldown
    IndexSpan = 2
    Skews <- MCSkews
    MaxEvents = 4
    Boot = 13
    MaxTime = 16
SPECIFICATION Spec
PROPERTIES
    AlertsAreJustified
    BurstsAreAlerted
    CooldownsHold
    StampErrors
    ImplementsWindow
CHECK_DEADLOCK FALSE
