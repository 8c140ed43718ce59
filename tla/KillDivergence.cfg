CONSTANTS
    Workers = {w1, w2}
    Conns = {c1, c2}
    Sessions = {s1, s2}
    Users = {alice}
    LogonIds = {7}
    None = None
    IPs = {ip}
    ip = ip
    NoIP = NoIP
    ThrottleMax = 1
    FailMax = 2
    FailWindow = 1
    MaxTime = 0
    NoShell = {}
    DriveUsers = {}
    LoginPaths = {}
    SuspendMax = 1
    SuspendTimeout = 0
    MountMax = 1
    ResumeFailMax = 0
    ClientIP <- MCClientIP
    AuthName <- MCAuthName
    alice = alice
    alias = alice
SYMMETRY Symmetry
SPECIFICATION Spec
PROPERTIES
    SurvivesWorkerKill
