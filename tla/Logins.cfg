CONSTANTS
    Workers = {w1, w2}
    Conns = {c1, c2}
    Sessions = {s1, s2}
    Users = {alice, alias, root}
    LogonIds = {7}
    None = None
    IPs = {ip}
    ip = ip
    NoIP = NoIP
    ThrottleMax = 1
    FailMax = 1
    FailWindow = 1
    MaxTime = 0
    NoShell = {root}
    DriveUsers = {}
    LoginPaths = {"nla", "auto"}
    SuspendMax = 1
    SuspendTimeout = 0
    MountMax = 1
    ResumeFailMax = 0
    ClientIP <- MCClientIP
    AuthName <- MCAuthName
    alice = alice
    alias = alias
SYMMETRY Symmetry
SPECIFICATION Spec
INVARIANTS
    LoginGetsOwnSession
