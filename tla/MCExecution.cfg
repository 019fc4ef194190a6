\* One request through two stages on one pod: lost and late commands, two frontend
\* and two engine processes; or on a pod that may serve before it is listed.
SPECIFICATION SpecEither
CONSTANTS
    r1 = r1  f1 = f1  p1 = p1  p2 = p2  o1 = o1  o2 = o2  user = user
    Ids = {r1}
    MaxUnits = 1
    Callers = {}
    Anonymous = Anonymous
    Roles = {user}
    Frontends = {f1}
    Pods = {p1}
    Owners = {o1, o2}
    Configs <- OneConfig
    NoLimit = NoLimit
    NoConfig = NoConfig
    None = None
    MaxVersion = 2
    MaxOwnerEpoch = 2
    MaxEngineEpoch = 2
    ListedFirst = TRUE
SYMMETRY OwnerSymmetry
INVARIANTS NativeWorkIsCharged ListedHandoffIsHeld ListedClaimsAreBacked
CHECK_DEADLOCK FALSE
