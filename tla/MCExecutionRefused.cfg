\* One execution on a pod that is listed while its first claim is still on the way.
SPECIFICATION SpecExecution
CONSTANTS
    r1 = r1  f1 = f1  p1 = p1  p2 = p2  o1 = o1  o2 = o2  user = user
    Ids = {r1}
    MaxUnits = 1
    Callers = {}
    Anonymous = Anonymous
    Roles = {user}
    Frontends = {f1}
    Pods = {p1}
    Owners = {o1}
    Configs <- OneConfig
    NoLimit = NoLimit
    NoConfig = NoConfig
    None = None
    MaxVersion = 1
    MaxOwnerEpoch = 1
    MaxEngineEpoch = 1
    ListedFirst = FALSE
INVARIANTS RefusalIsDefinite
CHECK_DEADLOCK FALSE
