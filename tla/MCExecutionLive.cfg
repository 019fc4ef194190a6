\* One execution under fair scheduling, with crashes of the pod and of the frontend.
SPECIFICATION LiveExecution
CONSTANTS
    r1 = r1  f1 = f1  p1 = p1  p2 = p2  o1 = o1  o2 = o2  user = user
    Ids = {r1}
    MaxUnits = 1
    Callers = {}
    Anonymous = Anonymous
    Roles = {user}
    Frontends = {f1}
    Pods = {p1}
    Owners = {o1}
    Configs <- OneConfig
    NoLimit = NoLimit
    NoConfig = NoConfig
    None = None
    MaxVersion = 2
    MaxOwnerEpoch = 2
    MaxEngineEpoch = 2
    ListedFirst = TRUE
PROPERTIES ClaimsEnd
CHECK_DEADLOCK FALSE
