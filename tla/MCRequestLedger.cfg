\* Two requests of one caller compete for one place, or one request has two
\* candidates on two pods; lost, late and repeated commands of two executions, two
\* frontend processes and two engine processes.
SPECIFICATION SpecBounded
CONSTANTS
    r1 = r1  r2 = r2  f1 = f1  f2 = f2  p1 = p1  p2 = p2
    o1 = o1  o2 = o2  alice = alice  user = user
    Ids = {r1, r2}
    MaxUnits = 2
    Callers = {alice}
    Anonymous = Anonymous
    Roles = {user}
    Frontends = {f1}
    Pods = {p1, p2}
    Owners = {o1, o2}
    Configs <- AllConfigs
    NoLimit = NoLimit
    NoConfig = NoConfig
    None = None
    MaxVersion = 1
    MaxOwnerEpoch = 2
    MaxEngineEpoch = 2
SYMMETRY LedgerSymmetry
INVARIANTS CountersExact RemainingExact LiveWorkHasOwner EngineWorkIsLocated
PROPERTIES EngineWorkStaysCharged LimitsRespected ConclusionIsFinal
CHECK_DEADLOCK FALSE
