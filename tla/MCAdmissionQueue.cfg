\* Two requests of one caller, a model that is removed, lost replies, expired
\* waits and refused submissions; or three callers in two bands and no failure.
SPECIFICATION Spec
CONSTANTS
    r1 = r1  r2 = r2  r3 = r3  f1 = f1  p1 = p1
    o1 = o1  o2 = o2  o3 = o3  user = user  admin = admin
    NoLimit = NoLimit
    NoConfig = NoConfig
    None = None
INVARIANTS CapacityIsOwned
PROPERTIES GrantsAreSound
CHECK_DEADLOCK FALSE
