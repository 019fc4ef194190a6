\* Two requests of one caller under fixed settings, with fairness.
SPECIFICATION Live
CONSTANTS
    r1 = r1  r2 = r2  r3 = r3  f1 = f1  p1 = p1
    o1 = o1  o2 = o2  o3 = o3  user = user  admin = admin
    NoLimit = NoLimit
    NoConfig = NoConfig
    None = None
PROPERTIES WaitingEnds
CHECK_DEADLOCK FALSE
