\* Two commands on one deployment instance, with crashes, orphaned kubectl
\* processes, and requests that are lost, refused or late.
SPECIFICATION SpecEither
CONSTANTS
    Ops = {"a", "b"}
    Host <- Together
    None = None
    MaxUid = 2
    MaxStatus = 0
PROPERTIES LockHolds WritesByHolder
CHECK_DEADLOCK FALSE
