SPECIFICATION Spec
CONSTANT None = None
PROPERTIES
    OrphansAreRecovered
    SlotIsFreed
    WorkEnds
CHECK_DEADLOCK FALSE
