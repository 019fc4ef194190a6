SPECIFICATION Spec
CONSTANT None = None
CONSTANTS
    i1 = i1
    i2 = i2
    v1 = v1
    v2 = v2
    v3 = v3
SYMMETRY Symmetric
INVARIANTS
    OriginIsIntact
    StartedIsComplete
    PreparationIsWhole
PROPERTIES
    
    AnsweringChoiceIsKept
CHECK_DEADLOCK FALSE
