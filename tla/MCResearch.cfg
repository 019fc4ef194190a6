SPECIFICATION Spec
CONSTANT None = None
INVARIANTS
    
    PoolIsConsistent
    
    
    PagesAreExact
PROPERTIES
    AffinityIsBounded
CHECK_DEADLOCK FALSE
