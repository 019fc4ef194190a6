SPECIFICATION Spec
CONSTANT None = None
CONSTANTS
    one = one
    two = two
    dcgm = dcgm
    mx = mx
SYMMETRY Symmetric
INVARIANTS
    ServedModelsAreIntact
    RefusedOnlyForOthers
    
PROPERTIES
    LaterCommandWins
    
    UsedIsKept
    
    SettingsStay
    
    AliasesTheRequestedClaim
CHECK_DEADLOCK FALSE
