SPECIFICATION Spec
CONSTANTS
    Node = {n1, n2}
    MaxActiveNodes = 1
    MaxRestarts = 1
    LateCreates = FALSE
    None = None
SYMMETRY Symmetric
INVARIANTS
    BillingIsCounted
    NobodyLeftBehind
PROPERTIES
    DestroyedStays
    FleetIsCounted
