SPECIFICATION Spec
CONSTANTS
    p1 = p1
    p2 = p2
    Key = Key
    Nobody = Nobody
    Panners <- MCPanners
    PanLen = 2
    KeyLen = 3
    MaxAnswer = 3
    MaxRequests = 3
INVARIANTS
    PortHasOneOwner
    KeyReadsOwnAnswer
PROPERTIES
    AccessEnds
CHECK_DEADLOCK FALSE
