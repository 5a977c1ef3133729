SPECIFICATION Spec
CONSTANTS
    rtmp1 = rtmp1
    rtmp2 = rtmp2
    mqtt = mqtt
    Nobody = Nobody
    Callers <- MCCallers
    Secret <- MCSecret
    Bodies <- MCBodies
INVARIANTS
    BuffersBelongToOwner
    OnlyOddBodiesCrash
PROPERTIES
    ImplementsService
    ServedInTheEnd
CHECK_DEADLOCK FALSE
