SPECIFICATION Spec
CONSTANTS
    rtmp1 = rtmp1
    rtmp2 = rtmp2
    mqtt = mqtt
    Nobody = Nobody
    Callers <- MCCallers
    Secret <- MCSecret
    Bodies <- MCBodies
INVARIANTS
    AnyPiecesAreRead
CHECK_DEADLOCK FALSE
