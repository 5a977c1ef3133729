SPECIFICATION Spec
CONSTANTS
    m1 = m1
    m2 = m2
    m3 = m3
    MqttThreads <- MCThreads
    First = m1
INVARIANTS
    StopReachesClient
    StopIsSpent
PROPERTIES
    NoClientLeavesUnasked
    StopEndsClients
    StartIsServed
CHECK_DEADLOCK FALSE
