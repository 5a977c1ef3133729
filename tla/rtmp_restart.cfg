SPECIFICATION Spec
CONSTANTS
    Main = Main
    Net = Net
    Mqtt = Mqtt
    r1 = r1
    r2 = r2
    RtmpThreads <- MCRtmpThreads
    NoThread = NoThread
    AutoConfs <- MCAllAuto
    AsyncSignals <- MCNoSignals
    MaxConf = 1
    MaxAsync = 0
INVARIANTS
    StoppedStaysStopped
    FollowsMain
    NoSelfDeadlock
PROPERTIES
    ActivationsEnd
CHECK_DEADLOCK FALSE
