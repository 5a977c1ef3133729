SPECIFICATION Spec
CONSTANTS
    Main = Main
    Net = Net
    Mqtt = Mqtt
    r1 = r1
    r2 = r2
    RtmpThreads <- MCOneThread
    NoThread = NoThread
    AutoConfs <- MCAutoConfs
    AsyncSignals <- MCBothSignals
    MaxConf = 1
    MaxAsync = 1
INVARIANTS
    OnlySelfDeadlock
    StatusMeansStreaming
    UsesLatestConf
CHECK_DEADLOCK FALSE
