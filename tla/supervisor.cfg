SPECIFICATION Spec
CONSTANTS
    FirstIndex <- MCFirstIndex
    Beyond = 4
    ThreadLimit = 7
    ProbesPerSleep = 2
    MaxChecks = 5
INVARIANTS
    BeliefMatchesCommand
    AtMostOneRestartAfterKey
    NoFalseLoss
    LossNoticedInTime
PROPERTIES
    NoSecondStart
    LossEndsServices
    ReturnRestoresServices
CHECK_DEADLOCK FALSE
