SPECIFICATION FairSpec
CONSTANTS
    NotHeard = NotHeard
    NoNetwork = NoNetwork
    Nothing = Nothing
    Names <- MCNames
    Passwords <- MCPasswords
    Factory <- MCFactory
    LongTexts <- MCLong
    FdLimit = 2
    Orders <- MCOrders
    Deltas <- MCDeltas
INVARIANTS
    StoredIsChosen
    AudioReleased
PROPERTIES
    SetUpOnce
    HeadMovesAsMeant
    KeyWasPressed
    Boots
