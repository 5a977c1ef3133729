SPECIFICATION ConfSpec
CONSTANTS
    s1 = s1
    c1 = c1
    NotJson = NotJson
    Starters <- MCStarters
    Clients <- MCClients
    Fields <- MCFields
    Values <- MCValues
    Text <- MCText
    Byte <- MCByte
    Chunk = 2
    BufferSize = 6
INVARIANTS
    FileHoldsUpdates
    OnlyDisturbedReadsCrash
    ReadsFitBuffer
PROPERTIES
    ImplementsRegister

