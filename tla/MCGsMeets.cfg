SPECIFICATION FairWire
CONSTANTS
    h = h
    a = a
    Host = h
    Joiner = {a}
    Nowhere = Nowhere
    Zeroes = Zeroes
    MaxPlayers = 2
    MaxGreets = 2
    Window = 3
    MessageLimit = 8
PROPERTIES
    EveryoneMeets
CHECK_DEADLOCK FALSE
