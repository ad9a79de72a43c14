SPECIFICATION ClientSpec
CONSTANTS
    h = h
    x = x
    y = y
    z = z
    Host = h
    Joiner = {x, y, z}
    Nowhere = Nowhere
    Zeroes = Zeroes
    MaxPlayers = 4
    MaxGreets = 2
    Window = 3
    MessageLimit = 6
    Track = {"x"}
    Draft = "draft"
    Driver = {"ann"}
    MaxRaces = 2
SYMMETRY Symmetry
INVARIANTS
    LobbyIsLive
CHECK_DEADLOCK FALSE
