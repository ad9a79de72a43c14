SPECIFICATION ClientSpec
CONSTANTS
    h = h
    x = x
    y = y
    z = z
    Host = h
    Joiner = {x, y, z}
    Nowhere = Nowhere
    Zeroes = Zeroes
    MaxPlayers = 4
    MaxGreets = 2
    Window = 3
    MessageLimit = 6
    Track = {"x"}
    Draft = "draft"
    Driver = {"ann"}
    MaxRaces = 3
SYMMETRY Symmetry
INVARIANTS
    OneResultEach
    WhoIsWho
    ReadyIsWhole
    RefusedForCause
PROPERTIES
    NewRaceIsNew
    WhatWorksStands
    ImplementsDatagrams
CHECK_DEADLOCK FALSE
