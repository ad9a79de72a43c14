SPECIFICATION DeskSpec
CONSTANTS
    s1 = s1
    p = p
    q = q
    r = r
    Square <- TheSquare
    Stored = {0, 1}
    Gate <- TheGate
    Capacity = 2
    MaxEvery = 2
    MaxGroup = 2
    MaxGates = 3
    Road <- TheRoad
    Elsewhere <- TheElsewhere
    Cars = 2
    Course <- TheCourses
    Laps = {0, 1}
    TowTicks = 1
    MaxTick = 4
    Frames = 2
    RowsMax = 2
    EntriesMax = 3
    Versions <- TheVersions
    Daily <- TheDaily
    Own = {"o1", r}
    Who = {"ann"}
    Distances = {1, 2}
    Results <- TheResults
    Bounds <- TheBounds
CHECK_DEADLOCK FALSE
INVARIANTS
    TrackComesThrough
    OneFrameAtATime
    PlacesAreRight
    ShelfStands
PROPERTIES
    EditIsHistory
    RaceStands
    WhatShipsIsHere
