SPECIFICATION ServerSpec
CONSTANTS
    NoOne = NoOne
    Hash = {stock, sent}
    Stock = {stock}
    Key = {k1, k2, k3}
    stock = stock
    sent = sent
    k1 = k1
    k2 = k2
    k3 = k3
    m1 = m1
    m2 = m2
    Remote = {m1, m2}
    SlotOf <- SlotOfEach
    Name <- Names
    Spare <- SpareFor
    Word = {"ann", "ann-1"}
    Secret = {"x"}
    MaxStep = 2
    Typed <- TypedOn
    Kept = {1}
    Driven <- Races
    Lifetime = 1
    MaxUp = 3
    MaxTokens = 3
    MaxNow = 1
    MaxChunks = 3
    ChunkLen = 2
    a = a
    b = b
    c = c
    d = d
    Address = {a, b, c, d}
    Guest <- OneOrTwo
    Passer <- Knocking
    MaxAnswers <- Answers
    Nobody = NoOne
    MaxSeats = 2
    Tunnels = 3
    MaxKnocks = 1
    Lossy = TRUE
    MaxPost = 1
INVARIANTS
    OneSeatEach
    SameGround
    SeenByThoseItIsFor
    CodesOpenOnce
    TimesAreEarned
PROPERTIES
    FirstClaimStands
    PresentKeepsTunnel
CHECK_DEADLOCK FALSE
