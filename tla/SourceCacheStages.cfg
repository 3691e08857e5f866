SPECIFICATION StagesSpec
CONSTANTS
    a = a
    b = b
    c = c
    d = d
    Absent = Absent
    Teams = {a, b, c, d}
    Games = {m1, m2}
    Pairs <- CupPairs
    Details = {k1}
    Goals <- AllGoals
    Stamps = {1}
    Values = {}
    Splits = {}
    MaxTime = 2
    Deadlines = {}
    TeamBatches <- TwoBatches
    Expected <- CupExpected
    BracketSlots = 0
    InOrder = TRUE
INVARIANTS
    CupComplete
    SeasonReadable
PROPERTIES
    BracketWoken
