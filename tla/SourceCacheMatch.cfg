SPECIFICATION Spec
CONSTANTS
    a = a
    b = b
    c = c
    d = d
    Absent = Absent
    Teams = {a, b, c, d}
    Games = {m1}
    Pairs <- TwoPairs
    Details = {k1}
    Goals <- AllGoals
    Stamps = {1, 2}
    Values = {v1, v2}
    Splits = {p1}
    MaxTime = 2
    Deadlines = {}
    TeamBatches <- AllTeams
    Expected = Absent
    BracketSlots = 0
    InOrder = FALSE
INVARIANTS
    XGBelongsToPairing
    LedgersAgree
PROPERTIES
    XGOnlyImproves
    LateAnswersHarmless
