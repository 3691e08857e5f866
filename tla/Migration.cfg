SPECIFICATION MCSpec
CONSTANTS
    a = a
    b = b
    c = c
    m1 = m1
    m2 = m2
    Absent = Absent
    Garbled = Garbled
    Procs = {o1, o2}
    Payloads <- AllPayloads
    Answers <- SomeAnswers
    Teams = {a, b, c}
    Games = {m1, m2}
    Pairs <- TwoPairs
    Details <- SomeDetails
    Goals <- OnlyBase
    Stamps = {1, 2}
    Values = {1}
    Splits = {}
    MaxTime = 1
    Deadlines = {}
    TeamBatches <- AllTeams
    Expected = Absent
    BracketSlots = 0
    InOrder = TRUE
INVARIANTS
    VenueTrue
    UpgradedComplete
PROPERTIES
    UpgradeWhole
    LedgerKept
