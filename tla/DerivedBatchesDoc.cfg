SPECIFICATION Spec
CONSTANTS
    p1 = p1
    p2 = p2
    Callers = {c1, c2}
    Scheduled = {c1}
    Host <- Apart
    Snapshots = {s1}
    LateSnapshots = {}
    MaxClock = 1
    MaxWrites = 1
    MaxTroubles = 1
    Absent = Absent
PROPERTIES
    PruneKeepsScenarios
