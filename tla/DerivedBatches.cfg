SPECIFICATION Spec
CONSTANTS
    p1 = p1
    p2 = p2
    Callers = {c1, c2}
    Scheduled = {c1}
    Host <- Together
    Snapshots = {s1, s2}
    LateSnapshots = {s2}
    MaxClock = 2
    MaxWrites = 2
    MaxTroubles = 1
    Absent = Absent
SYMMETRY Symmetric
INVARIANTS
    BatchFromItsSnapshot
PROPERTIES
    PublishedIsServed
    NeverDegraded
