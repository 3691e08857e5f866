SPECIFICATION Spec
CONSTANTS
    Schedulers = {p1, p2}
    Manuals = {m1}
    Scopes = {s1, s2}
    ColdKey = ColdKey
    Timeout = 1
    Grace = 1
    MaxClock = 1
    Absent = Absent
SYMMETRY Symmetric
INVARIANTS
    WritersExclude
PROPERTIES
    CommitsInOrder
    LiveLeaseKept
