SPECIFICATION Spec
CONSTANTS
    Absent = Absent
    m1 = m1
    m2 = m2
    t1 = t1
    t2 = t2
    t3 = t3
    Matches = {m1, m2}
    Teams = {t1, t2, t3}
    Sides <- MCSides
    Values = {1}
    Catalogs <- MCCatalogs
    Inventories <- MCInventories
    PenaltyRows <- MCPenaltyRows
    Attempts = 2
    Verified = FALSE
    Rooted = TRUE
    MaxRuns = 2
    Catalog <- Public
    Configurable <- Nameable
    Observable <- Held
    Years = {2024, 2025, 2026, 2027}
INVARIANTS RegistryFollowsYear AuditsTell RunCalculates
PROPERTIES RegistryNeverUndone SplitsKept
CHECK_DEADLOCK FALSE
