SPECIFICATION Spec
CONSTANTS
    Scopes = {"L", "P", "H", "G"}
    Catalog <- StageCatalog
    Configured = "L"
    Cadence <- Defaults
    Games <- StageGames
    Kickoff <- Kickoffs
    AtStart <- SourceAtStart
    Settled <- Finals
    MaxTime = 10
    LastChange = 3
    MaxChanges = 2
    MaxFaults = 1
INVARIANTS
    HotWorkPrompt
    ArchivePrompt
    BootstrapBounded
CHECK_DEADLOCK FALSE
