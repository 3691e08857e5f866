SPECIFICATION FairSpec
CONSTANTS
    Models = {"poisson", "xg"}
    Handlers = {"a"}
    Slots = 1
    Capacity = 1
    MaxInputs = 1
INVARIANTS
    AnswersCurrent
    ExecutorBounded
    ClosedQuiet
PROPERTIES
    SignalEnds
CHECK_DEADLOCK FALSE
