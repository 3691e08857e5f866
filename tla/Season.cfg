CONSTANTS
    Teams <- MCTeams
    Schedule <- MCSchedule
    Window = 5
    MaxLevelRivals = 2
    MaxAlternatives = 64
    MaxGoals = 3
    Starts <- MCStarts
    Targets = {1, 2}
    Places = {1, 2}
    Partner <- MCPartner
    Scores <- MCScores
    Deadlines = {3, 100}
    SummaryGames = 2
    Cups <- MCCups
    MaxPaths = 64
    MaxSummary = 3
    OversizedLimit = 4
    PageInputs <- MCPages
    Queries <- MCQueries
    HomePlaces = 1
    Iterations = 12
SPECIFICATION BothSpec
INVARIANTS StatusesExact SlateScenariosHold SeasonScenariosHold SummariesHold BracketTrue PlayoffOddsExact PagesKeepMeaning OutlooksTrue
CHECK_DEADLOCK FALSE
