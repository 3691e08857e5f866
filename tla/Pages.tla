-------------------------------- MODULE Pages --------------------------------
(***************************************************************************)
(* The pages of a running season (src/internal/app): the marks beside a    *)
(* team in the standings, the forecast, the two views of the clinching     *)
(* page, and the seeding page.  A request reads the season for the frame   *)
(* of the page and, for the clinching pages, once more for the contents;   *)
(* what is stored is found only under the snapshot that was read.          *)
(***************************************************************************)
EXTENDS ForecastPage, SeedingPage

CONSTANT Queries     \* what the pages are asked for: [view, fixed]

VARIABLE page

NoPage == [kind |-> "none"]

-----------------------------------------------------------------------------
(* loadSeasonPageFor: qualificationViews and eliminationViews mark the     *)
(* team in the standings.                                                  *)
Marks(clinched, eliminated) == [kind |-> "standings", clinched |-> clinched, eliminated |-> eliminated]
SeasonPage ==
    IF Phase(season) = "upcoming" \/ ~Found(season) THEN Marks({}, FALSE)
    ELSE Marks(Achieved(claims), claims.scenarios[Playoffs].already)

-----------------------------------------------------------------------------
(* What a batch says of place k: the next slate, or the rest of the season *)
(* with its rival summary.                                                 *)
AsClauses(cubes) == {[cube |-> cube, conditions |-> {}] : cube \in cubes}
StatementsFor(c, k) == IF c.rivals = <<>> THEN {} ELSE c.rivals[k].statements
EntryOf(r, clauses, statements) ==
    [state |-> r.state, clauses |-> clauses, statements |-> statements,
     necessary |-> r.necessary, limitation |-> r.limitation]
Entry(c, k, restOfSeason) ==
    IF restOfSeason THEN EntryOf(c.season[k], c.season[k].clauses, StatementsFor(c, k))
    ELSE EntryOf(c.scenarios[k], AsClauses(c.scenarios[k].clauses), {})
Elimination(c, k, restOfSeason) ==
    IF restOfSeason THEN IF k = Playoffs THEN c.elimination ELSE NoElimination
    ELSE [already |-> c.scenarios[k].already, cubes |-> c.scenarios[k].eliminations]

Limit(restOfSeason) == IF restOfSeason THEN MaxPaths ELSE MaxSummary
RowFor(c, entry, k, restOfSeason) ==
    PageRow(entry, ResultGroups(entry.statements, entry.clauses, c.team, Limit(restOfSeason), restOfSeason),
            c.team, c.noHelp[k], c.slate, restOfSeason)
EliminationRow(elimination, t, restOfSeason) ==
    [already |-> elimination.already,
     groups |-> IF elimination.already THEN <<>>
                ELSE ClauseGroups(AsClauses(elimination.cubes), t, Limit(restOfSeason), restOfSeason)]

(* highestClinchedRows: the team's best certain place implies the others.  *)
Highest(places) == {k \in places : \A j \in places : k <= j}

(* The score conditions of a view: comparisons of final totals, and a win  *)
(* by so many under the results the condition is listed with               *)
(* (presentScenarioGroups, presentScore).                                  *)
NeedTies(c, k) == UNION {UNION {n.ties : n \in st.rivals} : st \in StatementsFor(c, k)}
JudgesOf(c, k) ==
    UNION {clause.conditions : clause \in c.season[k].clauses}
    \cup {tie.condition : tie \in {tie \in NeedTies(c, k) : tie.verdict # "ahead"}}
LeadNow(c, s) == [m \in {"difference", "goals", "headToHead"} |-> NowLead(m, s, c.team, c.rival)]
Worded(c, s) == [condition |-> c, branches |-> Branches(c.levels, LeadNow(c, s))]
Margined(path, c, s) ==
    [path |-> {r \in path : ~IsScore(r)}, condition |-> c,
     exactly |-> IndividualMargin(c, s, path), atLeast |-> NecessaryMargin(c, s, path)]
MarginsOf(clause, s) == {Margined(PathOf(clause), c, s) : c \in clause.conditions}
Judgements(c, k) ==
    [worded |-> {Worded(condition, c.at) : condition \in JudgesOf(c, k)},
     margins |-> {m \in UNION {MarginsOf(clause, c.at) : clause \in c.season[k].clauses} :
                     m.exactly \cup m.atLeast # {}}]

ClinchingView(c, restOfSeason) ==
    [kind |-> "clinching", restOfSeason |-> restOfSeason,
     clinched |-> Highest(Achieved(c)),
     rows |-> Tabulated([k \in Places |-> RowFor(c, Entry(c, k, restOfSeason), k, restOfSeason)]),
     eliminations |-> Tabulated([k \in Places |->
                          EliminationRow(Elimination(c, k, restOfSeason), c.team, restOfSeason)]),
     scores |-> IF restOfSeason THEN Tabulated([k \in Places |-> Judgements(c, k)]) ELSE <<>>]

-----------------------------------------------------------------------------
(* renderSeeding: the places left under the assumed results, by the team's *)
(* next own results, and the conditions of each place that can be chosen.  *)
SeedingColumn(column, order, t) ==
    [combos |-> column.combos, cells |-> column.cells, heading |-> ColumnHeading(column.combos, order, t)]
SeedingPlace(finish, t) == [clauses |-> finish.clauses, groups |-> SeedingGroups(finish.clauses, t)]
SeedingPlaces(filtered, t) ==
    Tabulated([seed \in {n.seed : n \in filtered} |->
                  SeedingPlace(CHOOSE n \in filtered : n.seed = seed, t)])
SeedingBoard(filtered, fixed, order, t) ==
    [kind |-> "seeding", fixed |-> fixed, order |-> order,
     guaranteed |-> GuaranteedFinishes(filtered),
     places |-> SeedingPlaces(filtered, t),
     columns |-> {SeedingColumn(column, order, t) : column \in Grid(filtered, fixed, order, t)}]
RenderSeeding(c, fixed, found) ==
    IF ~(DOMAIN fixed \subseteq Remaining(season)) THEN Answered("bad request")
    ELSE IF ~found \/ c.seeding.seeds = {} THEN Answered("pending")
    ELSE SeedingBoard(FilterSeeding(c.seeding.seeds, fixed), fixed, OwnNext(season, c.team, fixed), c.team)

-----------------------------------------------------------------------------
(* clinching, up to its first read of the season ...                       *)
Begin(query) ==
    /\ page = NoPage
    /\ page' = IF Phase(season) = "complete" THEN Answered("unavailable")
               ELSE [kind |-> "loading", query |-> query]
    /\ UNCHANGED vars

(* ... and from the second on.  There is a rest-of-season view in the last *)
(* two matchdays; on decision day it is the next slate's.  Its batch is a  *)
(* row of its own, which may be missing.                                   *)
DecisionDay(c) == SeasonSlateReady(season) /\ c.slate = Remaining(season)
AsksSeeding(query) == SeasonSlateReady(season) /\ query.view = "seeding"
RestOfSeason(c, query) ==
    DecisionDay(c) \/ (SeasonSlateReady(season) /\ query.view \in {"rest-of-season", "seeding"})

Contents(c, query, found) ==
    IF AsksSeeding(query) THEN RenderSeeding(c, query.fixed, found)
    ELSE IF RestOfSeason(c, query) /\ ~found THEN Answered("pending")
    ELSE ClinchingView(c, RestOfSeason(c, query))
Respond ==
    /\ page.kind = "loading"
    /\ \/ ~Found(season) /\ page' = Answered("pending")
       \/ Found(season) /\ \E found \in BOOLEAN : page' = Contents(claims, page.query, found)
    /\ UNCHANGED vars

ShowSeason == page = NoPage /\ page' = SeasonPage /\ UNCHANGED vars
ShowForecast(fixed) ==
    /\ page = NoPage
    /\ page' = ForecastAnswer(season, fixed)
    /\ UNCHANGED vars

(* The world goes on while a page is loading or read.  Bounds: requests    *)
(* come once something is published, when it is new or the season is over; *)
(* one match at most is stored between the two reads; an answer that shows *)
(* nothing is not read.                                                    *)
New == Published /\ season = claims.at
Store ==
    /\ \/ page = NoPage
       \/ page.kind = "loading" /\ New
       \/ page.kind \in {"standings", "clinching", "seeding", "forecast"}
    /\ Next
    /\ UNCHANGED page

Ask(query) == IF query.view = "forecast" THEN ShowForecast(query.fixed) ELSE Begin(query)
PagesNext ==
    \/ Store
    \/ Respond
    \/ (New \/ (Published /\ Over)) /\ (ShowSeason \/ \E query \in Queries : Ask(query))
=============================================================================
