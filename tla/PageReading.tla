----------------------------- MODULE PageReading -----------------------------
(***************************************************************************)
(* What a reader makes of the pages: a page is read in a world             *)
(*     w = [results, truths]                                               *)
(* of results and of the score conditions that hold, and compared with the *)
(* clauses it was made from and with the season that follows.  Beside the  *)
(* pages of the running season, pages of given clauses are drawn.          *)
(***************************************************************************)
EXTENDS Pages

CONSTANT PageInputs      \* the pages drawn apart: [team, clauses, limit, combos]

(* A page of given clauses, and a heading of given own results.            *)
GivenPage(input) == [kind |-> "given", input |-> input]
GivenHeading(combos, order, t) ==
    IF combos = {} THEN Heading({}, {})
    ELSE ColumnHeading(SelectSeq(OwnLines(order, t), LAMBDA a : a \in combos), order, t)
DrawnPage(input) ==
    [kind |-> "drawn", input |-> input,
     groups |-> ClauseGroups(input.clauses, input.team, input.limit, TRUE),
     heading |-> GivenHeading(input.combos, FixtureOrder(UNION {DOMAIN a : a \in input.combos}), input.team)]
GivenInit == page \in {GivenPage(input) : input \in PageInputs}
DrawGiven == page.kind = "given" /\ page' = DrawnPage(page.input)

-----------------------------------------------------------------------------
(* What a group says.                                                      *)
OwnReads(g, w) == PathHolds(g.own, w) \/ (g.other # {} /\ PathHolds(g.other, w))
Takings(n, w) == Points([f \in n.games |-> w.results[f]], n.rival)
Victories(n, w) == With(w.results, n.rival, n.games, 1)
TieReads(tie, n, w) ==
    /\ RecordSaid(tie, Cardinality(n.games), Takings(n, w), Victories(n, w))
    /\ tie.verdict = "ahead" \/ tie.condition \in w.truths
NeedReads(n, w) ==
    \/ Takings(n, w) \in PhrasePoints(Cardinality(n.games), n.max)
    \/ \E tie \in n.ties : TieReads(tie, n, w)
ViewReads(v, w) == IF v.need = {} THEN PathHolds(v.result, w) ELSE NeedReads(One(v.need), w)
ViewsRead(g, views, w) ==
    IF g.need = Cardinality(g.rivals) THEN \A v \in views : ViewReads(v, w)
    ELSE Cardinality({v \in views : ViewReads(v, w)}) >= g.need
PartsRead(parts, w) ==
    \A s \in parts : IF s.rival # {} THEN NeedReads(One(s.rival), w) ELSE ExpressionHolds(s.expression, w)
HelpReads(g, w) ==
    IF g.byRivals THEN ViewsRead(g, RivalViews(g.rivals, g.need), w)
    ELSE IF g.over THEN ExpressionHolds(g.help, w)
    ELSE IF g.grouped # {} THEN PartsRead(One(g.grouped), w)
    ELSE ExpressionHolds(g.summary, w)
Reads(groups, w) == \E i \in DOMAIN groups : OwnReads(groups[i], w) /\ HelpReads(groups[i], w)

ClauseIn(c, w) == (\A f \in DOMAIN c.cube : w.results[f] \in c.cube[f]) /\ c.conditions \subseteq w.truths
Listed(clauses, w) == \E c \in clauses : ClauseIn(c, w)

(* Every way a group may be written says the same of the other matches,    *)
(* and the list of scenarios behind it is the group.                       *)
WaysAgree(g, w) ==
    LET help == ExpressionHolds(g.help, w)
    IN /\ ~g.over => ExpressionHolds(g.summary, w) = help
       /\ PathsHold(g.paths, w) = help
       /\ g.grouped # {} => PartsRead(One(g.grouped), w) = help
       /\ Presentation(g) = "certain" => help
ToneReads(g, t) ==
    LET f == GameOf(One(g.own)) IN
    /\ Tone(g, t) = "win" => WinFor(f, t) \in Allowed(g.own, f) /\ LossFor(f, t) \notin Allowed(g.own, f)
    /\ Tone(g, t) = "loss" => WinFor(f, t) \notin Allowed(g.own, f)

(* A drawn page says of every world what its clauses say, however long the *)
(* lists and whatever they are shortened to.                               *)
Judges(input) == UNION {c.conditions : c \in input.clauses}
Worlds(input) ==
    [results : [UNION {DOMAIN c.cube : c \in input.clauses} -> Outcomes], truths : SUBSET Judges(input)]
WorldReads(clauses, groups, details, w) ==
    /\ Listed(clauses, w) <=> Reads(groups, w)
    /\ \A i \in DOMAIN groups :
          IF OwnReads(groups[i], w)
          THEN WaysAgree(groups[i], w) /\ (Listed(details[i], w) <=> ExpressionHolds(groups[i].help, w))
          ELSE ~Listed(details[i], w)
DetailsOf(clauses, groups) == Tabulated([i \in DOMAIN groups |-> ClausesForGroup(clauses, groups[i])])
DrawnReads(clauses, groups, details, worlds) ==
    \A w \in worlds : WorldReads(clauses, groups, details, w)
DrawnPageReads ==
    /\ DrawnReads(page.input.clauses, page.groups, DetailsOf(page.input.clauses, page.groups),
                  Worlds(page.input))
    /\ \A i \in DOMAIN page.groups : ToneReads(page.groups[i], page.input.team)

-----------------------------------------------------------------------------
(* A row of the clinching page, read when its matches have been played.  A *)
(* linked group is read in its list.                                       *)
CardReads(card, w) ==
    \E i \in DOMAIN card.groups :
       /\ OwnReads(card.groups[i], w)
       /\ IF card.lists[i] = {} THEN HelpReads(card.groups[i], w) ELSE Listed(One(card.lists[i]), w)
Comes(path, results) == \A f \in path[2] : f \in DOMAIN results /\ results[f] = WinFor(f, claims.team)
NoHelpReads(row, path, w) ==
    Guaranteed(path) /\ Comes(path, w.results) =>
        row.apart \/ \E card \in row.card : card.noHelp \/ CardReads(card, w)

(* At the end of the slate: a card says what the clauses do, and its       *)
(* necessary results are.                                                  *)
SlateRowReads(k, row, w) ==
    /\ \A card \in row.card :
          /\ CardReads(card, w) <=> Listed(AsClauses(claims.scenarios[k].clauses), w)
          /\ CardReads(card, w) => PathHolds(card.necessary, w)
    /\ NoHelpReads(row, claims.noHelp[k], w)
SlateEliminationReads(k, row, w) ==
    Reads(row.groups, w) <=> \E cube \in claims.scenarios[k].eliminations : Covers(cube, w.results)

(* At the end of the season: a card promises no clinch that does not come, *)
(* and without its note it misses none.                                    *)
SeasonRowReads(k, row, w) ==
    /\ \A card \in row.card :
          /\ CardReads(card, w) => Clinched(k)
          /\ Clinched(k) /\ ~card.noted => CardReads(card, w) /\ PathHolds(card.necessary, w)
    /\ NoHelpReads(row, claims.noHelp[k], w)
SeasonEliminationReads(k, row, w) == row.already \/ Reads(row.groups, w) => Missed(k)

(* What the wording of a score condition says of the final totals.         *)
FinalLead(c, measure) ==
    NowLead(measure, claims.at, c.team, c.rival) + Gain(measure, c.team, c.rival, season, Remaining(claims.at))
TotalShown(c, comparison) ==
    IF comparison.exact THEN FinalLead(c, comparison.measure) = comparison.lead
    ELSE FinalLead(c, comparison.measure) >= comparison.lead
WordingReads(worded) ==
    \E branch \in worded.branches : \A comparison \in branch : TotalShown(worded.condition, comparison)
OwnWin(m) == CHOOSE f \in Of(m.condition.team) \cap Remaining(claims.at) : AssumedWin(m.path, m.condition.team, f)
WinsBy(m, margin) == Record(season, m.condition.team, {OwnWin(m)}).difference >= margin
ScoresRead(judgements, w) ==
    /\ \A worded \in judgements.worded : WordingReads(worded) <=> worded.condition \in w.truths
    /\ \A m \in judgements.margins :
          PathHolds(m.path, w) =>
              /\ \A margin \in m.exactly : WinsBy(m, margin) <=> m.condition \in w.truths
              /\ \A margin \in m.atLeast : m.condition \in w.truths => WinsBy(m, margin)

Truths(conditions) == {c \in conditions : ConditionHolds(c, season, Remaining(claims.at))}
SeasonWorld(conditions) == [results |-> Results, truths |-> Truths(conditions)]
SlateWorld == [results |-> SlateResults, truths |-> {}]

(* A reader of the season page or of the clinching page is never told of a *)
(* clinch or an elimination that does not come, nor misses one that the    *)
(* search was able to list: grouping, merging, factoring, linking and      *)
(* rewording change nothing, and a page is made from the batch of the      *)
(* fixtures it shows, whatever is stored while it loads.                   *)
PagesKeepMeaning ==
    /\ page.kind = "drawn" => DrawnPageReads
    /\ (page.kind = "standings" /\ Over) =>
          (\A k \in page.clinched : Clinched(k)) /\ (page.eliminated => Missed(Playoffs))
    /\ (page.kind = "clinching" /\ Over) => \A k \in page.clinched : Clinched(k)
    /\ (page.kind = "clinching" /\ ~page.restOfSeason /\ SlateOver) => \A k \in Places :
          SlateRowReads(k, page.rows[k], SlateWorld) /\ SlateEliminationReads(k, page.eliminations[k], SlateWorld)
    /\ (page.kind = "clinching" /\ page.restOfSeason /\ Over) => \A k \in Places :
          \A w \in {SeasonWorld(JudgesOf(claims, k))} :
              /\ SeasonRowReads(k, page.rows[k], w)
              /\ SeasonEliminationReads(k, page.eliminations[k], w)
              /\ ScoresRead(page.scores[k], w)

-----------------------------------------------------------------------------
(* A column's heading names exactly its results, and every scenario is on  *)
(* one of the pages it is divided into.                                    *)
HeadingReads(heading, a, t) ==
    \/ \E cube \in heading.cubes : Covers(cube, a)
    \/ \E range \in heading.range : InRange(range, a, t)
HeadingExact(heading, combos, games, t) ==
    \A a \in Assignments(games) : HeadingReads(heading, a, t) <=> a \in combos
OverflowReads(overflow, paths, w) ==
    PathsHold(paths, w) =>
        /\ \A item \in overflow.always : Meets(item, w)
        /\ Cardinality({item \in overflow.some : Meets(item, w)}) >= overflow.low
Paged(number, total) ==
    /\ FirstOn(number) <= number /\ number <= LastOn(number, total)
    /\ \A next \in NextOn(number, total) : FirstOn(next) = LastOn(number, total) + 1
    /\ \A previous \in Previous(number) : LastOn(previous, total) = FirstOn(number) - 1
    /\ NextOn(number, total) = {} => LastOn(number, total) = total
DrawnSeedingReads(input, groups, previews) ==
    /\ \A w \in Worlds(input) : \A i \in DOMAIN groups : OverflowReads(previews[i], groups[i].paths, w)
    /\ input.combos # {} =>
          HeadingExact(page.heading, input.combos, UNION {DOMAIN a : a \in input.combos}, input.team)
    /\ \A number \in 1 .. Cardinality(input.clauses) : Paged(number, Cardinality(input.clauses))
Previews(groups) == Tabulated([i \in DOMAIN groups |-> SeedingOverflow(groups[i].paths)])

GroupReads(g, w) ==
    OwnReads(g.group, w) /\ IF g.overflow # {} THEN PathsHold(g.group.paths, w) ELSE HelpReads(g.group, w)
PlaceReads(p, w) ==
    /\ Listed(p.clauses, w) <=> \E i \in DOMAIN p.groups : GroupReads(p.groups[i], w)
    /\ \A i \in DOMAIN p.groups :
          /\ p.groups[i].noHelp /\ OwnReads(p.groups[i].group, w) => Listed(p.clauses, w)
          /\ \A overflow \in p.groups[i].overflow : OverflowReads(overflow, p.groups[i].group.paths, w)
PlaceJudges(places) == UNION {UNION {c.conditions : c \in places[seed].clauses} : seed \in DOMAIN places}
BoardReads(t, table, place) ==
    /\ \A seed \in page.guaranteed :
          IF seed = 0 THEN place > Playoffs ELSE place = seed /\ Definite(table, t)
    /\ (~claims.seeding.limited /\ (place > Playoffs \/ Definite(table, t))) =>
          \A count \in SeedingCounts(claims.at, season, table, t) :
              /\ Simulated(page.columns, {count}, count.seed) = {count}
              /\ MostLikely(page.columns, {count}, DOMAIN page.places) = count.seed
    /\ \A column \in page.columns :
          HeadingExact(column.heading, Range(column.combos), Range(page.order), t)
    /\ \A w \in {SeasonWorld(PlaceJudges(page.places))} :
          \A seed \in DOMAIN page.places : PlaceReads(page.places[seed], w)

(* The forecast: what it calls settled comes about whatever was fixed.  A  *)
(* season that may be simulated gives every place away once, contradicts   *)
(* nothing that is settled, and counts seeds in the pairs of the bracket   *)
(* and as the table has them.                                              *)
Settles(certainty) ==
    /\ \A <<t, k>> \in certainty.clinched : Completed(season, t, k).state = "clinched"
    /\ \A <<t, k>> \in certainty.eliminated : Completed(season, t, k).state = "not_clinched"
NoChance(text) == text = "0%" \/ text = "<0.1%"
SureChance(text) == text = "100%" \/ text = ">99.9%"
ChanceReads(text, share) == (text = "0%" => share = 0) /\ (text = "100%" => share = Iterations)
RowSimulated(chances, shares) ==
    /\ ChanceReads(chances.shield, Chance(shares, 1))
    /\ ChanceReads(chances.home, Chance(shares, HomePlaces))
    /\ ChanceReads(chances.playoffs, Chance(shares, Playoffs))
    /\ NoChance(chances.playoffs) => NoChance(chances.home) /\ NoChance(chances.shield)
    /\ SureChance(chances.shield) => SureChance(chances.playoffs)
CountsAgree(run, t) ==
    \A count \in run.seedings[t] :
        IF count.seed = 0 THEN Chance(run.shares[t], Playoffs) = 0
        ELSE /\ PositionInterval(run.shares[t]) = <<count.seed, count.seed>>
             /\ \E other \in run.seedings[count.opponent] :
                   other.opponent = t /\ other.seed = Partner[count.seed]
Simulates(certainty, run) ==
    /\ \A place \in AllPlaces : MapThenSumSet(LAMBDA t : run.shares[t][place], Teams) = Iterations
    /\ \A t \in Teams : /\ RowSimulated(ForecastChances(certainty, run.shares[t], t), run.shares[t])
                       /\ CountsAgree(run, t)

(* The seeding page is true of the season that follows, if its assumptions *)
(* are: a finish it calls guaranteed comes about; unless the search was    *)
(* limited, the cell of the results the team did have holds its place and  *)
(* opponent; the groups of a place say what its clauses say, and what is   *)
(* previewed of ways too many to list is necessary for each.  And the      *)
(* forecast is: what is settled happens, and no simulated season says      *)
(* otherwise.                                                              *)
OutlooksTrue ==
    /\ page.kind = "drawn" => DrawnSeedingReads(page.input, page.groups, Previews(page.groups))
    /\ (page.kind = "seeding" /\ Over /\ MayDraw(claims.at, page.fixed, season)) =>
          \A table \in {Table("total", season)} : BoardReads(claims.team, table, Placed(table, claims.team))
    /\ (page.kind = "forecast" /\ Over) => Settles(page.certainty)
    /\ (page.kind = "forecast" /\ Over /\ MayDraw(page.at, page.fixed, season)) =>
          Simulates(page.certainty, RunOnce(page.at, season, Table("total", season)))
=============================================================================
