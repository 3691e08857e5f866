---------------------------- MODULE ClinchingRows ----------------------------
(***************************************************************************)
(* The rows of the clinching page (src/internal/app): groups made from a   *)
(* rival summary, what is linked instead of shown, and the wording of      *)
(* score conditions and rivals' results.                                   *)
(***************************************************************************)
EXTENDS ClinchingPage

CONSTANT OversizedLimit      \* oversizedConditionLimit

-----------------------------------------------------------------------------
(* clausesForOwn: the clauses that allow a row's own results, pinned.      *)
Singletons(a) == [f \in DOMAIN a |-> {a[f]}]
ClausesForOwn(clauses, a) ==
    {[c EXCEPT !.cube = Singletons(a) @@ @] :
        c \in {c \in clauses : \A f \in DOMAIN a \cap DOMAIN c.cube : a[f] \in c.cube[f]}}

(* The groups of one result.  Where there is a rival summary                *)
(* (rivalGroupViews), one group for each row of own results, from wins to  *)
(* losses; a withheld row, and a result without a summary, falls back to   *)
(* the clauses.                                                            *)
RowGroup(st) ==
    [Group(Pinned(st.own), Nothing, Nothing, FALSE, <<"rivals", st.need, st.rivals>>, {})
        EXCEPT !.byRivals = TRUE, !.need = st.need, !.rivals = st.rivals]
FromClauses(clauses, limit) == [statement |-> {}, clauses |-> clauses, limit |-> limit]
FromRow(st, clauses) ==
    [statement |-> IF st.withheld THEN {} ELSE {st}, clauses |-> ClausesForOwn(clauses, st.own), limit |-> MaxPaths]
OwnRows(statements, lines) == SelectSeq(lines, LAMBDA a : \E st \in statements : st.own = a)
FromRows(statements, clauses, rows) ==
    [i \in DOMAIN rows |-> FromRow(CHOOSE st \in statements : st.own = rows[i], clauses)]
FromStatements(statements, clauses, t) ==
    FromRows(statements, clauses,
             OwnRows(statements, OwnLines(FixtureOrder(UNION {DOMAIN st.own : st \in statements}), t)))
GroupsFrom(parts, t, restOfSeason) ==
    FoldLeft(LAMBDA out, part :
                out \o IF part.statement # {} THEN <<RowGroup(One(part.statement))>>
                       ELSE ClauseGroups(part.clauses, t, part.limit, restOfSeason),
             <<>>, parts)
CombinedIf(byRows, t, groups) == IF byRows THEN Combined(groups, t) ELSE groups
ResultGroups(statements, clauses, t, limit, restOfSeason) ==
    CombinedIf(statements # {}, t,
               GroupsFrom(IF statements = {} THEN <<FromClauses(clauses, limit)>>
                          ELSE FromStatements(statements, clauses, t), t, restOfSeason))

-----------------------------------------------------------------------------
(* rivalViews: needs that speak of results alone, in the same match, are   *)
(* one requirement when all of them must hold.                             *)
RivalView(need, results) == [need |-> need, result |-> results]
Plain(n) == Cardinality(n.games) = 1 /\ \A tie \in n.ties : tie.verdict = "ahead"
FixtureMask(n) ==
    {o \in Outcomes : LET points == Takes(One(n.games), o, n.rival)
                      IN points <= n.max \/ \E tie \in n.ties : tie.points = points}
SameFixture(rivals, n) == {m \in rivals : Plain(m) /\ m.games = n.games}
BothMasks(needs) == {o \in Outcomes : \A m \in needs : o \in FixtureMask(m)}
RivalViewOf(rivals, n, all) ==
    LET together == SameFixture(rivals, n)
    IN IF all /\ Plain(n) /\ Cardinality(together) > 1 /\ BothMasks(together) # {}
       THEN RivalView({}, {Result(One(n.games), BothMasks(together))})
       ELSE RivalView({n}, {})
RivalViews(rivals, need) == {RivalViewOf(rivals, n, need = Cardinality(rivals)) : n \in rivals}

(* rivalView: the phrase for the rival's points, read as the totals it     *)
(* allows; tieRecordText: the records a phrase for a tie stands for.       *)
PhrasePoints(matches, limit) ==
    CASE limit < 0 -> {}
      [] limit = 0 -> {0}                              \* loses (all)
      [] matches = 1 /\ limit > 0 -> {0, 1}            \* draws or loses
      [] matches = 2 /\ limit >= 4 -> 0 .. 4           \* doesn't win both matches
      [] OTHER -> 0 .. limit                           \* earns at most
RecordSaid(tie, matches, points, wins) ==
    CASE matches = 0 -> TRUE
      [] matches \in {1, 2} -> points = tie.points
      [] OTHER -> points = tie.points /\ wins = tie.wins

-----------------------------------------------------------------------------
(* Presentation and oversizedGroup: how a group is shown, and whether it   *)
(* is only linked to a list of its scenarios.                              *)
RivalState(g) == g.byRivals /\ g.need > 0
Deep(views) == \E v \in views : \E n \in v.need : \E tie \in n.ties : tie.verdict # "ahead"
Ways(v) == IF v.need = {} THEN 1
           ELSE Cardinality(One(v.need).ties) + (IF One(v.need).max >= 0 \/ One(v.need).ties = {} THEN 1 ELSE 0)
RivalsDense(g, views) ==
    \/ g.need < Cardinality(g.rivals) /\ Cardinality(views) > 2
    \/ \E v \in views : Ways(v) > 2
    \/ Deep(views) \/ MapThenSumSet(Ways, views) > 3
RECURSIVE DenseExpression(_)
DenseExpression(e) ==
    \/ Cardinality(e.alternatives) > 2
    \/ \E r \in e.conditions : IsScore(r)
    \/ \E a \in e.alternatives : DenseExpression(a)
RECURSIVE Conditions(_)
Conditions(e) == Cardinality(e.conditions) + MapThenSumSet(Conditions, e.alternatives)
Presentation(g) ==
    IF g.over THEN "overflow"
    ELSE IF RivalState(g) THEN IF RivalsDense(g, RivalViews(g.rivals, g.need)) THEN "dense" ELSE "compact"
    ELSE IF g.grouped # {} THEN "dense"
    ELSE IF g.summary = Nothing THEN "certain"
    ELSE IF Conditions(g.summary) > 3 \/ DenseExpression(g.summary) THEN "dense" ELSE "compact"

LevelsOf(n) == MapThenSumSet(LAMBDA tie : IF tie.verdict = "ahead" THEN 0 ELSE Len(tie.condition.levels), n.ties)
RivalSize(v) == 1 + MapThenSumSet(LAMBDA n : Cardinality(n.ties) + LevelsOf(n), v.need)
SummarySize(groups) ==
    MapThenSumSet(LAMBDA s : 1 + IF s.rival # {} THEN RivalSize(RivalView(s.rival, {})) ELSE Size(s.expression),
                  groups)
GroupSize(g) ==
    IF RivalState(g) THEN MapThenSumSet(RivalSize, RivalViews(g.rivals, g.need))
    ELSE IF g.grouped # {} THEN SummarySize(One(g.grouped))
    ELSE IF g.over THEN Size(g.help) ELSE Size(g.summary)
Oversized(g) == GroupSize(g) > OversizedLimit

(* clausesForGroup: the scenarios behind the link, each for one choice of  *)
(* the team's own results and enough on its own.                           *)
OwnFits(own, a) == \A r \in own : Matched(r, a)
ClausesForGroup(clauses, g) ==
    LET ids == IF g.own # {} THEN GamesOf(g.own) ELSE g.free
    IN IF ids = {} THEN clauses
       ELSE UNION {ClausesForOwn(clauses, a) :
                      a \in {a \in [ids -> Outcomes] : OwnFits(g.own, a) \/ (g.other # {} /\ OwnFits(g.other, a))}}

-----------------------------------------------------------------------------
(* The clinching handler, one result of a team: entry is what the batch    *)
(* says of it, path its no-help path.  A path without help stands in a     *)
(* list of its own where the team cannot clinch yet or it goes beyond the  *)
(* slate; on the card it is repeated unless the groups already show it.    *)
RepeatsWin(groups, t, f) ==
    \E i \in DOMAIN groups : LET g == groups[i] IN
        /\ IsSingle(g) /\ One(g.own).games = {f} /\ One(g.own).allowed = {WinFor(f, t)}
        /\ ~g.over /\ g.summary = Nothing /\ g.help = Nothing /\ g.rivals = {} /\ g.grouped = {}
Guaranteed(path) == path[1] = "guaranteed" /\ path[2] # {}
StandsApart(entry, path, slate, restOfSeason) ==
    /\ Guaranteed(path)
    /\ entry.state # "can_clinch" \/ (~restOfSeason /\ ~(path[2] \subseteq slate))
OnCard(groups, t, path, slate, restOfSeason) ==
    /\ Guaranteed(path)
    /\ restOfSeason \/ path[2] \subseteq slate
    /\ ~(Cardinality(path[2]) = 1 /\ RepeatsWin(groups, t, One(path[2])))
    /\ ~restOfSeason \/ groups = <<>>

(* The other teams' results that every way asks for; a single group of the *)
(* rest of the season states them itself.                                  *)
Needed(entry, groups, t, restOfSeason) ==
    IF restOfSeason /\ Len(groups) = 1 THEN {}
    ELSE {Result(f, entry.necessary[f]) :
             f \in {f \in DOMAIN entry.necessary \ Of(t) : entry.necessary[f] # Outcomes}}

(* The note that scenarios are missing from a card.                        *)
Incomplete(entry) ==
    \/ entry.limitation = "budget"
    \/ entry.limitation = "tiebreak" /\ (entry.statements = {} \/ \E st \in entry.statements : st.withheld)

(* An oversized group of the rest of the season is a link to its scenarios.*)
ListBehind(entry, g, restOfSeason) ==
    IF restOfSeason /\ Oversized(g) THEN {ClausesForGroup(entry.clauses, g)} ELSE {}
Card(entry, groups, t, path, slate, restOfSeason) ==
    [groups |-> groups,
     lists |-> Tabulated([i \in DOMAIN groups |-> ListBehind(entry, groups[i], restOfSeason)]),
     necessary |-> Needed(entry, groups, t, restOfSeason),
     noHelp |-> OnCard(groups, t, path, slate, restOfSeason),
     noted |-> Incomplete(entry)]
PageRow(entry, groups, t, path, slate, restOfSeason) ==
    [apart |-> StandsApart(entry, path, slate, restOfSeason),
     card |-> IF entry.state # "can_clinch" THEN {}
              ELSE {Card(entry, groups, t, path, slate, restOfSeason)}]

-----------------------------------------------------------------------------
(* scoreConditionParts: the branches a cascade is worded as, each a list   *)
(* of comparisons of final totals.  now is the team's lead on a measure.   *)
Comparison(measure, lead, exact) == [measure |-> measure, lead |-> lead, exact |-> exact]
LevelDelta(level, now) == now[level.measure] + level.min
Compared(level, now) ==
    Comparison(level.measure, LevelDelta(level, now) - (IF level.exact THEN 1 ELSE 0), level.exact)
Equality(level, now) == Comparison(level.measure, LevelDelta(level, now) - 1, TRUE)
Branch(levels, i, now) == {Equality(levels[j], now) : j \in 1 .. i - 1} \cup {Compared(levels[i], now)}
Branches(levels, now) ==
    {Branch(levels, i, now) : i \in {i \in DOMAIN levels : ~levels[i].exact \/ i = Len(levels)}}

(* individualMargin: a goal difference condition as "wins by so many", if  *)
(* the team has one win and the rest of both teams' matches are draws;     *)
(* the empty set if it cannot be said.  assumed maps matches to outcomes.  *)
AssumedWin(assumed, t, f) == Allowed(assumed, f) = {WinFor(f, t)}
OpenMatches(assumed, games) == {f \in games : Allowed(assumed, f) # {"draw"}}
MarginOn(min, headToHead) == IF headToHead THEN (min + 1) \div 2 ELSE min
MarginAtLeast(min) == IF min < 1 THEN {} ELSE {min}
OnePlainLevel(levels) ==
    Len(levels) = 1 /\ Head(levels).measure = "difference" /\ ~Head(levels).exact
MarginBy(c, mine, theirs, assumed) ==
    IF /\ Cardinality(mine) = 1 /\ AssumedWin(assumed, c.team, One(mine))
       /\ theirs \subseteq mine
    THEN MarginAtLeast(MarginOn(Head(c.levels).min, mine \subseteq Of(c.rival))) ELSE {}
IndividualMargin(c, s, assumed) ==
    IF ~OnePlainLevel(c.levels) THEN {}
    ELSE MarginBy(c, OpenMatches(assumed, Of(c.team) \cap Remaining(s)),
                  OpenMatches(assumed, Of(c.rival) \cap Remaining(s)), assumed)

(* presentScore: without a margin of its own, a longer condition still     *)
(* needs the goal difference of its first level.                           *)
FirstBound(c) ==
    [c EXCEPT !.levels = <<[Head(c.levels) EXCEPT !.min = @ - 1, !.exact = FALSE]>>]
NecessaryMargin(c, s, assumed) ==
    IF IndividualMargin(c, s, assumed) # {} THEN IndividualMargin(c, s, assumed)
    ELSE IF Head(c.levels).measure = "difference" /\ (Len(c.levels) > 1 \/ Head(c.levels).exact)
    THEN IndividualMargin(FirstBound(c), s, assumed) ELSE {}
=============================================================================
