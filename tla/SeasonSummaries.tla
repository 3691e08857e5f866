-------------------------- MODULE SeasonSummaries --------------------------
(***************************************************************************)
(* What src/internal/scenarios derives from the rest-of-season search:     *)
(* the clinch restated one rival at a time, elimination by points, and the *)
(* places a team can still finish at with their first-round opponents.     *)
(***************************************************************************)
EXTENDS SeasonScenarios

(* GenerateSeason, for one place; baseline is the persisted status.        *)
SeasonScenario(s, t, k, baseline) ==
    LET none == [state |-> "already_clinched", clauses |-> {}, limitation |-> "none",
                 necessary |-> <<>>, disciplinary |-> FALSE]
    IN IF baseline.state = "clinched" THEN none
       ELSE IF baseline.state = "unresolved" /\ baseline.method # "unproved_score_tiebreak"
       THEN [none EXCEPT !.state = "unresolved", !.limitation = baseline.method]
       ELSE Answer(Question(s, t, k, "atMost", FALSE))

(* GenerateSeason, elimination: a points search of its own.                *)
EliminatedBy(s, cubes) ==
    IF CubeOf(Remaining(s), None) \in cubes THEN [already |-> TRUE, cubes |-> {}]
    ELSE [already |-> FALSE, cubes |-> cubes]
SeasonElimination(s, t, playoffs, baseline) ==
    IF baseline.state = "clinched" THEN [already |-> FALSE, cubes |-> {}]
    ELSE EliminatedBy(s, {c.cube : c \in Answer(Question(s, t, playoffs, "beyond", TRUE)).clauses})

-----------------------------------------------------------------------------
MaxRivalOwnMatches == 4
MaxRivalOtherMatches == 6

(* rivalVerdict: a rival level on points, with the results of both fixed.  *)
LevelVerdict(t, u, r, more) ==
    LET One(conditions) == CHOOSE c \in conditions : TRUE
        When(levelWins) ==
            IF levelWins /\ "behind" \notin r.states THEN Verdict("ahead", t, u, <<>>)
            ELSE IF levelWins THEN [verdict |-> "conditional", condition |-> One(r.aheadOrLevel)]
            ELSE IF "ahead" \notin r.states THEN Verdict("behind", t, u, <<>>)
            ELSE [verdict |-> "conditional", condition |-> One(r.ahead)]
    IN IF more # 0 THEN When(more > 0)
       ELSE IF ~r.h2hOpen THEN When(r.h2hNow > 0)
       ELSE Verdict("conditional", t, u, Append(One(r.ahead).levels, AtLeast("headToHead", 1 - r.h2hNow)))
RivalVerdict(s, fixed, t, u) ==
    IF ~CanLevel(s, fixed, t, u) THEN Pair(s, fixed, t, u)
    ELSE LevelVerdict(t, u, Regions(s, fixed, t, u),
                      HeadToHeadPoints(s, fixed, t, u) - HeadToHeadPoints(s, fixed, u, t))

LevelPasses(s, own, t, u, free, tie) ==      \* a slip: level is not behind
    [rival |-> u, games |-> free, max |-> tie, ties |-> {}, consistent |-> TRUE, level |-> FALSE]

(* rivalNeed: the most points that leave the rival behind, and the records *)
(* level on points with what decides them.                                 *)
NeedOf(u, free, tie, ties, level) ==
    LET ahead == \A r \in ties : r.verdict = "ahead"
    IN [rival |-> u, games |-> free,
        max |-> IF ahead THEN tie ELSE tie - 1,
        ties |-> IF ahead THEN {} ELSE {r \in ties : r.verdict # "behind"},
        consistent |-> \A a, b \in ties : a.wins = b.wins => a = b,
        level |-> level]
RivalNeed(s, own, t, u, free, tie) ==
    LET level == {a \in [free -> Outcomes] : Points(a, u) = tie}
        Told(a, v) == [points |-> tie, wins |-> With(a, u, free, 1),
                       verdict |-> v.verdict, condition |-> v.condition]
    IN NeedOf(u, free, tie, {Told(a, RivalVerdict(s, a @@ own, t, u)) : a \in level},
              \E a \in level : CanLevel(s, a @@ own, t, u))

(* rivalRow: t against every other team, its own results fixed.            *)
RowOf(own, above, needs) ==
    LET behind == {n \in needs : n.max >= 3 * Cardinality(n.games)}
        ahead == {n \in needs \ behind : n.max < 0 /\ n.ties = {}}
        Level(set) == Cardinality({n \in set : n.level})
    IN [own |-> own, rivals |-> (needs \ behind) \ ahead,
        ahead |-> above + Cardinality(ahead),
        level |-> Level(needs), levelAhead |-> Level(ahead), levelBehind |-> Level(behind),
        fits |-> \A n \in needs : n.consistent /\ Cardinality(n.games) <= MaxRivalOtherMatches]
RivalRow(s, t, own) ==
    LET known == own @@ Settled(s)
        Free(u) == (Of(u) \cap Remaining(s)) \ Of(t)
        TiePoints(u) == Points(known, t) - Points(known, u)
        below == {u \in Teams \ {t} : TiePoints(u) > 3 * Cardinality(Free(u))}
        above == {u \in Teams \ {t} : TiePoints(u) < 0}
    IN RowOf(own, Cardinality(above),
             {RivalNeed(s, own, t, u, Free(u), TiePoints(u)) : u \in (Teams \ {t}) \ (below \cup above)})

(* rivalSummary, for one row: a set of at most one statement.  Where two   *)
(* rivals could be level with t, only what holds either way is stated.     *)
Statement(row, k) ==
    LET slots == k - 1
        doubtful == row.level > 1
        need == Cardinality(row.rivals) + row.ahead - slots
        State(n, rivals, withheld) == [own |-> row.own, need |-> n, rivals |-> rivals, withheld |-> withheld]
    IN IF doubtful
       THEN IF row.ahead - row.levelAhead > slots THEN {}
            ELSE {State(0, {}, row.ahead + Cardinality(row.rivals) + row.levelBehind > slots)}
       ELSE IF need > Cardinality(row.rivals) THEN {}
       ELSE IF need <= 0 THEN {State(0, {}, FALSE)} ELSE {State(need, row.rivals, FALSE)}

(* rivalRows and rivalSummary: no summary where nothing could be stated.   *)
SummaryOf(own, rows, k, scenario) ==
    LET statements == UNION {Statement(row, k) : row \in rows}
    IN IF /\ scenario.state = "can_clinch"
          /\ Cardinality(own) <= MaxRivalOwnMatches
          /\ \A row \in rows : row.fits
          /\ \E st \in statements : ~st.withheld
       THEN [published |-> TRUE, statements |-> statements]
       ELSE [published |-> FALSE, statements |-> {}]
RivalSummary(s, t, k, scenario) ==
    LET own == Of(t) \cap Remaining(s)
    IN SummaryOf(own, {RivalRow(s, t, a) : a \in [own -> Outcomes]}, k, scenario)

-----------------------------------------------------------------------------
(* feasibleSeedCubes: the results for which some scores meet every         *)
(* condition.  The code decides it by exact elimination over the rationals *)
(* and branching to integers; here scores up to MaxGoals are tried.        *)
Scorelines == (0 .. MaxGoals) \X (0 .. MaxGoals)
Involved(s, conditions) ==
    Remaining(s) \cap UNION {Of(c.team) \cup Of(c.rival) : c \in conditions}
Solves(e, a, conditions) ==
    /\ \A f \in DOMAIN a : OutcomeOf(e[f]) = a[f]
    /\ \A c \in conditions : ConditionHolds(c, e, DOMAIN a)
Feasible(a, conditions) == \E e \in [DOMAIN a -> Scorelines] : Solves(e, a, conditions)
FeasibleCubes(s, clause) ==
    LET games == Involved(s, clause.conditions)
    IN IF clause.conditions = {} THEN {clause.cube}
       ELSE {[f \in Remaining(s) |-> IF f \in games THEN {a[f]} ELSE clause.cube[f]] :
                a \in {a \in [games -> Outcomes] : /\ \A f \in games : a[f] \in clause.cube[f]
                                                  /\ Feasible(a, clause.conditions)}}

(* member.finish on cubes without conditions.                              *)
PossibleResults(s, cubes) ==
    {c.cube : c \in Merged({[cube |-> cube, conditions |-> {}] : cube \in cubes}, Remaining(s))}

Both(a, b) == [cube |-> [f \in DOMAIN a.cube |-> a.cube[f] \cap b.cube[f]],
               conditions |-> a.conditions \cup b.conditions]

(* GenerateSeeding: exact places of every team, joined by seed pair; seed  *)
(* 0 is a finish outside the playoffs.                                     *)
Ranks(s, places) ==
    LET Rank(u, seed) == Answer(IF seed = 0 THEN Question(s, u, places, "beyond", FALSE)
                                ELSE Question(s, u, seed, "exact", FALSE))
        Row(u, seed, found) == [team |-> u, seed |-> seed, clauses |-> found.clauses,
                                limited |-> found.limitation # "none"]
    IN {Row(u, seed, Rank(u, seed)) : u \in Teams, seed \in 0 .. places}
Finishing(ranks, u, seed) == UNION {r.clauses : r \in {r \in ranks : r.team = u /\ r.seed = seed}}

Opponents(s, own, ranks, t, seed) ==
    LET Joint(u) == {c \in {Both(a, b) : a \in own, b \in Finishing(ranks, u, seed)} :
                        \A f \in DOMAIN c.cube : c.cube[f] # {}}
        Cubes(u) == UNION {FeasibleCubes(s, c) : c \in Joint(u)}
        found == {[team |-> u, results |-> PossibleResults(s, Cubes(u))] : u \in Teams \ {t}}
    IN {o \in found : o.results # {}}

SeedingBy(s, t, places, partner, ranks, own) ==
    LET Finish(seed) ==
            [seed |-> seed, clauses |-> own[seed],
             opponents |-> IF seed = 0 THEN {} ELSE Opponents(s, own[seed], ranks, t, partner[seed]),
             results |-> IF seed = 0 THEN PossibleResults(s, UNION {FeasibleCubes(s, c) : c \in own[0]})
                         ELSE {}]
        limiting == {r \in ranks : r.team = t \/ (r.seed > 0 /\ own[partner[r.seed]] # {})}
    IN [seeds |-> {finish \in {Finish(seed) : seed \in 0 .. places} :
                      finish.opponents # {} \/ finish.results # {}},
        limited |-> \E r \in limiting : r.limited]
Seeding(s, t, places, partner, ranks) ==
    SeedingBy(s, t, places, partner, ranks,
              Tabulated([seed \in 0 .. places |->
                            {c \in Finishing(ranks, t, seed) : FeasibleCubes(s, c) # {}}]))

(* FilterSeeding: what is left when some results are assumed.              *)
Fitting(cubes, fixed) == {cube \in cubes : \A f \in DOMAIN fixed : fixed[f] \in cube[f]}
FilterSeeding(seeds, fixed) ==
    LET Filtered(finish) ==
            [finish EXCEPT
                !.clauses = {c \in @ : \A f \in DOMAIN fixed : fixed[f] \in c.cube[f]},
                !.results = Fitting(@, fixed),
                !.opponents = {o \in {[o EXCEPT !.results = Fitting(@, fixed)] : o \in @} : o.results # {}}]
    IN {finish \in {Filtered(finish) : finish \in seeds} :
            finish.clauses # {} /\ (finish.opponents # {} \/ finish.results # {})}
=============================================================================
