------------------------------- MODULE Season -------------------------------
(***************************************************************************)
(* A season under the claims of src/internal/clinching and                 *)
(* src/internal/scenarios: at some point the proofs, the next-slate and    *)
(* the rest-of-season scenarios of one team are published, and the         *)
(* matches that were left are then played.                                 *)
(***************************************************************************)
EXTENDS ScenarioContract

CONSTANTS
    Starts,       \* the seasons at publication: from matches to scores
    Targets,      \* the teams claims are published for
    Places,       \* the place of each achievement, the playoffs last
    Partner,      \* the seed pairs, a function on seeds
    Scores,       \* the scores remaining matches may have
    Deadlines,    \* after how many nodes a slate search is cut off
    SummaryGames  \* bound: seasons with more matches left get no summaries

VARIABLES season, claims

vars == <<season, claims>>

Playoffs == Max(Places)
NoClaims == [team |-> 0]

Summarized(s) == SeasonSlateReady(s) /\ Cardinality(Remaining(s)) <= SummaryGames

(* What one recalculation of the qualification and scenario batches says   *)
(* of team t: statuses and no-help paths, then the scenarios.              *)
ClaimsBy(s, t, ends, statuses, scenarios) ==
    [team |-> t,
     at |-> s,
     statuses |-> statuses,
     noHelp |-> NoHelpBatch(s, t, Places, FixtureOrder(Remaining(s))),
     slate |-> Slate(s),
     scenarios |-> [k \in Places |-> SlateScenario(s, t, Places, k, Playoffs, statuses, ends)],
     season |-> scenarios,
     rivals |-> IF ~Summarized(s) THEN <<>>
                ELSE [k \in Places |-> RivalSummary(s, t, k, scenarios[k])],
     seeding |-> IF ~Summarized(s) THEN [seeds |-> {}, limited |-> TRUE]
                 ELSE Seeding(s, t, Playoffs, Partner, Ranks(s, Playoffs)),
     elimination |-> IF ~SeasonSlateReady(s) THEN [already |-> FALSE, cubes |-> {}]
                     ELSE SeasonElimination(s, t, Playoffs, statuses[Playoffs])]
SeasonScenarioBatch(s, t, statuses) ==
    IF ~SeasonSlateReady(s) THEN <<>>
    ELSE Tabulated([k \in Places |-> SeasonScenario(s, t, k, statuses[k])])
ClaimsOf(s, t, ends, statuses) ==
    ClaimsBy(s, t, ends, statuses, SeasonScenarioBatch(s, t, statuses))
Claims(s, t, ends) ==
    ClaimsOf(s, t, ends, Tabulated([k \in Places |-> Status(s, t, k, None, "never")]))

Init == season \in Starts /\ claims = NoClaims

Publish(t) ==
    /\ claims = NoClaims
    /\ \E ends \in Deadlines : claims' = Claims(season, t, ends)
    /\ UNCHANGED season

(* The next match of the schedule is played.                               *)
Play(f) ==
    /\ claims # NoClaims
    /\ f = Head(FixtureOrder(Remaining(season)))
    /\ \E score \in Scores : season' = [season EXCEPT ![f] = score]
    /\ UNCHANGED claims

Next == \/ \E t \in Targets : Publish(t)
        \/ \E f \in Remaining(season) : Play(f)

Spec == Init /\ [][Next]_vars

-----------------------------------------------------------------------------
Published == claims # NoClaims
Over == Remaining(season) = {}
Clinched(k) == Completed(season, claims.team, k).state = "clinched"
Missed(k) == Completed(season, claims.team, k).state = "not_clinched"

(* Every completion of the results of s, by points alone.                  *)
Completions(s) == [Remaining(s) -> Outcomes]
FinalPoints(s, a) == LET known == a @@ Settled(s) IN [u \in Teams |-> Points(known, u)]
AheadOn(points, t) == {u \in Teams : points[u] > points[t]}
LevelOn(points, t) == {u \in Teams \ {t} : points[u] >= points[t]}

CutoffAgrees(p, k) ==
    \A threshold \in {p.frontier, p.frontier + 1} : Cutoff(p, threshold, k) = (Oracle(p, threshold) >= k)

(* The bounds, witnesses and optimisations of the status proof agree with  *)
(* all completions of the season: clinched where nobody can reach the team *)
(* k times over, not clinched where some completion puts k teams above it. *)
(* The cutoff search agrees with the exact search it replaced.  A no-help  *)
(* path is enough and as short as it can be.                               *)
StatusesExact ==
    (Published /\ season = claims.at /\ ~Over) => \A k \in Places :
        LET t == claims.team
            path == claims.noHelp[k]
            own == OwnMatches(season, t, FixtureOrder(Remaining(season)))
            points == {FinalPoints(season, a) : a \in Completions(season)}
            Fewer == Status(season, t, k, WinningNext(t, own, Cardinality(path[2]) - 1), "never").state
        IN /\ claims.statuses[k].state =
                 IF \E p \in points : Cardinality(AheadOn(p, t)) >= k THEN "not_clinched"
                 ELSE IF \A p \in points : Cardinality(LevelOn(p, t)) < k THEN "clinched"
                 ELSE "unresolved"
           /\ path[1] = "guaranteed" => Fewer # "clinched"
           /\ CutoffAgrees(Prepared(season, t, None), k)

(* What is said of the next slate comes true at its end: a clause that     *)
(* holds is a clinch whatever scores and later matches bring, and unless   *)
(* a limitation says so no clinch by points is missing from the clauses or *)
(* from the necessary results.  An elimination is one.                     *)
SlateOver ==
    /\ Published /\ claims.slate # {}
    /\ Played(season) = Played(claims.at) \cup claims.slate
SlateResults == [f \in claims.slate |-> OutcomeOf(season[f])]
SlateScenariosHold ==
    SlateOver => \A k \in Places :
        LET r == claims.scenarios[k]
            fixed == SlateResults
            listed == \E cube \in r.clauses : Covers(cube, fixed)
            sure == \A a \in Completions(season) :
                       Cardinality(LevelOn(FinalPoints(season, a), claims.team)) < k
            safe == r.necessary = <<>> \/ Covers(r.necessary, fixed)
            out == r.already \/ \E cube \in r.eliminations : Covers(cube, fixed)
        IN /\ listed => (sure /\ safe)
           /\ r.state \in {"can_clinch", "cannot_clinch", "tiebreak_dependent"} /\ r.limitation # "budget"
                 => (sure => listed)
           /\ out => \A a \in Completions(season) :
                        Cardinality(AheadOn(FinalPoints(season, a), claims.team)) >= k

(* The rest-of-season clauses are the season's outcome: scores that meet   *)
(* one of them put the team in by the official table, and without a        *)
(* limitation every way in is listed.                                      *)
SeasonScenariosHold ==
    (Published /\ Over /\ claims.season # <<>>) => \A k \in Places :
        LET r == claims.season[k]
            results == [f \in Remaining(claims.at) |-> OutcomeOf(season[f])]
            listed == \E c \in r.clauses : ClauseHolds(c, season)
            path == claims.noHelp[k]
        IN /\ listed => Clinched(k)
           /\ path[1] = "guaranteed" /\ (\A f \in path[2] : results[f] = WinFor(f, claims.team))
                 => Clinched(k)
           /\ (r.state \in {"can_clinch", "cannot_clinch"} /\ r.limitation = "none") =>
                 /\ Clinched(k) => listed
                 /\ Clinched(k) => Covers(r.necessary, results)
           /\ claims.elimination.already \/ (\E cube \in claims.elimination.cubes : Covers(cube, results))
                 => Missed(Playoffs)

(* Everything a recalculation publishes is accepted by the store.          *)
BatchAccepted ==
    LET left == Remaining(claims.at)
        Slated(k) == [already |-> claims.scenarios[k].already, cubes |-> claims.scenarios[k].eliminations]
        Left(k) == IF k = Playoffs THEN claims.elimination ELSE NoElimination
    IN /\ \A k \in Places : ValidSlateResult(claims.scenarios[k], Slated(k), claims.slate)
       /\ \A k \in Places \ {Playoffs} : Slated(k) = NoElimination
       /\ claims.season # <<>> =>
             \A k \in Places : ValidSeasonResult(claims.season[k], Left(k), claims.team, left)
       /\ claims.rivals # <<>> =>
             \A k \in Places : /\ ValidSummary(claims.rivals[k], claims.team, left)
                               /\ claims.rivals[k].published => claims.season[k].state = "can_clinch"
       /\ ValidSeeding(claims.seeding, claims.team, left)

(* The summaries restate the same outcome.  A row of the rival table for   *)
(* the team's own results says exactly when it clinches, unless it is      *)
(* withheld; seed clauses give the final place, and the place and opponent *)
(* of the final table are among what the actual results leave of the       *)
(* seeding.  With the clauses, they meet the contract without which the    *)
(* store rejects the batch of every team.                                  *)
Results == [f \in Remaining(claims.at) |-> OutcomeOf(season[f])]
EndsBehind(n) ==
    LET taken == Points([f \in n.games |-> Results[f]], n.rival)
        won == With(Results, n.rival, n.games, 1)
    IN \/ taken <= n.max
       \/ \E tie \in n.ties : /\ tie.points = taken /\ tie.wins = won
                             /\ \/ tie.verdict = "ahead"
                                \/ ConditionHolds(tie.condition, season, Remaining(claims.at))
Placed(table, u) == Cardinality(Ahead(table, u)) + 1
Definite(table, u) == Tied(table, u) = {u}

RivalsHold(k, clinched) ==
    LET rows == {st \in claims.rivals[k].statements : Covers([f \in DOMAIN st.own |-> {st.own[f]}], Results)}
        Says(st) == Cardinality({n \in st.rivals : EndsBehind(n)}) >= st.need
    IN /\ \A st \in rows : ~st.withheld => (Says(st) <=> clinched)
       /\ rows = {} => ~clinched
SeedsHold(t, table, place, left) ==
    /\ \A finish \in left : \A c \in finish.clauses :
          ClauseHolds(c, season) => IF finish.seed = 0 THEN place > Playoffs
                                    ELSE place = finish.seed /\ Definite(table, t)
    /\ (~claims.seeding.limited /\ place > Playoffs) => \E finish \in left : finish.seed = 0
    /\ \A u \in Teams \ {t} :
          (/\ ~claims.seeding.limited /\ place <= Playoffs
           /\ Definite(table, t) /\ Definite(table, u) /\ Placed(table, u) = Partner[place]) =>
              \E finish \in left : finish.seed = place /\ \E o \in finish.opponents : o.team = u
SummariesHold ==
    /\ (Published /\ season = claims.at) => BatchAccepted
    /\ (Published /\ Over /\ claims.rivals # <<>>) =>
        /\ \A k \in Places : claims.rivals[k].published => RivalsHold(k, Clinched(k))
        /\ \A table \in {Table("total", season)} :
              SeedsHold(claims.team, table, Placed(table, claims.team),
                        FilterSeeding(claims.seeding.seeds, Results))
=============================================================================
