-------------------------- MODULE ScenarioContract --------------------------
(***************************************************************************)
(* The contract a scenario result must meet to be stored                   *)
(* (src/internal/scenarios: Result.Validate; src/internal/cache:           *)
(* ReplaceScenario).  One result that breaks it loses the batch of all     *)
(* teams.  Counts of assignments and texts are left out.                   *)
(***************************************************************************)
EXTENDS SeasonSummaries

(* validateConditions: known matches, each with some outcomes.             *)
ValidConditions(cube, games) == DOMAIN cube \subseteq games /\ \A f \in DOMAIN cube : cube[f] # {}

(* validateScoreConditions: one comparison for each rival, with levels in  *)
(* the order of the tiebreakers.                                           *)
MeasureRank == [difference |-> 1, goals |-> 2, headToHead |-> 3]
RivalIn(c, t) == IF c.rival = t THEN c.team ELSE c.rival
Ordered(levels) ==
    /\ levels # <<>>
    /\ \A i \in 2 .. Len(levels) : MeasureRank[levels[i - 1].measure] < MeasureRank[levels[i].measure]
ValidScores(conditions, t) ==
    \A c \in conditions :
       /\ t \in {c.team, c.rival} /\ c.team # c.rival
       /\ \A d \in conditions : RivalIn(d, t) = RivalIn(c, t) => d = c
       /\ Ordered(c.levels)

(* RivalSummary.validate.                                                  *)
ValidTie(tie, n, t) ==
    /\ tie.points = n.max + 1 /\ tie.wins >= 0
    /\ tie.verdict = "conditional" =>
          /\ tie.condition.team = t /\ tie.condition.rival = n.rival
          /\ ValidScores({tie.condition}, t)
ValidNeed(n, t, games) ==
    /\ n.rival # t /\ n.games \subseteq games /\ n.max >= -1
    /\ \A tie \in n.ties : ValidTie(tie, n, t)
ValidStatement(st, t, games) ==
    /\ DOMAIN st.own \subseteq games
    /\ st.need \in 0 .. Cardinality(st.rivals) /\ (st.need = 0) = (st.rivals = {})
    /\ st.withheld => st.need = 0
    /\ \A n \in st.rivals : ValidNeed(n, t, games) /\ \A m \in st.rivals : m.rival = n.rival => m = n
ValidSummary(summary, t, games) ==
    summary.published => /\ summary.statements # {}
                         /\ \A st \in summary.statements : ValidStatement(st, t, games)

(* SeedingResult.validate.                                                 *)
ValidOpponent(o, finish, t, games) ==
    /\ o.team # t /\ o.results # {}
    /\ \A p \in finish.opponents : p.team = o.team => p = o
    /\ \A cube \in o.results : ValidConditions(cube, games)
ValidFinish(finish, t, games) ==
    /\ finish.clauses # {}
    /\ (finish.seed = 0) = (finish.opponents = {}) /\ (finish.seed = 0) = (finish.results # {})
    /\ \A o \in finish.opponents : ValidOpponent(o, finish, t, games)
    /\ \A cube \in {c.cube : c \in finish.clauses} \cup finish.results : ValidConditions(cube, games)
    /\ \A c \in UNION {c.conditions : c \in finish.clauses} : ValidScores({c}, c.team)
ValidSeeding(seeding, t, games) ==
    \A finish \in seeding.seeds :
       /\ ValidFinish(finish, t, games)
       /\ \A other \in seeding.seeds : other.seed = finish.seed => other = finish

(* Result.Validate, for the two definitions of a slate.  out is the        *)
(* elimination a result carries, which only playoff results may.           *)
NoElimination == [already |-> FALSE, cubes |-> {}]
ValidElimination(r, out, games) ==
    /\ out.already => out.cubes = {} /\ r.state # "can_clinch"
    /\ r.state = "already_clinched" => out = NoElimination
    /\ \A cube \in out.cubes : ValidConditions(cube, games)
ValidState(r) ==
    /\ r.state = "already_clinched" => r.clauses = {}
    /\ r.state = "can_clinch" => r.clauses # {}
ValidSlateResult(r, out, games) ==
    /\ ValidState(r) /\ ValidElimination(r, out, games)
    /\ \A cube \in r.clauses \cup {r.necessary} : ValidConditions(cube, games)
ValidSeasonResult(r, out, t, games) ==
    /\ ValidState(r) /\ ValidElimination(r, out, games)
    /\ ValidConditions(r.necessary, games)
    /\ \A c \in r.clauses : ValidConditions(c.cube, games) /\ ValidScores(c.conditions, t)
=============================================================================
