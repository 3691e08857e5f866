---------------------------- MODULE ForecastPage ----------------------------
(***************************************************************************)
(* The forecast of the regular season: what one simulated season adds to   *)
(* it (src/internal/simulation), the seeds it counts for the seeding page, *)
(* and what the page calls settled (forecast_certainty.go).  A model of    *)
(* the goals is any distribution: a season is drawn that keeps the results *)
(* there are and those that are fixed.                                     *)
(***************************************************************************)
EXTENDS Season

CONSTANTS
    HomePlaces,  \* the places with a home playoff game
    Iterations   \* simulated seasons; bound: so many that shares are whole

AllPlaces == 1 .. Cardinality(Teams)
ASSUME SharesAssumption == Iterations > 0 /\ \A n \in AllPlaces : Iterations % n = 0

(* classifySeasonPhase, for matches that are scheduled or completed.       *)
Phase(s) == IF Remaining(s) = {} THEN "complete" ELSE IF Played(s) = {} THEN "upcoming" ELSE "active"

(* QualificationForSnapshot and ScenarioForSnapshot.                       *)
Found(s) == claims # NoClaims /\ claims.at = s
Achieved(c) == {k \in Places : c.statuses[k].state = "clinched"}

Answered(kind) == [kind |-> kind]

-----------------------------------------------------------------------------
(* prepare and validateForecastState: only matches that remain are fixed.  *)
Fixable(s, fixed) == DOMAIN fixed \subseteq Remaining(s)

(* simulatedGames and sample: the matches played keep their scores; the    *)
(* others are drawn, a fixed one until it has the outcome it is fixed to.  *)
MayDraw(s, fixed, drawn) ==
    /\ \A f \in Played(s) : drawn[f] = s[f]
    /\ Remaining(drawn) = {}
    /\ \A f \in DOMAIN fixed : OutcomeOf(drawn[f]) = fixed[f]

(* accumulateTable: a team that is level to the end has an equal share of  *)
(* the places of its block.  A season counts for all Iterations here, as   *)
(* Run counts a season without matches left.                               *)
PlacesOf(table, t) == Placed(table, t) .. Placed(table, t) + Cardinality(Tied(table, t)) - 1
AddPositionOnly(table, t) ==                          \* a slip: the whole season for each place
    [place \in AllPlaces |-> IF place \in PlacesOf(table, t) THEN Iterations ELSE 0]
PositionShares(table, t) ==
    [place \in AllPlaces |->
        IF place \in PlacesOf(table, t) THEN Iterations \div Cardinality(Tied(table, t)) ELSE 0]

(* resultFromAccumulator: the chances of a finish, and the interval that   *)
(* leaves a tenth on either side (weightedQuantile).                       *)
Chance(shares, topK) == MapThenSumSet(LAMBDA place : shares[place], 1 .. topK)
Target(percent) == Max({1, (Iterations * percent + 99) \div 100})
WeightedQuantile(shares, percent) ==
    Min({place \in AllPlaces : Chance(shares, place) >= Target(percent)})
PositionInterval(shares) == <<WeightedQuantile(shares, 10), WeightedQuantile(shares, 90)>>

(* seedingLikelihoods asks for counts where the bracket's pairs are the    *)
(* places, newSeedingCounter accepts pairs that partner each seed once.    *)
PairsFillPlaces == DOMAIN Partner = 1 .. Playoffs
ValidPairs == \A seed \in DOMAIN Partner : Partner[seed] # seed /\ Partner[Partner[seed]] = seed

(* seedingCounter.add: a finish and its opponent in the first round, each  *)
(* only where no disciplinary points decide; 0 is outside the bracket.     *)
OwnOutcomes(s, drawn, t) == [f \in Of(t) \cap Remaining(s) |-> OutcomeOf(drawn[f])]
SeedingCount(seed, opponent, own) ==
    [seed |-> seed, opponent |-> opponent, own |-> own, seasons |-> Iterations]
SeedHolder(table, seed) == {u \in Teams : Definite(table, u) /\ Placed(table, u) = seed}
CountsAt(place, table, own) ==
    IF place > Playoffs THEN {SeedingCount(0, 0, own)}
    ELSE {SeedingCount(place, u, own) : u \in SeedHolder(table, Partner[place])}
SeedingCounts(s, drawn, table, t) ==
    IF PairsFillPlaces /\ ValidPairs /\ Definite(table, t)
    THEN CountsAt(Placed(table, t), table, OwnOutcomes(s, drawn, t)) ELSE {}

(* Run: what the season drawn adds to the forecast.                        *)
RunOnce(s, drawn, table) ==
    [shares |-> [t \in Teams |-> PositionShares(table, t)],
     seedings |-> [t \in Teams |-> SeedingCounts(s, drawn, table, t)]]

-----------------------------------------------------------------------------
(* pointsEliminations, forecastCertainties: the finishes <<team, top k>>   *)
(* that are settled, whatever the visitor fixes.                           *)
Maximum(s, t) == Overall(s, t).points + 3 * Cardinality(Of(t) \cap Remaining(s))
AheadNow(s, t) == {u \in Teams \ {t} : Overall(s, u).points > Overall(s, t).points}
                                                      \* a slip: the matches left are forgotten
OutOfReach(s, t) == {u \in Teams \ {t} : Overall(s, u).points > Maximum(s, t)}
PointsEliminations(s) == {<<t, k>> \in Teams \X Places : Cardinality(OutOfReach(s, t)) >= k}
Certainty(clinched, eliminated) == [clinched |-> clinched, eliminated |-> eliminated]
ForecastCertainties(s) ==
    IF Phase(s) = "upcoming" \/ ~Found(s) THEN Certainty({}, {})
    ELSE Certainty({claims.team} \X Achieved(claims),
                   PointsEliminations(s) \cup
                      (IF claims.scenarios[Playoffs].already THEN {<<claims.team, Playoffs>>} ELSE {}))

(* forecastChances: a settled finish is exactly 100% or 0%, and nothing    *)
(* else is; who misses the playoffs has no home game and no Shield.        *)
ChanceText(share, clinched, eliminated) ==
    IF clinched THEN "100%"
    ELSE IF eliminated THEN "0%"
    ELSE IF share * 10000 >= Iterations * 9995 THEN ">99.9%"
    ELSE IF share * 10000 < Iterations * 5 THEN "<0.1%" ELSE "between"
ForecastChance(certainty, shares, t, k) ==
    ChanceText(Chance(shares, k), <<t, k>> \in certainty.clinched,
               <<t, k>> \in certainty.eliminated \/ <<t, Playoffs>> \in certainty.eliminated)
ForecastChances(certainty, shares, t) ==
    [shield |-> ForecastChance(certainty, shares, t, 1),
     home |-> ForecastChance(certainty, shares, t, HomePlaces),
     playoffs |-> ForecastChance(certainty, shares, t, Playoffs)]

(* forecast: a season that is over hands over to the playoffs.             *)
ForecastAnswer(s, fixed) ==
    IF Phase(s) = "complete" THEN Answered(IF fixed = None THEN "playoffs forecast" ELSE "stale")
    ELSE IF ~Fixable(s, fixed) THEN Answered("stale")
    ELSE [kind |-> "forecast", at |-> s, fixed |-> fixed, certainty |-> ForecastCertainties(s)]
=============================================================================
