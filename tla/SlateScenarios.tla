--------------------------- MODULE SlateScenarios ---------------------------
(***************************************************************************)
(* The next-slate scenarios of src/internal/scenarios: which results of    *)
(* the next matches are enough for team t to clinch a place among the      *)
(* first k, and which eliminate it.  A set of result assignments is        *)
(* written as cubes: functions from the slate to allowed outcomes.         *)
(***************************************************************************)
EXTENDS Clinching

CONSTANT Window      \* the 120 hours of a kickoff-window slate

-----------------------------------------------------------------------------
(* DefineSlate: the next matchday, unless its pending matches interleave   *)
(* with others in time or it is unknown (0); then a window of kickoffs.    *)
Kickoff(f) == Schedule[f].kickoff
Matchday(f) == Schedule[f].matchday
On(day) == {f \in Matches : Matchday(f) = day}

Reliable(s, day) ==
    /\ day > 0
    /\ LET kickoffs == {Kickoff(f) : f \in On(day)} IN
       \A f \in Remaining(s) \ On(day) : Kickoff(f) < Min(kickoffs) \/ Kickoff(f) > Max(kickoffs)

Slate(s) ==
    LET seed == Head(FixtureOrder(Remaining(s))) IN
    IF Remaining(s) = {} THEN {}
    ELSE IF Reliable(s, Matchday(seed)) THEN Remaining(s) \cap On(Matchday(seed))
    ELSE {f \in Remaining(s) : Kickoff(f) < Kickoff(seed) + Window}

(* remainingMatchdays and DefineSeasonSlate: every remaining match, in the *)
(* last two matchdays only.                                                *)
MaxSeasonMatchdays == 2
RemainingMatchdays(s) ==
    IF \A f \in Remaining(s) : Matchday(f) > 0 THEN Cardinality({Matchday(f) : f \in Remaining(s)})
    ELSE Max({Cardinality(Of(t) \cap Remaining(s)) : t \in Teams})
SeasonSlateReady(s) == Remaining(s) # {} /\ RemainingMatchdays(s) <= MaxSeasonMatchdays

-----------------------------------------------------------------------------
Assignments(slate) == [slate -> Outcomes]
Covers(cube, a) == \A f \in DOMAIN cube : a[f] \in cube[f]
Covered(slate, cubes) == {a \in Assignments(slate) : \E cube \in cubes : Covers(cube, a)}
CubeOf(slate, fixed) == [f \in slate |-> IF f \in DOMAIN fixed THEN {fixed[f]} ELSE Outcomes]

(* minimizeCoverage: the maximal cubes of certified assignments.           *)
Within(small, big) == \A f \in DOMAIN small : small[f] \subseteq big[f]
Minimized(slate, certified) ==
    LET cubes == {cube \in [slate -> SUBSET Outcomes \ {{}}] : Covered(slate, {cube}) \subseteq certified}
    IN {cube \in cubes : \A other \in cubes : Within(cube, other) => other = cube}

(* Only a coverage that is neither empty nor complete is expanded, and     *)
(* the expansion alone looks at the deadline.                              *)
Expands(slate, certified) == certified \notin {{}, Assignments(slate)}

(* necessary: the outcomes some certified assignment has.                  *)
Necessary(slate, certified) == [f \in slate |-> {a[f] : a \in certified}]

-----------------------------------------------------------------------------
(* A search q: the season s, team t, place k, slate, order of its matches, *)
(* whether it tracks elimination and skips clinching, and after how many   *)
(* nodes its deadline falls.                                               *)
Now(q, fixed) == LET known == fixed @@ Settled(q.s) IN Tabulated([u \in Teams |-> Points(known, u)])
AboveCeiling(q, fixed, open) ==
    LET now == Now(q, fixed)
        ceiling == now[q.t] + 3 * Cardinality((Of(q.t) \cap open) \ DOMAIN fixed)
    IN Cardinality({u \in DOMAIN now \ {q.t} : now[u] > ceiling})

EliminationGuaranteed(q, fixed) == AboveCeiling(q, fixed, Remaining(q.s)) >= q.k
OpportunityImpossible(q, fixed) == AboveCeiling(q, fixed, q.slate) >= q.k

(* safeSetFeasible: can all of these teams stay within their capacity?     *)
RECURSIVE SafeSet(_, _)
SafeSet(games, capacity) ==
    \/ games = {}
    \/ /\ MapThenSumSet(LAMBDA u : capacity[u], DOMAIN capacity) >= 2 * Cardinality(games)
       /\ LET f == Max(games) IN
          \E o \in Outcomes :
             /\ \A u \in {Home(f), Away(f)} : capacity[u] >= Takes(f, o, u)
             /\ SafeSet(games \ {f}, [u \in DOMAIN capacity |-> IF u \in {Home(f), Away(f)}
                                                                THEN capacity[u] - Takes(f, o, u)
                                                                ELSE capacity[u]])

(* forcedPointsElimination: no completion keeps enough opponents at or     *)
(* below the most the target can still have.                               *)
ForcedElimination(q, fixed) ==
    LET now == Now(q, fixed)
        open == Remaining(q.s) \ DOMAIN fixed
        games == open \ Of(q.t)
        ceiling == now[q.t] + 3 * Cardinality(open \cap Of(q.t))
        needed == Cardinality(Teams) - q.k
        below == {u \in DOMAIN now \ {q.t} : now[u] <= ceiling}
        always == {u \in below : now[u] + 3 * Cardinality(games \cap Of(u)) <= ceiling}
        need == needed - Cardinality(always)
        Feasible(safe) == SafeSet({f \in games : Home(f) \in safe /\ Away(f) \in safe},
                                  [u \in safe |-> ceiling - now[u]])
    IN /\ needed > 0 /\ need > 0
       /\ \/ Cardinality(below) < needed
          \/ ~\E chosen \in kSubset(need, below \ always) : Feasible(always \cup chosen)

(* publishable: the proofs that do not depend on scores.                   *)
NotRefuted(status) == status.state # "not_clinched"     \* a slip
Publishable(status) ==
    status.state = "clinched" /\ status.method \in {"cheap_bound", "points_optimization"}

NothingFound ==
    [certified |-> {}, unresolved |-> {}, eliminated |-> {}, already |-> FALSE, over |-> FALSE, nodes |-> 0]

Eliminates(q, fixed, found) ==
    IF DOMAIN fixed = {} THEN [found EXCEPT !.already = TRUE]
    ELSE [found EXCEPT !.eliminated = @ \cup {CubeOf(q.slate, fixed)}]

(* The leaf of a complete assignment.  A deadline that falls inside its    *)
(* proof makes the status unresolved, like a proof that ends on a tie.     *)
Judged(q, fixed, found, status) ==
    IF Publishable(status) THEN [found EXCEPT !.certified = @ \cup {CubeOf(q.slate, fixed)}]
    ELSE IF status.state = "unresolved" THEN [found EXCEPT !.unresolved = @ \cup {fixed}]
    ELSE found
Leaf(q, fixed, found) ==
    Judged(q, fixed, found, Status(q.s, q.t, q.k, fixed, IF found.nodes = q.ends THEN "strict" ELSE "never"))

(* walk, for one achievement: depth first, home win, draw, away win.       *)
RECURSIVE Walk(_, _, _)
Walk(q, fixed, found) ==
    LET depth == Cardinality(DOMAIN fixed)
        visited == [found EXCEPT !.nodes = @ + 1]
        Try(acc, o) == Walk(q, fixed @@ (q.order[depth + 1] :> o), acc)
        Deeper == IF depth = Len(q.order) THEN visited
                  ELSE FoldLeft(Try, visited, <<"home", "draw", "away">>)
    IN IF found.over THEN found
       ELSE IF q.elimination /\ EliminationGuaranteed(q, fixed) THEN Eliminates(q, fixed, found)
       ELSE IF found.nodes >= q.ends THEN [found EXCEPT !.over = TRUE]
       ELSE IF q.elimination /\ ForcedElimination(q, fixed) THEN Eliminates(q, fixed, visited)
       ELSE IF q.skip THEN Deeper
       ELSE IF OpportunityImpossible(q, fixed) THEN visited
       ELSE IF depth = Len(q.order) THEN Leaf(q, fixed, visited)
       ELSE IF CheapClinched(q.s, q.t, q.k, fixed)
            THEN [visited EXCEPT !.certified = @ \cup {CubeOf(q.slate, fixed)}]
       ELSE Deeper

(* finishScenario and finishDiscoveredScenario.                            *)
Finished(q, found) ==
    LET certified == Covered(q.slate, found.certified)
        eliminated == Covered(q.slate, found.eliminated)
        late == found.nodes >= q.ends
        partial == \/ found.over
                   \/ late /\ Expands(q.slate, certified)
                   \/ late /\ q.elimination /\ ~found.already /\ Expands(q.slate, eliminated)
        exact == ~partial /\ found.unresolved = {}
    IN [state |-> IF certified # {} THEN "can_clinch"
                  ELSE IF partial THEN "unresolved"
                  ELSE IF found.unresolved # {} THEN "tiebreak_dependent" ELSE "cannot_clinch",
        clauses |-> IF partial THEN found.certified ELSE Minimized(q.slate, certified),
        limitation |-> IF partial THEN "budget" ELSE IF exact THEN "none" ELSE "tiebreak",
        necessary |-> Necessary(q.slate, IF exact /\ certified # {} THEN certified
                                         ELSE Assignments(q.slate)),
        already |-> found.already,
        eliminations |-> IF found.already THEN {}
                         ELSE IF partial THEN found.eliminated ELSE Minimized(q.slate, eliminated)]

-----------------------------------------------------------------------------
(* orderBatchSearchGames: matches of the target first, then those nearest  *)
(* to a place searched for, then those nearest to it on points.            *)
Distance(a, b) == IF a < b THEN b - a ELSE a - b
Position(table, u) ==
    Cardinality(Ahead(table, u)) + Cardinality({v \in Tied(table, u) : v <= u})

Smaller(a, b) == \E i \in DOMAIN a : a[i] < b[i] /\ \A j \in 1 .. i - 1 : a[j] = b[j]
Ranked(ranks) ==
    Tabulated([i \in 1 .. Cardinality(ranks) |->
                 Last(CHOOSE r \in ranks : Cardinality({e \in ranks : Smaller(e, r)}) = i - 1)])

SearchOrder(s, t, ks, slate) ==
    LET table == Table("total", s)
        Cut(u) == Min({Cardinality(Teams)} \cup {Distance(Position(table, u), k) : k \in ks})
        Gap(u) == Distance(Points(Settled(s), u), Points(Settled(s), t))
    IN Ranked({<<IF f \in Of(t) THEN 0 ELSE 1,
                 Min({Cut(u) : u \in Sides(f)}), Min({Gap(u) : u \in Sides(f)}), f>> : f \in slate})

NoScenario(state, limitation) ==
    [state |-> state, clauses |-> {}, limitation |-> limitation, necessary |-> <<>>,
     already |-> FALSE, eliminations |-> {}]

(* GenerateBatch, the scenario of place k among the places ks of the same  *)
(* batch; elimination is searched for the playoffs only.  baselines are    *)
(* the persisted statuses.                                                 *)
SlateScenario(s, t, ks, k, playoffs, baselines, ends) ==
    LET slate == Slate(s)
        Searched(j) == /\ baselines[j].state # "clinched"
                       /\ baselines[j].state = "unresolved" => baselines[j].method = "unproved_score_tiebreak"
        blocked == {j \in ks : Searched(j) /\ SlateBlocks(s, t, j, slate)}
        q == [s |-> s, t |-> t, k |-> k, slate |-> slate,
              order |-> SearchOrder(s, t, {j \in ks : Searched(j)} \ blocked, slate),
              elimination |-> k = playoffs, skip |-> k \in blocked, ends |-> ends]
    IN IF baselines[k].state = "clinched" THEN NoScenario("already_clinched", "none")
       ELSE IF ~Searched(k) THEN NoScenario("unresolved", baselines[k].method)
       ELSE IF slate = {} \/ (k \in blocked /\ k # playoffs) THEN NoScenario("cannot_clinch", "none")
       ELSE Finished(q, Walk(q, None, NothingFound))
=============================================================================
