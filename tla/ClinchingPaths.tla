--------------------------- MODULE ClinchingPaths ---------------------------
(***************************************************************************)
(* The rewriting of clinching clauses on their page (src/internal/app,     *)
(* clinching_groups.go, clinching_masks.go, clinching_overlap.go): a path  *)
(* is a set of requirements that must all hold, several paths are          *)
(* alternatives.  A list of paths is a set here: where the order of a list *)
(* decides which of two equal choices is taken, any choice stands for it.  *)
(***************************************************************************)
EXTENDS SeasonSummaries

CONSTANTS
    MaxPaths,     \* maxFixtureMergePaths, maxDisjointPaths, maxSeasonSummaryPaths
    MaxSummary    \* maxScenarioSummaryPaths

(* scenarioRequirement: the results one match may have, at least so many   *)
(* points from two, or a score condition, which every rewrite leaves alone.*)
Requirement(games, allowed, team, points, score) ==
    [games |-> games, allowed |-> allowed, team |-> team, points |-> points, score |-> score]
Result(f, allowed) == Requirement({f}, allowed, 0, 0, {})
Total(f, g, team, points) == Requirement({f, g}, {}, team, points, {})
Score(c) == Requirement({}, {}, 0, 0, {c})

IsScore(r) == r.score # {}
IsTotal(r) == Cardinality(r.games) = 2
IsResult(r) == Cardinality(r.games) = 1
GameOf(r) == CHOOSE f \in r.games : TRUE

(* A stored clause as a path; a match whose result is free is no           *)
(* requirement.                                                            *)
PathOf(clause) ==
    {Result(f, clause.cube[f]) : f \in {f \in DOMAIN clause.cube : clause.cube[f] # Outcomes}}
    \cup {Score(c) : c \in clause.conditions}

(* requirementMatches, given the results of the requirement's matches.     *)
Matched(r, results) ==
    IF IsTotal(r) THEN MapThenSumSet(LAMBDA f : Takes(f, results[f], r.team), r.games) >= r.points
    ELSE results[GameOf(r)] \in r.allowed

(* fixtureRequirementMask, and a path without or with another requirement  *)
(* of one match (withFixtureRequirement).                                  *)
On1(f, r) == IsResult(r) /\ r.games = {f}
Allowed(path, f) == LET own == {r \in path : On1(f, r)}
                    IN IF own = {} THEN Outcomes ELSE (CHOOSE r \in own : TRUE).allowed
Apart(path, f) == {r \in path : ~On1(f, r)}
Restricted(path, f, allowed) ==
    Apart(path, f) \cup IF allowed = Outcomes THEN {} ELSE {Result(f, allowed)}
ResultGames(paths) == UNION {UNION {r.games : r \in {r \in path : IsResult(r)}} : path \in paths}

-----------------------------------------------------------------------------
(* compactFixtureMasks: (A and win) or (A and draw) = A and (win or draw), *)
(* match by match until no two paths merge any more.                       *)
MergedAt(paths, f) ==
    {Restricted(Apart(p, f), f,
                UNION {Allowed(q, f) : q \in {q \in paths : Apart(q, f) = Apart(p, f)}}) : p \in paths}
RECURSIVE Compact(_)
Compact(paths) ==
    LET once == FoldLeft(MergedAt, paths, FixtureOrder(ResultGames(paths)))
    IN IF Cardinality(once) = Cardinality(paths) THEN once ELSE Compact(once)
CompactFixtureMasks(paths) == IF Cardinality(paths) > MaxPaths THEN paths ELSE Compact(paths)

-----------------------------------------------------------------------------
(* requirementsImply: each requirement of target follows from those of     *)
(* source about the same matches.                                          *)
Follows(source, want) ==
    LET have == {r \in source : ~IsScore(r) /\ r.games \subseteq want.games}
    IN \A results \in [want.games -> Outcomes] :
          (\A r \in have : Matched(r, results)) => Matched(want, results)
Imply(source, target) ==
    \A want \in target : IF IsScore(want) THEN want \in source ELSE Follows(source, want)

(* removeCoveredRequirements: of equivalent paths one stays.               *)
One(paths) == CHOOSE p \in paths : TRUE
Implied(paths, p) == {q \in paths : Imply(p, q)}
Implying(paths, p) == {q \in paths : Imply(q, p)}
KeptOf(implied, equal) == IF equal = implied THEN {One(equal)} ELSE {}
KeptFor(p, implied) == KeptOf(implied, Implying(implied, p))
RemoveCovered(paths) ==
    IF {} \in paths THEN {{}}
    ELSE IF Cardinality(paths) > MaxPaths THEN paths
    ELSE UNION {KeptFor(p, Implied(paths, p)) : p \in paths}

-----------------------------------------------------------------------------
(* subtractRequirements: source and not covered, as disjoint paths.  The   *)
(* negation of a score condition cannot be written, so the overlap stays.  *)
Outside(path, r) == Allowed(path, GameOf(r)) \ r.allowed
Inside(path, r) == Allowed(path, GameOf(r)) \cap r.allowed
SubtractNext(cut, r) ==
    [left |-> Restricted(cut.left, GameOf(r), Inside(cut.left, r)),
     parts |-> cut.parts \cup IF Outside(cut.left, r) = {} THEN {}
                              ELSE {Restricted(cut.left, GameOf(r), Outside(cut.left, r))}]
RequirementOn(path, f) == CHOOSE r \in path : On1(f, r)
Subtract(source, covered) ==
    IF \E r \in covered : IsScore(r) \/ Inside(source, r) = {} THEN {source}
    ELSE FoldLeft(LAMBDA cut, f : SubtractNext(cut, RequirementOn(covered, f)),
                  [left |-> source, parts |-> {}], FixtureOrder(ResultGames({covered}))).parts

(* disjointRequirements: shortest first, a path keeps only what no earlier *)
(* one says; too many parts, and the overlapping paths stay.  The bound on *)
(* the number of subtractions has the same effect and is not counted.      *)
RECURSIVE ByLength(_)
ByLength(paths) ==
    IF paths = {} THEN <<>>
    ELSE LET p == CHOOSE p \in paths : \A q \in paths : Cardinality(p) <= Cardinality(q)
         IN <<p>> \o ByLength(paths \ {p})
SubtractAll(path, kept) ==
    FoldSet(LAMBDA prior, parts : UNION {Subtract(part, prior) : part \in parts}, {path}, kept)
Disjoint(paths) ==
    LET kept == FoldLeft(LAMBDA acc, path : acc \cup SubtractAll(path, acc), {}, ByLength(paths))
    IN IF Cardinality(paths) > MaxPaths \/ Cardinality(kept) > MaxPaths THEN paths ELSE kept

-----------------------------------------------------------------------------
(* compactPointsPair: paths that differ in two matches of a team only, and *)
(* together allow exactly the results worth some number of points.         *)
RestOf(path, f, g) == Apart(Apart(path, f), g)
Coverage(paths, f, g) == UNION {Allowed(p, f) \X Allowed(p, g) : p \in paths}
Worth(f, g, team, points) ==
    {pair \in Outcomes \X Outcomes : Takes(f, pair[1], team) + Takes(g, pair[2], team) >= points}
PointsFor(coverage, f, g, team) ==
    {points \in 1 .. 6 : coverage = Worth(f, g, team, points)}
CompactAlike(alike, rest, f, g, team) ==
    LET points == PointsFor(Coverage(alike, f, g), f, g, team)
    IN IF Cardinality(alike) < 2 \/ points = {} THEN alike
       ELSE {rest \cup {Total(f, g, team, Min(points))}}
CompactPair(paths, f, g, team) ==
    UNION {CompactAlike({p \in paths : RestOf(p, f, g) = rest}, rest, f, g, team) :
              rest \in {RestOf(p, f, g) : p \in paths}}
SharedSides(f, g) == {t \in Sides(f) : t \in Sides(g)}
PairsIn(games) == {pair \in games \X games : pair[1] < pair[2]}
CompactPoints(paths) ==
    FoldSet(LAMBDA pair, found :
               FoldSet(LAMBDA t, now : CompactPair(now, pair[1], pair[2], t),
                       found, SharedSides(pair[1], pair[2])),
            paths, PairsIn(ResultGames(paths)))

-----------------------------------------------------------------------------
(* narrowCoveredSummaryMasks: a result leaves a broad requirement when an  *)
(* earlier path covers everything with it.                                 *)
Uncovers(path, f, kept) ==
    {o \in Allowed(path, f) : ~\E earlier \in kept : Imply(Restricted(path, f, {o}), earlier)}
NarrowedAt(now, f, kept) ==
    IF now = {} THEN {}
    ELSE LET path == One(now)
             left == Uncovers(path, f, kept)
         IN IF Cardinality(Allowed(path, f)) < 2 THEN now
            ELSE IF left = {} THEN {} ELSE {Restricted(path, f, left)}
Narrowed(path, kept) ==
    FoldLeft(LAMBDA now, f : NarrowedAt(now, f, kept), {path}, FixtureOrder(ResultGames({path})))
NarrowCovered(paths) ==
    FoldLeft(LAMBDA kept, path : kept \cup Narrowed(path, kept), {}, ByLength(paths))

(* summaryPathCost.                                                        *)
CostOf(r) == IF IsResult(r) THEN 7 + Cardinality(r.allowed) ELSE 10
PathCost(path) == MapThenSumSet(CostOf, path)
Cost(paths) == MapThenSumSet(PathCost, paths)

-----------------------------------------------------------------------------
(* scenarioExpression: conditions and, if any, one of the alternatives.    *)
Expression(conditions, alternatives) == [conditions |-> conditions, alternatives |-> alternatives]

(* factorRequirements: A and B, or A and C, is A and (B or C).  A shared   *)
(* requirement of every path is taken first, then one of a match that the  *)
(* paths require different results of, then the most frequent one.         *)
MaxDepth == 3
CountIn(paths, r) == Cardinality({p \in paths : r \in p})
MasksIn(paths, f) == {q.allowed : q \in {q \in UNION paths : On1(f, q)}}
FactorRank(paths, r) ==
    IF CountIn(paths, r) = Cardinality(paths) THEN 2
    ELSE IF IsResult(r) /\ Cardinality(MasksIn(paths, GameOf(r))) > 1 THEN 1 ELSE 0
Weight(paths, r) == FactorRank(paths, r) * 1000 + CountIn(paths, r)
Repeated(paths) == {r \in UNION paths : CountIn(paths, r) > 1}
BestFactor(paths, repeated) ==
    CHOOSE r \in repeated : \A q \in repeated : Weight(paths, q) <= Weight(paths, r)

Branched(branch, other) ==
    Expression({}, {branch} \cup IF other.conditions = {} /\ other.alternatives # {}
                                 THEN other.alternatives ELSE {other})
Conjoined(r, e) == [e EXCEPT !.conditions = @ \cup {r}]
RECURSIVE Factor(_, _)
FactorBy(paths, depth, best) ==
    LET with == {p \ {best} : p \in {p \in paths : best \in p}}
        without == {p \in paths : best \notin p}
    IN IF without = {} THEN Conjoined(best, Factor(with, depth + 1))
       ELSE Branched(Conjoined(best, Factor(with, depth + 1)), Factor(without, depth))
FactorChosen(paths, depth, repeated) ==
    IF \/ repeated = {}
       \/ depth >= MaxDepth /\ FactorRank(paths, BestFactor(paths, repeated)) # 2
    THEN Expression({}, {Expression(p, {}) : p \in paths})
    ELSE FactorBy(paths, depth, BestFactor(paths, repeated))
Factor(paths, depth) ==
    IF {} \in paths THEN Expression({}, {})
    ELSE IF Cardinality(paths) = 1 THEN Expression(One(paths), {})
    ELSE FactorChosen(paths, depth, Repeated(paths))

(* Combinations: the paths of an expression.                               *)
RECURSIVE Combinations(_)
Combinations(e) ==
    IF e.alternatives = {} THEN {e.conditions}
    ELSE {e.conditions \cup p : p \in UNION {Combinations(a) : a \in e.alternatives}}

(* oversizedExpression: what a condition costs on the page.                *)
RECURSIVE Size(_)
Size(e) == Cardinality(e.conditions) + Cardinality(e.alternatives)
             + MapThenSumSet(LAMBDA r : IF IsScore(r) THEN Len(One(r.score).levels) ELSE 0, e.conditions)
             + MapThenSumSet(Size, e.alternatives)

-----------------------------------------------------------------------------
(* A world: the results of the matches and the score conditions that hold. *)
Meets(r, w) == IF IsScore(r) THEN r.score \subseteq w.truths ELSE Matched(r, w.results)
PathHolds(path, w) == \A r \in path : Meets(r, w)
PathsHold(paths, w) == \E path \in paths : PathHolds(path, w)
RECURSIVE ExpressionHolds(_, _)
ExpressionHolds(e, w) ==
    /\ PathHolds(e.conditions, w)
    /\ e.alternatives = {} \/ \E a \in e.alternatives : ExpressionHolds(a, w)
=============================================================================
