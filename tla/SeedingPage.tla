----------------------------- MODULE SeedingPage -----------------------------
(***************************************************************************)
(* The seeding page (src/internal/app/clinching_seeding.go): under some    *)
(* assumed results, the places a team can still finish at, by its own      *)
(* next results, and how it finishes at one of them.                       *)
(***************************************************************************)
EXTENDS ClinchingRows

OwnMatchLimit == 3           \* seedingOwnMatchLimit
MaxListed == 5               \* seedingMaxAlternatives
ScenariosPerPage == 4        \* seedingScenariosPerPage

(* newSeedingOwnMatches: the team's first matches that are not assumed.    *)
FirstOf(order) == SubSeq(order, 1, Min({Len(order), OwnMatchLimit}))
OwnNext(s, t, fixed) == FirstOf(FixtureOrder((Of(t) \cap Remaining(s)) \ DOMAIN fixed))

-----------------------------------------------------------------------------
(* seedingGrid: for each of the team's own results, the places left and    *)
(* the opponents there; own results with the same cells share a column.    *)
Cell(narrowed, seed) ==
    LET left == {n \in narrowed : n.seed = seed}
    IN [possible |-> left # {}, opponents |-> UNION {{o.team : o \in n.opponents} : n \in left}]
CellsOf(narrowed, places) == Tabulated([seed \in places |-> Cell(narrowed, seed)])
Cells(filtered, fixed, a) ==
    CellsOf(FilterSeeding(filtered, a @@ fixed), {n.seed : n \in filtered})
Column(lines, cells, told) == [combos |-> SelectSeq(lines, LAMBDA a : told[a] = cells), cells |-> cells]
ColumnsBy(lines, told) == {Column(lines, cells, told) : cells \in Range(told)}
Grid(filtered, fixed, order, t) ==
    LET lines == OwnLines(order, t)
    IN ColumnsBy(lines, Tabulated([a \in Range(lines) |-> Cells(filtered, fixed, a)]))

(* seedingCover: the own results of a column as products, each widened     *)
(* match by match, from wins to losses, as long as it stays in the column. *)
WidenIfIn(cube, f, o, combos) ==
    LET wider == [cube EXCEPT ![f] = @ \cup {o}]
    IN IF Covered(DOMAIN cube, {wider}) \subseteq combos THEN wider ELSE cube
Widened(cube, f, t, combos) ==
    FoldLeft(LAMBDA c, o : WidenIfIn(c, f, o, combos), cube, FromBest(f, t))
Widest(a, order, t, combos) ==
    FoldLeft(LAMBDA c, f : Widened(c, f, t, combos), Singletons(a), order)
Cover(lines, order, t) ==
    FoldLeft(LAMBDA cubes, a : IF \E cube \in cubes : Covers(cube, a) THEN cubes
                               ELSE cubes \cup {Widest(a, order, t, Range(lines))},
             {}, lines)

(* pointsPhrase, describe and shorthand: several products are worded as a  *)
(* range of points where that says the same.                               *)
PointsRange(lines, t) ==
    LET taken == {Points(a, t) : a \in Range(lines)} IN [low |-> Min(taken), high |-> Max(taken)]
InRange(range, a, t) == range.low <= Points(a, t) /\ Points(a, t) <= range.high
RangeSays(range, lines, order, t) ==
    \A a \in Assignments(Range(order)) : InRange(range, a, t) <=> a \in Range(lines)
Heading(cubes, range) == [cubes |-> cubes, range |-> range]
HeadingBy(cubes, range, lines, order, t) ==
    IF Cardinality(cubes) > 1 /\ RangeSays(range, lines, order, t) THEN Heading({}, {range})
    ELSE Heading(cubes, {})
ColumnHeading(lines, order, t) ==
    HeadingBy(Cover(lines, order, t), PointsRange(lines, t), lines, order, t)

-----------------------------------------------------------------------------
(* guaranteedSeedingFinish: a place with a clause that asks for nothing.   *)
Unconditional(finish) == {c \in finish.clauses : c.conditions = {}}
IsMentioned(finish) == {} \in CompactFixtureMasks({PathOf([c EXCEPT !.conditions = {}]) : c \in finish.clauses})
                                                    \* a slip: scores are overlooked
IsGuaranteed(finish) == {} \in CompactFixtureMasks({PathOf(c) : c \in Unconditional(finish)})
GuaranteedFinishes(filtered) == {finish.seed : finish \in {n \in filtered : IsGuaranteed(n)}}

(* seedingOverflow: ways too many to list.  An item is a match with the    *)
(* results any way asks of it, or a total of two matches.                  *)
Told(r, q) == r.games = q.games /\ r.team = q.team /\ r.points = q.points
Item(paths, r) == [r EXCEPT !.allowed = UNION {q.allowed : q \in {q \in UNION paths : Told(q, r)}}]
Items(paths) == {Item(paths, r) : r \in {r \in UNION paths : ~IsScore(r)}}
WaysFor(paths, item) == {p \in paths : \E r \in p : Told(r, item)}
Depends(item) == IsResult(item) /\ item.allowed = Outcomes
OverflowBy(paths, always, some, scores) ==
    LET needs == {Cardinality({i \in some : p \in WaysFor(paths, i)}) : p \in paths}
    IN [always |-> always, some |-> some, scores |-> scores,
        low |-> Min({Cardinality(some)} \cup needs), high |-> Max({0} \cup needs)]
OverflowOf(paths, items) ==
    OverflowBy(paths, {i \in items : WaysFor(paths, i) = paths},
               {i \in items : WaysFor(paths, i) # paths}, \E p \in paths : \E r \in p : IsScore(r))
SeedingOverflow(paths) == OverflowOf(paths, {i \in Items(paths) : ~Depends(i)})

(* seedingConditions: how the team finishes at a place, by its own         *)
(* results; a group that asks too much is previewed.                       *)
SeedingGroup(g) == [group |-> g, noHelp |-> {} \in g.paths,
                    overflow |-> IF g.over \/ Oversized(g) THEN {SeedingOverflow(g.paths)} ELSE {}]
SeedingGroups(clauses, t) ==
    LET groups == ClauseGroups(clauses, t, MaxListed, TRUE)
    IN [i \in DOMAIN groups |-> SeedingGroup(groups[i])]

(* seedingAlternatives: the page of scenarios a number is on.              *)
FirstOn(number) == ((number - 1) \div ScenariosPerPage) * ScenariosPerPage + 1
LastOn(number, total) == Min({FirstOn(number) + ScenariosPerPage - 1, total})
Previous(number) == IF FirstOn(number) > 1 THEN {FirstOn(number) - ScenariosPerPage} ELSE {}
NextOn(number, total) == IF LastOn(number, total) < total THEN {LastOn(number, total) + 1} ELSE {}

-----------------------------------------------------------------------------
(* applySeedingLikelihoods and mostLikelyRow, on counts of simulated       *)
(* seasons [seed, opponent, own, seasons]: what the exact search rules out *)
(* is left out.  own holds every match left to the team.                   *)
ColumnOf(columns, own) ==
    {column \in columns : \E a \in Range(column.combos) : \A f \in DOMAIN a : own[f] = a[f]}
Allows(column, count) ==
    /\ column.cells[count.seed].possible
    /\ count.seed > 0 => count.opponent \in column.cells[count.seed].opponents
Simulated(columns, counts, seed) ==
    {count \in counts : count.seed = seed /\ \E column \in ColumnOf(columns, count.own) :
                                                 seed \in DOMAIN column.cells /\ Allows(column, count)}
SimulatedShare(counts) == MapThenSumSet(LAMBDA count : count.seasons, counts)
MostLikely(columns, counts, places) ==
    LET rank(seed) == IF seed = 0 THEN Cardinality(Teams) + 1 ELSE seed
    IN Head(Ranked({<<-SimulatedShare(Simulated(columns, counts, seed)), rank(seed), seed>> : seed \in places}))
=============================================================================
