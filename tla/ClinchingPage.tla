---------------------------- MODULE ClinchingPage ----------------------------
(***************************************************************************)
(* The groups of the clinching page (src/internal/app): what a team's own  *)
(* results leave it to hope for from the other matches.  A page shows the  *)
(* groups in sequence; own results with the same help share one.           *)
(***************************************************************************)
EXTENDS ClinchingPaths

(* clinchingGroupView.  The team's own results are own, or else other (the *)
(* same two results swapped); free are own matches whose results do not    *)
(* matter.  key is mergeKey: what the group asks of the other matches;     *)
(* paths are kept even where the summary would list too many.              *)
Group(own, help, summary, over, key, paths) ==
    [own |-> own, other |-> {}, free |-> {}, help |-> help, summary |-> summary, over |-> over,
     key |-> key, paths |-> paths, byRivals |-> FALSE, need |-> 0, rivals |-> {}, grouped |-> {}]

Pinned(a) == {Result(f, {a[f]}) : f \in DOMAIN a}
Nothing == Expression({}, {})

(* The team's results in some of its matches, from wins to losses.         *)
FromBest(f, t) == <<WinFor(f, t), "draw", LossFor(f, t)>>
OwnLines(order, t) ==
    FoldLeft(LAMBDA lines, f :
                FlattenSeq([i \in DOMAIN lines |-> [j \in 1 .. 3 |-> (f :> FromBest(f, t)[j]) @@ lines[i]]]),
             <<None>>, order)

-----------------------------------------------------------------------------
(* clinchingGroupViews: one group for each of the team's results that some *)
(* clause allows.  More than four own matches would be grouped by what the *)
(* clauses say of them; two matchdays leave no team as many.               *)
Own(raw, t) == ResultGames(raw) \cap Of(t)
Active(raw, a) ==
    {{r \in p : r.games \cap DOMAIN a = {}} :
        p \in {p \in raw : \A f \in DOMAIN a : a[f] \in Allowed(p, f)}}

Shortest(active) == RemoveCovered(CompactFixtureMasks(active))
InPoints(paths) == RemoveCovered(CompactPoints(paths))
Narrow(paths) == IF Cardinality(paths) <= MaxSummary THEN NarrowCovered(paths) ELSE paths
Cheaper(help, paths) ==
    IF Cardinality(help) <= MaxSummary /\ Cost(help) < Cost(paths) THEN help ELSE paths

GroupOf(a, help, paths, limit) ==
    Group(Pinned(a), help, IF Cardinality(paths) > limit THEN Nothing ELSE Factor(paths, 2),
          Cardinality(paths) > limit, <<"help", help>>, paths)
Helped(a, help, overlapping, limit) ==
    GroupOf(a, Factor(help, 0), Cheaper(help, Narrow(overlapping)), limit)
ByWays(a, ways, limit) == Helped(a, ways.disjoint, ways.overlapping, limit)
WaysOf(short) ==
    Tabulated([kind \in {"disjoint", "overlapping"} |->
                  InPoints(IF kind = "disjoint" THEN Disjoint(short) ELSE short)])
ActiveGroup(a, active, limit) == ByWays(a, WaysOf(Shortest(active)), limit)
OwnAllowed(raw, t) ==
    SelectSeq(OwnLines(FixtureOrder(Own(raw, t)), t), LAMBDA a : Active(raw, a) # {})
GroupsFor(raw, lines, limit) ==
    [i \in DOMAIN lines |-> ActiveGroup(lines[i], Active(raw, lines[i]), limit)]
RawGroups(raw, t, limit) == GroupsFor(raw, OwnAllowed(raw, t), limit)

-----------------------------------------------------------------------------
(* combineOwnPairs: two results either way round.                          *)
GamesOf(own) == UNION {r.games : r \in own}
IsPair(g) == /\ Cardinality(g.own) = 2
             /\ \A r \in g.own : IsResult(r) /\ Cardinality(r.allowed) = 1
OwnPoints(own, f, t) == Takes(f, CHOOSE o \in Allowed(own, f) : TRUE, t)
PairPoints(own, t) ==
    LET order == FixtureOrder(GamesOf(own))
    IN <<OwnPoints(own, Head(order), t), OwnPoints(own, Last(order), t)>>
Swapped(pair) == <<pair[2], pair[1]>>
SamePair(g, h) == IsPair(h) /\ GamesOf(h.own) = GamesOf(g.own) /\ h.key = g.key
Mates(out, g, t) ==
    {i \in DOMAIN out : /\ SamePair(g, out[i]) /\ out[i].other = {}
                        /\ PairPoints(out[i].own, t) = Swapped(PairPoints(g.own, t))}
WithPair(out, g, mates) ==
    IF mates = {} THEN Append(out, g) ELSE [out EXCEPT ![Min(mates)].other = g.own]
CombinePairs(groups, t) ==
    FoldLeft(LAMBDA out, g : WithPair(out, g, IF IsPair(g) THEN Mates(out, g, t) ELSE {}),
             <<>>, groups)

(* combineOwnPointTotals: groups that together are every result worth at   *)
(* least so many points.                                                   *)
Totals == {0, 1, 3}
PointsShown(groups, members, t) ==
    UNION {{PairPoints(own, t) : own \in {groups[i].own, groups[i].other} \ {{}}} : i \in members}
TotalOrMore(covered) ==           \* a slip: some results of that total are missing
    LET minimum == Min({pair[1] + pair[2] : pair \in covered})
    IN \A x, y \in Totals : <<x, y>> \in covered => x + y >= minimum
ExactTotal(covered) ==
    LET minimum == Min({pair[1] + pair[2] : pair \in covered})
    IN \A x, y \in Totals : (x + y >= minimum) <=> <<x, y>> \in covered
AtLeastTotal(g, covered, t) ==
    LET minimum == Min({pair[1] + pair[2] : pair \in covered})
        games == GamesOf(g.own)
    IN IF minimum = 0 THEN [g EXCEPT !.own = {}, !.other = {}, !.free = games]
       ELSE [g EXCEPT !.own = {Total(Min(games), Max(games), t, minimum)}, !.other = {}]
TotalStep(groups, acc, i, members, t) ==
    LET covered == PointsShown(groups, members, t)
    IN IF Cardinality(members) > 1 /\ ExactTotal(covered)
       THEN [out |-> Append(acc.out, AtLeastTotal(groups[i], covered, t)), used |-> acc.used \cup members]
       ELSE [acc EXCEPT !.out = Append(@, groups[i])]
CombineTotals(groups, t) ==
    FoldLeft(LAMBDA acc, i :
                IF i \in acc.used THEN acc
                ELSE TotalStep(groups, acc, i,
                               IF ~IsPair(groups[i]) THEN {i}
                               ELSE {j \in DOMAIN groups : j >= i /\ j \notin acc.used /\ SamePair(groups[i], groups[j])},
                               t),
             [out |-> <<>>, used |-> {}], [i \in DOMAIN groups |-> i]).out

(* combineOwnSingleResults: results of one match with the same help.       *)
IsSingle(g) == Cardinality(g.own) = 1 /\ g.other = {} /\ IsResult(One(g.own))
Alike(out, g) ==
    {i \in DOMAIN out : IsSingle(out[i]) /\ GamesOf(out[i].own) = GamesOf(g.own) /\ out[i].key = g.key}
WithSingle(out, g, alike) ==
    IF alike = {} THEN Append(out, g)
    ELSE LET prior == One(out[Min(alike)].own)
         IN [out EXCEPT ![Min(alike)].own = {Result(GameOf(prior), prior.allowed \cup One(g.own).allowed)}]
CombineSingles(groups) ==
    FoldLeft(LAMBDA out, g : WithSingle(out, g, IF IsSingle(g) THEN Alike(out, g) ELSE {}), <<>>, groups)

Combined(groups, t) == CombineSingles(CombineTotals(CombinePairs(groups, t), t))

(* ownResultTone: the colour of a group.                                   *)
Tone(g, t) ==
    IF ~IsSingle(g) \/ t \notin Sides(GameOf(One(g.own))) THEN ""
    ELSE LET r == One(g.own)
             win == WinFor(GameOf(r), t)
             loss == LossFor(GameOf(r), t)
         IN CASE r.allowed \in {{win}, {win, "draw"}} -> "win"
              [] r.allowed = {"draw"} -> "draw"
              [] r.allowed \in {{loss}, {loss, "draw"}} -> "loss"
              [] OTHER -> ""

-----------------------------------------------------------------------------
(* groupSeasonSummary: a summary as a conjunction of independent groups,   *)
(* each about one rival if it can be.                                      *)
Involves(r, u) ==
    IF IsScore(r) THEN u \in {One(r.score).team, One(r.score).rival}
    ELSE \E f \in r.games : u \in Sides(f)
ScoresIn(paths) == UNION {{One(r.score) : r \in {r \in p : IsScore(r)}} : p \in paths}
Mentions(paths, u) ==
    MapThenSumSet(LAMBDA p : MapThenSumSet(LAMBDA r : Cardinality(r.games \cap Of(u)), p), paths)
SummaryRivals(paths, t) ==
    LET scored == UNION {{c.team, c.rival} : c \in ScoresIn(paths)} \ {t}
        counted == {u \in Teams \ {t} : Mentions(paths, u) > 0}
    IN Ranked({<<-Mentions(paths, u), u>> : u \in IF scored = {} THEN counted ELSE scored})

About(paths, u) == {{r \in p : Involves(r, u)} : p \in paths}
NotAbout(paths, u) == {{r \in p : ~Involves(r, u)} : p \in paths}
IsProduct(paths, left, right) ==
    /\ Cardinality(left) > 1 /\ Cardinality(right) > 1
    /\ Cardinality(left) * Cardinality(right) = Cardinality(paths)
Splits(paths, t) ==
    SelectSeq(SummaryRivals(paths, t), LAMBDA u : IsProduct(paths, About(paths, u), NotAbout(paths, u)))
RECURSIVE IndependentGroups(_, _)
SplitGroups(paths, t, splits) ==
    IF splits = <<>> THEN {paths}
    ELSE UNION {IndependentGroups(half, t) : half \in {About(paths, Head(splits)), NotAbout(paths, Head(splits))}}
IndependentGroups(paths, t) == SplitGroups(paths, t, Splits(paths, t))

(* summaryRivalNeed: paths about one rival's one or two matches as a limit *)
(* on its points and at most one total that a score condition decides;     *)
(* the empty set if they do not say that.                                  *)
Keys(paths, a) ==
    LET told == {UNION {r.score : r \in {r \in p : IsScore(r)}} :
                    p \in {p \in paths : \A r \in p : IsScore(r) \/ Matched(r, a)}}
    IN IF {} \in told THEN {{}} ELSE told
CertainTotals(keys, u) == {Points(a, u) : a \in {a \in DOMAIN keys : keys[a] = {{}}}}
TiesOf(keys, u, games) ==
    {[points |-> Points(a, u), wins |-> With(a, u, games, 1), verdict |-> "conditional",
      condition |-> One(One(keys[a]))] : a \in {a \in DOMAIN keys : keys[a] \notin {{}, {{}}}}}
MaxOf(certain, ties) == IF ties # {} THEN One(ties).points - 1 ELSE Max(certain \cup {-1})
IsNeed(u, games, keys, certain, n) ==
    /\ Cardinality(n.ties) <= 1 /\ (certain # {} \/ n.ties # {})
    /\ 3 * Cardinality(games) \notin certain
    /\ \A a, b \in DOMAIN keys : Points(a, u) = Points(b, u) => keys[a] = keys[b]
    /\ \A a \in DOMAIN keys : Points(a, u) <= n.max <=> Points(a, u) \in certain
Sound(u, games, keys, certain, n) == {m \in {n} : IsNeed(u, games, keys, certain, m)}
SummarizedNeed(u, games, keys, certain, ties) ==
    Sound(u, games, keys, certain,
          [rival |-> u, games |-> games, max |-> MaxOf(certain, ties), ties |-> ties])
NeedBy(u, games, keys) ==
    IF \E a \in DOMAIN keys : Cardinality(keys[a]) > 1 THEN {}
    ELSE SummarizedNeed(u, games, keys, CertainTotals(keys, u), TiesOf(keys, u, games))
AboutOne(paths, t, u, games) ==
    /\ Cardinality(games) \in {1, 2} /\ games \subseteq Of(u)
    /\ \A p \in paths : Cardinality({r \in p : IsScore(r)}) <= 1
    /\ \A c \in ScoresIn(paths) : c.team = t /\ c.rival = u
SummaryNeedOn(paths, t, u, games) ==
    IF ~AboutOne(paths, t, u, games) THEN {}
    ELSE NeedBy(u, games, Tabulated([a \in [games -> Outcomes] |-> Keys(paths, a)]))
SummaryNeed(paths, t, u) == SummaryNeedOn(paths, t, u, GamesOf(UNION paths))

(* The first rival that such a need can be stated of, by all of the paths  *)
(* or by what they ask of that rival.                                      *)
SummaryGroup(e, need) == [expression |-> e, rival |-> need]
FirstNeed(paths, t, all) ==
    FoldLeft(LAMBDA found, u : IF found # {} THEN found
                               ELSE SummaryNeed(IF all THEN paths ELSE About(paths, u), t, u),
             {}, SummaryRivals(paths, t))

(* commonSummaryGroups: what every path requires, rival by rival.          *)
RECURSIVE CommonGroups(_, _)
CommonWith(remaining, t, chosen, need) ==
    IF need = {} THEN {SummaryGroup(Expression(remaining, {}), {})}
    ELSE {SummaryGroup(Expression(chosen, {}), need)} \cup CommonGroups(remaining \ chosen, t)
CommonBy(remaining, t, need) ==
    CommonWith(remaining, t, {r \in remaining : \E n \in need : Involves(r, n.rival)}, need)
CommonGroups(remaining, t) ==
    IF remaining = {} THEN {} ELSE CommonBy(remaining, t, FirstNeed({remaining}, t, FALSE))

Grouped(summary, t, factors) ==
    IF Cardinality(factors) < 2 THEN {}
    ELSE {CommonGroups(summary.conditions, t)
            \cup {SummaryGroup(Factor(paths, 2), FirstNeed(paths, t, TRUE)) : paths \in factors}}
Grouping(summary, t, paths) ==
    IF Cardinality(paths) > MaxPaths THEN {} ELSE Grouped(summary, t, IndependentGroups(paths, t))
GroupSummary(summary, t) ==
    IF Cardinality(summary.alternatives) < 2 THEN {}
    ELSE Grouping(summary, t, Combinations(Expression({}, summary.alternatives)))

Titled(groups, t, restOfSeason) ==
    [i \in DOMAIN groups |->
        IF restOfSeason /\ ~groups[i].over /\ ~groups[i].byRivals
        THEN [groups[i] EXCEPT !.grouped = GroupSummary(groups[i].summary, t)] ELSE groups[i]]
ClauseGroups(clauses, t, limit, restOfSeason) ==
    Titled(Combined(RawGroups({PathOf(c) : c \in clauses}, t, limit), t), t, restOfSeason)
=============================================================================
