-------------------------- MODULE SeasonScenarios --------------------------
(***************************************************************************)
(* The rest-of-season scenarios of src/internal/scenarios: every remaining *)
(* match is searched, so an assignment of results is a finished season but *)
(* for its scores.  A points tie is settled by the official tiebreakers,   *)
(* and what scores decide becomes a score condition on the clause.         *)
(***************************************************************************)
EXTENDS SlateScenarios

CONSTANTS
    MaxLevelRivals,    \* maxSeasonLevelRivals: three-state expansions at a leaf
    MaxAlternatives,   \* maxSeasonAlternatives: choices of rivals at a leaf
    MaxGoals           \* bound on the goals tried when scores are sought

Inf == 1000            \* infinity: beyond any goal count

-----------------------------------------------------------------------------
(* Score conditions: team finishes ahead of rival, who ends level on       *)
(* points, by a cascade of levels of [measure, min, exact].                *)
ScoreLevel(measure, min, exact) == [measure |-> measure, min |-> min, exact |-> exact]
Condition(team, rival, levels) == [team |-> team, rival |-> rival, levels |-> levels]
AtLeast(measure, min) == ScoreLevel(measure, min, FALSE)

(* Holds, on the gain each level has.                                      *)
RECURSIVE CascadeHolds(_, _)
CascadeHolds(levels, gains) ==
    LET level == Head(levels) IN
    \/ ~level.exact /\ Head(gains) >= level.min
    \/ /\ Head(gains) = level.min - 1
       /\ IF Tail(levels) = <<>> THEN level.exact ELSE CascadeHolds(Tail(levels), Tail(gains))

(* scoreCoefficients: what a level measures, over some matches of e.       *)
Lead(measure, mine, theirs) ==
    IF measure = "goals" THEN mine.for - theirs.for ELSE mine.difference - theirs.difference
Gain(measure, team, rival, e, games) ==
    IF measure = "headToHead" THEN Record(e, team, Between(team, rival) \cap games).difference
    ELSE Lead(measure, Record(e, team, Of(team) \cap games), Record(e, rival, Of(rival) \cap games))

ConditionHolds(c, e, games) ==
    CascadeHolds(c.levels, [i \in DOMAIN c.levels |-> Gain(c.levels[i].measure, c.team, c.rival, e, games)])

(* A clause holds of scores e of the matches of its cube.                  *)
ClauseHolds(clause, e) ==
    /\ \A f \in DOMAIN clause.cube : OutcomeOf(e[f]) \in clause.cube[f]
    /\ \A c \in clause.conditions : ConditionHolds(c, e, DOMAIN clause.cube)

-----------------------------------------------------------------------------
(* Two teams t and u level on points, with the remaining results fixed.    *)
Side(f, o, u) == IF o = "draw" THEN 0 ELSE IF o = WinFor(f, u) THEN 1 ELSE -1
With(fixed, u, games, side) == Cardinality({f \in games : Side(f, fixed[f], u) = side})
Wins(known, u) == With(known, u, Of(u) \cap DOMAIN known, 1)
WinsOf(s, fixed, u) == Wins(fixed @@ Settled(s), u)
PointsAgainst(known, u, other) ==
    Points([f \in Between(u, other) \cap DOMAIN known |-> known[f]], u)
HeadToHeadPoints(s, fixed, u, other) == PointsAgainst(fixed @@ Settled(s), u, other)

NowLead(measure, s, t, u) == Gain(measure, t, u, s, Played(s))

(* Margins of some wins and losses: 1 or more each, -1 or less each.       *)
Margins(wins, losses) == [low |-> IF losses > 0 THEN -Inf ELSE wins,
                          high |-> IF wins > 0 THEN Inf ELSE -losses]

(* pairCounts, headToHeadMargins, gains: the matches between the two       *)
(* count twice in goal difference, so alone they give even gains only.     *)
Meetings(s, t, u) == Between(t, u) \cap Remaining(s)
Others(s, t, u) == (Of(t) \cap Remaining(s)) \ Of(u)
OnlyHeadToHead(s, t, u) == Others(s, t, u) \cup Others(s, u, t) = {}
MeetingMargins(s, fixed, t, u) ==
    LET games == Meetings(s, t, u) IN Margins(With(fixed, t, games, 1), With(fixed, t, games, -1))
GainSet(up, down, between) ==
    [variable |-> up + down > 0,
     low |-> Margins(up, down).low + 2 * between.low,
     high |-> Margins(up, down).high + 2 * between.high]
GainsByOwn(s, fixed, t, u) ==       \* a slip: the rival's own wins are forgotten
    LET mine == Others(s, t, u)
    IN GainSet(With(fixed, t, mine, 1), With(fixed, t, mine, -1), MeetingMargins(s, fixed, t, u))
Gains(s, fixed, t, u) ==
    LET mine == Others(s, t, u)
        theirs == Others(s, u, t)
    IN GainSet(With(fixed, t, mine, 1) + With(fixed, u, theirs, -1),
               With(fixed, t, mine, -1) + With(fixed, u, theirs, 1),
               MeetingMargins(s, fixed, t, u))

(* gainSet: contains, anyAtLeast and anyAtMost.                            *)
Possible(gains, v) == gains.low <= v /\ v <= gains.high /\ (gains.variable \/ v % 2 = 0)
AnyAtLeast(gains, v) ==
    LET first == Max({v, gains.low})
    IN gains.high >= IF gains.variable \/ first % 2 = 0 THEN first ELSE first + 1
AnyAtMost(gains, v) ==
    LET last == Min({v, gains.high})
    IN gains.low <= IF gains.variable \/ last % 2 = 0 THEN last ELSE last - 1

Verdict(verdict, t, u, levels) == [verdict |-> verdict, condition |-> Condition(t, u, levels)]

(* headToHeadOnly: the margin sum m of the meetings decides everything.    *)
LexPositive(values) ==
    \E i \in DOMAIN values : values[i] > 0 /\ \A j \in 1 .. i - 1 : values[j] = 0
MarginSums(between, window) ==
    Max({between.low, -window}) .. Min({between.high, window})
SumsAhead(sums, d, w, g) ==
    {m \in sums : \A n \in sums : n >= m => LexPositive(<<d + 2 * n, w, g + n>>)}
SumVerdict(t, u, sums, ahead) ==
    IF ahead = {} THEN Verdict("behind", t, u, <<>>)
    ELSE IF ahead = sums THEN Verdict("ahead", t, u, <<>>)
    ELSE Verdict("conditional", t, u, <<AtLeast("difference", 2 * Min(ahead))>>)
ByMeetings(t, u, between, d, w, g) ==
    LET sums == MarginSums(between, Distance(d, 0) + Distance(g, 0) + 4)
    IN SumVerdict(t, u, sums, SumsAhead(sums, d, w, g))
HeadToHeadOnly(s, fixed, t, u) ==
    ByMeetings(t, u, MeetingMargins(s, fixed, t, u), NowLead("difference", s, t, u),
               WinsOf(s, fixed, t) - WinsOf(s, fixed, u), NowLead("goals", s, t, u))

(* pair: a rival that cannot finish level through goals scored.            *)
PairBy(t, u, min, gains) ==
    IF gains.low >= min THEN Verdict("ahead", t, u, <<>>)
    ELSE IF ~AnyAtLeast(gains, min) THEN Verdict("behind", t, u, <<>>)
    ELSE Verdict("conditional", t, u, <<AtLeast("difference", min)>>)
Pair(s, fixed, t, u) ==
    LET more == WinsOf(s, fixed, t) > WinsOf(s, fixed, u)
    IN IF OnlyHeadToHead(s, t, u) THEN HeadToHeadOnly(s, fixed, t, u)
       ELSE PairBy(t, u, (IF more THEN 0 ELSE 1) - NowLead("difference", s, t, u), Gains(s, fixed, t, u))

(* levelRegions: a rival that can finish level on goal difference, wins    *)
(* and goals scored is ahead of t, behind it or level with it; a set of    *)
(* conditions says which.                                                  *)
LevelSum(s, t, u) == -NowLead("goals", s, t, u)
LevelByMeetings(d, m, between) == d = -2 * m /\ m \in between.low .. between.high
CanLevel(s, fixed, t, u) ==
    /\ WinsOf(s, fixed, t) = WinsOf(s, fixed, u)
    /\ IF OnlyHeadToHead(s, t, u)
       THEN LevelByMeetings(NowLead("difference", s, t, u), LevelSum(s, t, u), MeetingMargins(s, fixed, t, u))
       ELSE Possible(Gains(s, fixed, t, u), -NowLead("difference", s, t, u))

RegionsBy(t, u, d, h, m, gains, between, alone) ==
    LET open == between.low = -Inf \/ between.high = Inf
        states == {"level"} \cup (IF ~alone \/ between.high > m THEN {"ahead"} ELSE {})
                            \cup (IF ~alone \/ between.low < m THEN {"behind"} ELSE {})
        Two(a, b, v, exact, g, last) ==
            {Condition(a, b, <<ScoreLevel("difference", v, exact), ScoreLevel("goals", g, last)>>)}
        aheadExact == ~AnyAtLeast(gains, 1 - d)
        behindExact == ~AnyAtMost(gains, -d - 1)
    IN [states |-> states,
        ahead |-> IF alone THEN {Condition(t, u, <<AtLeast("difference", 2 * m + 2)>>)}
                  ELSE Two(t, u, 1 - d, aheadExact, m + 1, FALSE),
        behind |-> IF alone THEN {Condition(u, t, <<AtLeast("difference", 2 - 2 * m)>>)}
                   ELSE Two(u, t, d + 1, behindExact, 1 - m, FALSE),
        level |-> IF alone THEN IF states = {"level"} THEN {}
                                ELSE {Condition(t, u, <<ScoreLevel("difference", 2 * m + 1, TRUE)>>)}
                  ELSE Two(t, u, 1 - d, TRUE, m + 1, TRUE),
        aheadOrLevel |-> IF alone THEN {Condition(t, u, <<AtLeast("difference", 2 * m)>>)}
                         ELSE Two(t, u, 1 - d, aheadExact, m, FALSE),
        h2hOpen |-> ~alone /\ open,
        h2hNow |-> IF alone THEN h + m ELSE h,
        h2hZero |-> h + between.low <= 0 /\ h + between.high >= 0]
Regions(s, fixed, t, u) ==
    RegionsBy(t, u, NowLead("difference", s, t, u), NowLead("headToHead", s, t, u), LevelSum(s, t, u),
              Gains(s, fixed, t, u), MeetingMargins(s, fixed, t, u), OnlyHeadToHead(s, t, u))

-----------------------------------------------------------------------------
(* A season search q: season s, team t, place k, order of the matches, and *)
(* the question: "atMost" k - 1 teams ahead, "exact"ly k - 1, or "beyond". *)
(* What a leaf finds: alternatives, each a set of score conditions, and    *)
(* notes of what it leaves unclaimed.                                      *)
Always == [alternatives |-> {{}}, notes |-> {}]
Never == [alternatives |-> {}, notes |-> {}]
Noted(note) == [alternatives |-> {}, notes |-> {note}]
Requiring(set, conditions) == {conditions \cup alternative : alternative \in set}

(* chooseSimple and chooseExact: beat, or lose to, enough of the rivals    *)
(* that scores decide, when extra level rivals finish ahead.               *)
ChooseAmong(q, fixed, pairs, extra, slots) ==
    LET open == {p \in pairs : p.verdict = "conditional"}
        behind == extra + Cardinality({p \in pairs : p.verdict = "behind"})
        need == IF q.question = "beyond" THEN slots + 1 - behind
                ELSE behind + Cardinality(open) - slots
        Beaten(chosen) == IF q.question = "beyond" THEN {} ELSE chosen
        Behind(chosen) == CASE q.question = "atMost" -> {}
                           [] q.question = "exact" -> open \ chosen
                           [] q.question = "beyond" -> chosen
        Alternative(chosen) ==
            {p.condition : p \in Beaten(chosen)}
            \cup {Pair(q.s, fixed, p.condition.rival, q.t).condition : p \in Behind(chosen)}
        choices == kSubset(need, open)
    IN IF need <= 0 /\ q.question # "exact" THEN Always
       ELSE IF need < 0 \/ need > Cardinality(open) THEN Never
       ELSE IF Cardinality(choices) > MaxAlternatives THEN Noted("unresolved")
       ELSE [alternatives |-> {Alternative(chosen) : chosen \in choices}, notes |-> {}]
Choose(q, fixed, simple, extra, slots) ==
    ChooseAmong(q, fixed, {Pair(q.s, fixed, q.t, u) : u \in simple}, extra, slots)

(* What chooseSimple finds, for each number of level rivals ahead of t.    *)
ChoicesOf(q, fixed, simple, most, slots) ==
    Tabulated([extra \in 0 .. most |-> Choose(q, fixed, simple, extra, slots)])

(* tieAlternatives: a tie that nothing published can break; claim what     *)
(* holds whoever of the `level` rivals finishes ahead.                     *)
Tie(q, choices, ahead, level, note) ==
    LET worst == choices[ahead + (IF q.question = "beyond" THEN 0 ELSE level)]
        best == choices[ahead + (IF q.question = "beyond" THEN level ELSE 0)]
    IN IF q.question = "exact" /\ level > 0
       THEN IF \E extra \in ahead .. ahead + level : choices[extra].alternatives # {}
            THEN Noted(note) ELSE Never
       ELSE IF worst.alternatives # best.alternatives
            THEN [worst EXCEPT !.notes = @ \cup {note}] ELSE worst

(* headToHeadAlternatives: rival u level on head-to-head points, with      *)
(* matches left between the two.                                           *)
MeetingAdds(q, win, lose, beat, lost) ==
    CASE q.question = "exact" -> Requiring(beat, win) \cup Requiring(lost, lose)
      [] q.question = "atMost" -> Requiring(beat \ lost, win)
      [] q.question = "beyond" -> Requiring(lost \ beat, lose)
MeetingFound(q, added, region, beat, lost) ==
    [alternatives |-> added \cup CASE q.question = "exact" -> {}
                                   [] q.question = "atMost" -> lost.alternatives
                                   [] q.question = "beyond" -> beat.alternatives,
     notes |-> beat.notes \cup lost.notes
                 \cup IF added # {} /\ region.h2hZero THEN {"disciplinary"} ELSE {}]
Meeting(q, u, region, beat, lost) ==
    MeetingFound(q, MeetingAdds(q, {Condition(q.t, u, <<AtLeast("headToHead", 1 - region.h2hNow)>>)},
                                {Condition(u, q.t, <<AtLeast("headToHead", region.h2hNow + 1)>>)},
                                beat.alternatives, lost.alternatives),
                 region, beat, lost)

(* Points and goals of u in the meetings of a group level on the rest.     *)
GroupPoints(s, fixed, u, group) ==
    MapThenSumSet(LAMBDA v : HeadToHeadPoints(s, fixed, u, v), group \ {u})
GroupGoals(s, u, group) ==
    MapThenSumSet(LAMBDA f : Scored(s, f, u), UNION {Between(u, v) : v \in group \ {u}} \cap Played(s))
Above(table, group, t) == {u \in group : table[u] > table[t]}
LevelWith(table, group, t) == {u \in group \ {t} : table[u] = table[t]}

(* A tie of one rival, then of a group, level on head-to-head points.      *)
SettlePair(q, u, region, choices, base) ==
    IF region.h2hOpen THEN Meeting(q, u, region, choices[base], choices[base + 1])
    ELSE IF region.h2hNow > 0 THEN choices[base]
    ELSE IF region.h2hNow < 0 THEN choices[base + 1]
    ELSE Tie(q, choices, base, 1, "disciplinary")
SettleGroup(q, tied, goals, choices, base) ==
    IF \E a, b \in tied \cup {q.t} : a # b /\ Meetings(q.s, a, b) # {}
    THEN Tie(q, choices, base, Cardinality(tied), "unresolved")
    ELSE Tie(q, choices, base + Cardinality(Above(goals, tied, q.t)),
             Cardinality(LevelWith(goals, tied, q.t)), "disciplinary")
SettleTied(q, regions, tied, choices, base) ==
    IF tied = {} THEN choices[base]
    ELSE IF Cardinality(tied) = 1 THEN SettlePair(q, Min(tied), regions[Min(tied)], choices, base)
    ELSE SettleGroup(q, tied, Tabulated([u \in tied \cup {q.t} |-> GroupGoals(q.s, u, tied \cup {q.t})]),
                     choices, base)

(* settleLevels, once the state of every level rival is known.             *)
SettleBy(q, regions, group, points, choices, behind) ==
    SettleTied(q, regions, LevelWith(points, group, q.t), choices,
               behind + Cardinality(Above(points, group, q.t)))
InState(states, state) == {u \in DOMAIN states : states[u] = state}
Settle(q, fixed, regions, states, choices) ==
    LET group == InState(states, "level") \cup {q.t}
    IN SettleBy(q, regions, group, Tabulated([u \in group |-> GroupPoints(q.s, fixed, u, group)]),
                choices, Cardinality(InState(states, "behind")))

(* levelAlternatives: fix the state of each level rival in turn and join,  *)
(* with no condition where the states do not differ.                       *)
JoinStates(region, sub) ==
    LET In(st, conditions) == Requiring(sub[st].alternatives, conditions)
    IN [notes |-> UNION {sub[st].notes : st \in DOMAIN sub},
        alternatives |->
           IF \A st \in region.states : sub[st].alternatives = sub["level"].alternatives
           THEN sub["level"].alternatives
           ELSE IF "ahead" \in region.states /\ sub["ahead"].alternatives = sub["level"].alternatives
           THEN In("ahead", region.aheadOrLevel)
                   \cup IF "behind" \in region.states THEN In("behind", region.behind) ELSE {}
           ELSE UNION {In(st, region[st]) : st \in region.states}]
RECURSIVE Expand(_, _, _, _, _)
Expand(q, fixed, regions, states, choices) ==
    IF DOMAIN states = DOMAIN regions THEN Settle(q, fixed, regions, states, choices)
    ELSE LET u == Min(DOMAIN regions \ DOMAIN states)
         IN JoinStates(regions[u],
                       Tabulated([st \in regions[u].states |->
                                     Expand(q, fixed, regions, states @@ (u :> st), choices)]))

(* joinHeadToHead: a head-to-head goals level follows the other levels of  *)
(* the same comparison.                                                    *)
OnlyMeetings(c) == Len(c.levels) = 1 /\ c.levels[1].measure = "headToHead"
Joined(conditions) ==
    LET Same(a, b) == a.team = b.team /\ a.rival = b.rival
        Tails(c) == {d \in conditions : OnlyMeetings(d) /\ Same(c, d)}
        Join(c) == IF OnlyMeetings(c) THEN c
                   ELSE [c EXCEPT !.levels = FoldSet(LAMBDA d, acc : acc \o d.levels, @, Tails(c))]
    IN {Join(c) : c \in {c \in conditions : OnlyMeetings(c) =>
                             \A d \in conditions : Same(c, d) => OnlyMeetings(d)}}

-----------------------------------------------------------------------------
(* What a search has found: clauses, and notes about its leaves.           *)
Clause(q, fixed, conditions) ==
    [cube |-> CubeOf(Remaining(q.s), fixed), conditions |-> conditions]
Emitted(q, fixed, set, notes) ==
    [clauses |-> {Clause(q, fixed, Joined(alternative)) : alternative \in set}, notes |-> notes]
Empty == [clauses |-> {}, notes |-> {}]

(* leaf and settle: "partial" and "unclaimed" mark assignments whose       *)
(* clinch is left out in part and altogether.                              *)
LeafNotes(set) ==
    (set.notes \cap {"disciplinary"}) \cup
    IF set.alternatives = {} THEN IF set.notes = {} THEN {} ELSE {"unclaimed"}
                                   \cup (set.notes \cap {"unresolved"})
    ELSE IF "unresolved" \in set.notes THEN {"partial"} ELSE {}
LeafFound(q, fixed, set) == Emitted(q, fixed, set.alternatives, LeafNotes(set))
Crowded(q, choices, levels) ==
    LET found == IF q.question = "atMost" THEN choices[Cardinality(levels)] ELSE Never
    IN [found EXCEPT !.notes = @ \cup {"unresolved"}]
SettleLeaf(q, fixed, levels, choices) ==
    IF Cardinality(levels) > MaxLevelRivals THEN Crowded(q, choices, levels)
    ELSE Expand(q, fixed, Tabulated([u \in levels |-> Regions(q.s, fixed, q.t, u)]), <<>>, choices)
LeafOf(q, fixed, level, levels, slots) ==
    LeafFound(q, fixed, SettleLeaf(q, fixed, levels,
                            ChoicesOf(q, fixed, level \ levels, Cardinality(levels), slots)))
SeasonLeaf(q, fixed, ahead) ==
    LET now == Now(q, fixed)
        level == LevelWith(now, DOMAIN now, q.t)
    IN LeafOf(q, fixed, level, {u \in level : CanLevel(q.s, fixed, q.t, u)}, q.k - 1 - ahead)

(* nextRelevant: a match with a team whose range of points overlaps the    *)
(* target's; the others cannot change its place.                           *)
High(q, fixed, low, u) == low[u] + 3 * Cardinality((Of(u) \cap Remaining(q.s)) \ DOMAIN fixed)
Relevant(q, fixed, low) ==
    LET top == High(q, fixed, low, q.t)
        near == {u \in DOMAIN low : u = q.t \/ (low[u] <= top /\ High(q, fixed, low, u) >= low[q.t])}
    IN {f \in Remaining(q.s) \ DOMAIN fixed : Home(f) \in near \/ Away(f) \in near}

(* walk, for one place and question.  pointsOnly stops where scores would  *)
(* have to decide.                                                         *)
RECURSIVE SeasonWalk(_, _)
SeasonWalk(q, fixed) ==
    LET low == Now(q, fixed)
        rivals == DOMAIN low \ {q.t}
        top == High(q, fixed, low, q.t)
        certain == Cardinality({u \in rivals : low[u] > top})
        possible == Cardinality({u \in rivals : High(q, fixed, low, u) >= low[q.t]})
        holds == CASE q.question = "atMost" -> possible < q.k
                   [] q.question = "exact" -> certain = possible /\ certain = q.k - 1
                   [] q.question = "beyond" -> certain >= q.k
        fails == CASE q.question = "atMost" -> certain >= q.k
                   [] q.question = "exact" -> certain >= q.k \/ possible < q.k - 1
                   [] q.question = "beyond" -> possible < q.k
        relevant == Relevant(q, fixed, low)
        next == Head(SelectSeq(q.order, LAMBDA f : f \in relevant))
        below == {SeasonWalk(q, fixed @@ (next :> o)) : o \in Outcomes}
    IN IF holds THEN Emitted(q, fixed, {{}}, {})
       ELSE IF fails THEN Empty
       ELSE IF relevant # {} THEN [clauses |-> UNION {found.clauses : found \in below},
                                   notes |-> UNION {found.notes : found \in below}]
       ELSE IF q.pointsOnly THEN Empty
       ELSE SeasonLeaf(q, fixed, certain)

(* mergeSeasonClauses: cubes of the same conditions that differ in one     *)
(* match are joined, match by match, until nothing changes.                *)
Allowing(c, f, outcomes) == [c EXCEPT !.cube = (f :> outcomes) @@ @]
MergeAt(clauses, f) ==
    LET Alike(c, d) == Allowing(c, f, Outcomes) = Allowing(d, f, Outcomes)
    IN {Allowing(c, f, UNION {d.cube[f] : d \in {d \in clauses : Alike(c, d)}}) : c \in clauses}
RECURSIVE Merged(_, _)
Merged(clauses, games) ==
    LET once == FoldLeft(MergeAt, clauses, FixtureOrder(games))
    IN IF once = clauses THEN clauses ELSE Merged(once, games)

(* finish.                                                                 *)
SeasonFinished(q, found) ==
    LET merged == Merged(found.clauses, Remaining(q.s))
        open == found.notes \cap {"partial", "unresolved"} # {}
        state == IF merged # {} THEN "can_clinch"
                 ELSE IF "unclaimed" \in found.notes THEN "tiebreak_dependent" ELSE "cannot_clinch"
    IN [state |-> state,
        clauses |-> merged,
        limitation |-> IF (merged # {} /\ open) \/ state = "tiebreak_dependent" THEN "tiebreak" ELSE "none",
        necessary |-> [f \in Remaining(q.s) |->
                          IF merged # {} /\ ~open THEN UNION {c.cube[f] : c \in merged} ELSE Outcomes],
        disciplinary |-> "disciplinary" \in found.notes]

(* orderSeasonGames.                                                       *)
SeasonOrder(s, t) ==
    LET Gap(u) == Distance(Points(Settled(s), u), Points(Settled(s), t))
    IN Ranked({<<IF f \in Of(t) THEN -1 ELSE Min({Gap(u) : u \in Sides(f)}), f>> : f \in Remaining(s)})

Question(s, t, k, question, pointsOnly) ==
    [s |-> s, t |-> t, k |-> k, order |-> SeasonOrder(s, t), question |-> question,
     pointsOnly |-> pointsOnly]
Answer(q) == SeasonFinished(q, SeasonWalk(q, None))
=============================================================================
