------------------------------ MODULE Standings ------------------------------
(***************************************************************************)
(* The official table of src/internal/standings.  A season is a function   *)
(* from matches to scores <<home goals, away goals>>, or Pending.  A table *)
(* is the sequence of its blocks, best first: a block of one team has its  *)
(* rank, a block of several is level after every criterion there is data   *)
(* for (TieBreakStatus.Undetermined) and is shown in the order of names.   *)
(***************************************************************************)
EXTENDS Integers, Sequences, FiniteSets, FiniteSetsExt, SequencesExt

CONSTANTS
    Teams,       \* numbers, in the order of names
    Schedule     \* sequence of [home, away, matchday, kickoff] in fixture order

ASSUME ScheduleAssumption ==
    /\ IsFiniteSet(Teams) /\ Teams \subseteq Nat
    /\ \A f, g \in DOMAIN Schedule : f < g => Schedule[f].kickoff <= Schedule[g].kickoff
    /\ \A f \in DOMAIN Schedule : /\ Schedule[f].home \in Teams /\ Schedule[f].away \in Teams
                                  /\ Schedule[f].home # Schedule[f].away

Matches == DOMAIN Schedule
Home(f) == Schedule[f].home
Away(f) == Schedule[f].away
Sides(f) == {Home(f), Away(f)}
Of(t) == {f \in Matches : t \in Sides(f)}
Between(a, b) == Of(a) \cap Of(b)

Pending == <<>>
Played(s) == {f \in Matches : s[f] # Pending}
Remaining(s) == Matches \ Played(s)
Tabulated(f) == f @@ <<>>      \* f itself, its values worked out once
FixtureOrder(games) == SelectSeq([f \in Matches |-> f], LAMBDA f : f \in games)

-----------------------------------------------------------------------------
(* Record and applyResult: what a team took from some played matches.      *)
Scored(s, f, t) == IF Home(f) = t THEN s[f][1] ELSE s[f][2]
Conceded(s, f, t) == IF Home(f) = t THEN s[f][2] ELSE s[f][1]
Margin(s, f, t) == Scored(s, f, t) - Conceded(s, f, t)

Tally(games, won, drawn, for, difference) ==
    [played |-> Cardinality(games),
     wins |-> Cardinality(won),
     losses |-> Cardinality(games) - Cardinality(won) - Cardinality(drawn),
     points |-> 3 * Cardinality(won) + Cardinality(drawn),
     for |-> for,
     difference |-> difference]
Record(s, t, games) ==
    Tally(games, {f \in games : Margin(s, f, t) > 0}, {f \in games : Margin(s, f, t) = 0},
          MapThenSumSet(LAMBDA f : Scored(s, f, t), games),
          MapThenSumSet(LAMBDA f : Margin(s, f, t), games))

Overall(s, t) == Record(s, t, Of(t) \cap Played(s))

(* headToHeadRecord: matches among exactly the teams still level.          *)
Among(s, t, group) ==
    Record(s, t, {f \in Of(t) \cap Played(s) : Home(f) \in group /\ Away(f) \in group})

-----------------------------------------------------------------------------
(* rankingValue: a fraction, so that per-game values compare exactly.      *)
Whole(v) == <<v, 1>>
PerGame(v, played) == IF played = 0 THEN Whole(0) ELSE <<v, played>>
Below(v, w) == v[1] * w[2] < w[1] * v[2]

Normal(order, v, record) == IF order = "perGame" THEN PerGame(v, record.played) ELSE Whole(v)

PointsOf(order, record) == Normal(order, record.points, record)
Primary(order, s, t) == PointsOf(order, Overall(s, t))

Criteria == 1 .. 5

(* totalTieBreakCriteria and perGameTieBreakCriteria.                      *)
Value(order, c, record) ==
    Normal(order, CASE c = 1 -> record.difference
                    [] c = 2 -> record.wins
                    [] c = 3 \/ c = 5 -> record.for
                    [] c = 4 -> record.points, record)
Criterion(order, s, c, t, group) ==
    Value(order, c, IF c <= 3 THEN Overall(s, t) ELSE Among(s, t, group))

(* splitByValue after the sort: the groups of equal value, best first.     *)
RECURSIVE Split(_)
Split(value) ==
    IF DOMAIN value = {} THEN <<>>
    ELSE LET best == {t \in DOMAIN value : \A u \in DOMAIN value : ~Below(value[t], value[u])}
         IN <<best>> \o Split(Tabulated([t \in DOMAIN value \ best |-> value[t]]))

(* resolveTieGroup, from criterion c on.                                   *)
RECURSIVE Resolve(_, _, _, _)
Resolve(order, s, group, c) ==
    IF Cardinality(group) = 1 \/ c \notin Criteria THEN <<group>>
    ELSE LET parts == Split(Tabulated([t \in group |-> Criterion(order, s, c, t, group)]))
         IN FlattenSeq([i \in DOMAIN parts |-> Resolve(order, s, parts[i], c + 1)])

(* Calculate, officialOrder.                                               *)
Table(order, s) ==
    LET parts == Split(Tabulated([t \in Teams |-> Primary(order, s, t)]))
    IN FlattenSeq([i \in DOMAIN parts |-> Resolve(order, s, parts[i], 1)])

(* What a table says of one team: who is ahead, and who is level with it.  *)
BlockOf(table, t) == CHOOSE i \in DOMAIN table : t \in table[i]
Tied(table, t) == table[BlockOf(table, t)]
Ahead(table, t) == UNION {table[i] : i \in 1 .. BlockOf(table, t) - 1}
=============================================================================
