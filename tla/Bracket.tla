------------------------------ MODULE Bracket ------------------------------
(***************************************************************************)
(* src/internal/bracket and the BracketFormat of src/internal/competition: *)
(* a knockout bracket is rebuilt from a verified topology and the cached   *)
(* rows of its matches, by kickoff order or from final seeds.              *)
(*                                                                         *)
(* Slots and rounds are numbered in catalog order.  A slot is a record     *)
(* [round, pair, bye, order, from]: its seed pair, bye seed, source order  *)
(* and the slots whose winners it takes, empty or 0 where it has none.  A  *)
(* row is a record [id, home, away, kickoff, kind, winner]; its kind says  *)
(* what its status and scores add up to.                                   *)
(***************************************************************************)
EXTENDS Integers, Sequences, FiniteSets, SequencesExt, FiniteSetsExt, TLC

Sorted(set, Before(_, _)) ==
    [i \in 1 .. Cardinality(set) |->
        CHOOSE x \in set : Cardinality({y \in set : Before(y, x)}) = i - 1] @@ <<>>

TBD == 0
Nobody == [home |-> TBD, away |-> TBD, winner |-> TBD, game |-> 0]

Rounds(f) == {f[s].round : s \in DOMAIN f}
LastRound(f) == Max(Rounds(f))
In(f, r) == {s \in DOMAIN f : f[s].round = r}
Feeders(f, s) == {f[s].from[i] : i \in DOMAIN f[s].from}
SeedsOf(slot) == {slot.pair[i] : i \in DOMAIN slot.pair} \cup ({slot.bye} \ {0})

(* BracketFormat.Validate of a catalog entry with fixed advancement.       *)
Valid(f) ==
    /\ f # <<>>
    /\ \A s \in DOMAIN f :
          /\ f[s].pair # <<>> => f[s].pair[1] # f[s].pair[2]
          /\ f[s].bye # 0 => (f[s].pair = <<>> /\ f[s].round # 1 /\ f[s].from # <<>>)
          /\ f[s].from # <<>> => /\ Len(f[s].from) = IF f[s].bye # 0 THEN 1 ELSE 2
                                 /\ Cardinality(Feeders(f, s)) = Len(f[s].from)
          /\ \A w \in Feeders(f, s) : f[w].round < f[s].round
          /\ f[s].order # 0 => f[s].round = 1
    /\ \A s, w \in DOMAIN f : s # w => SeedsOf(f[s]) \cap SeedsOf(f[w]) = {}
    /\ LET orders == {f[s].order : s \in In(f, 1)}
       IN orders = {0} \/ orders = 1 .. Cardinality(In(f, 1))

-----------------------------------------------------------------------------
(* The winner is who leads by goals or, level, by penalties, whatever the  *)
(* status; a level match without a shootout leaves its slot unresolved.    *)
WinnerOf(row) == IF row.kind \in {"over", "held"} THEN row.winner ELSE TBD
Unresolved(row) == row.kind = "drawn"

Holds(row, a, b) == {row.home, row.away} = {a, b}

(* placeGame, into a slot that has no match.                               *)
Place(view, s, row) ==
    [view EXCEPT !.slots[s] = [home |-> row.home, away |-> row.away,
                               winner |-> WinnerOf(row), game |-> row.id],
                 !.unresolved = @ \/ Unresolved(row)]

Winners(view, f, s) == [i \in DOMAIN f[s].from |-> view.slots[f[s].from[i]].winner]
Decided(view, f, s) == \A i \in DOMAIN f[s].from : Winners(view, f, s)[i] # TBD

(* populateFixedAdvances: a slot without a match shows who will play it.   *)
Shown(slot, known) ==
    IF known = <<>> \/ slot.game # 0 \/ TBD \in {known[i] : i \in DOMAIN known} THEN slot
    ELSE IF Len(known) = 1 THEN [slot EXCEPT !.away = known[1]]
    ELSE [slot EXCEPT !.home = known[1], !.away = known[2]]
Advanced(view, f) ==
    [view EXCEPT !.slots = [s \in DOMAIN f |-> Shown(view.slots[s], Winners(view, f, s))] @@ <<>>]

Blank(f) == [slots |-> [s \in DOMAIN f |-> Nobody],
             unresolved |-> FALSE, mismatch |-> FALSE, seen |-> {}, placed |-> {}]

-----------------------------------------------------------------------------
(* Build: rounds take their share of the matches in order of kickoff.      *)

(* A team that plays twice in a round: the second match is not placed.     *)
Reused(view, row) == {row.home, row.away} \cap view.seen # {}
Seen(view, row) == [view EXCEPT !.seen = @ \cup {row.home, row.away}]

(* placeOpeningRound, the i-th match of the round.                         *)
OpeningOrder(f) ==
    Sorted(In(f, 1), LAMBDA a, b : \/ f[a].order < f[b].order
                                   \/ f[a].order = f[b].order /\ a < b)
PlaceOpening(view, f, row, i) ==
    IF Reused(view, row) THEN [view EXCEPT !.mismatch = TRUE]
    ELSE Place(Seen(view, row), OpeningOrder(f)[i], row)

(* A bye seed meets the winner of its feeder and played no earlier round.  *)
ByeOpponent(row, winner, earlier) ==
    /\ winner \in {row.home, row.away}
    /\ ({row.home, row.away} \ {winner}) \cap earlier = {}

Fits(known, row, earlier) ==
    IF Len(known) = 1 THEN ByeOpponent(row, known[1], earlier)
    ELSE Holds(row, known[1], known[2])

(* placeFixedRound: the one free slot whose feeders' winners play it.      *)
PlaceAmong(view, row, open, fit) ==
    IF Cardinality(fit) = 1 THEN Place(view, Min(fit), row)
    ELSE IF fit = {} /\ open # {} THEN [view EXCEPT !.unresolved = TRUE]
    ELSE [view EXCEPT !.mismatch = TRUE]
PlaceFixed(view, f, r, row, earlier) ==
    LET free == {s \in In(f, r) : view.slots[s].game = 0 /\ f[s].from # <<>>}
        open == {s \in free : ~Decided(view, f, s)}
        fit == {s \in free \ open : Fits(Winners(view, f, s), row, earlier)}
    IN IF Reused(view, row) THEN [view EXCEPT !.mismatch = TRUE]
       ELSE PlaceAmong(Seen(view, row), row, open, fit)

Earlier(view, f, r) ==
    LET played == {s \in DOMAIN f : f[s].round < r /\ view.slots[s].game # 0}
    IN UNION {{view.slots[s].home, view.slots[s].away} : s \in played}

PlaceShare(f, share, view, r, earlier) ==
    LET Put(v, i) == IF \E s \in In(f, r) : f[s].from # <<>>
                     THEN PlaceFixed(v, f, r, share[i], earlier)
                     ELSE PlaceOpening(v, f, share[i], i)
    IN FoldLeft(Put, [view EXCEPT !.seen = {}], [i \in DOMAIN share |-> i])
PlaceRound(f, rows, view, r) ==
    LET before == Cardinality({s \in DOMAIN f : f[s].round < r})
    IN PlaceShare(f, SubSeq(rows, before + 1, Min({before + Cardinality(In(f, r)), Len(rows)})),
                  view, r, Earlier(view, f, r))

ByKickoff(rows) ==
    Sorted(rows, LAMBDA a, b : \/ a.kickoff < b.kickoff
                               \/ a.kickoff = b.kickoff /\ a.id < b.id)

StateOf(view, f, complete, empty) ==
    IF view.mismatch THEN "format_mismatch"
    ELSE IF view.unresolved THEN "unresolved"
    ELSE IF complete THEN "ready"
    ELSE IF empty THEN "empty" ELSE "partial"

ViewOf(view, state) == [state |-> state, slots |-> view.slots]

LoadedView(placed, f, count) ==
    ViewOf(placed, StateOf(placed, f, count = Len(f), count = 0))
Build(f, rows) ==
    LET RoundOf(v, r) == PlaceRound(f, ByKickoff(rows), v, r)
    IN IF Cardinality(rows) > Len(f) THEN ViewOf(Blank(f), "format_mismatch")
       ELSE LoadedView(Advanced(FoldLeft(RoundOf, Blank(f), [r \in 1 .. LastRound(f) |-> r]), f),
                   f, Cardinality(rows))

-----------------------------------------------------------------------------
(* BuildWithSeeds: seeds is a function from the resolved seeds to teams;   *)
(* the rows come in any order.                                             *)

SeedTeam(seeds, n) == IF n \in DOMAIN seeds THEN seeds[n] ELSE TBD

Expected(f, seeds) ==
    [Blank(f) EXCEPT !.slots = [s \in DOMAIN f |->
        [Nobody EXCEPT !.home = IF f[s].pair # <<>> THEN SeedTeam(seeds, f[s].pair[1])
                                ELSE SeedTeam(seeds, f[s].bye),
                       !.away = IF f[s].pair # <<>> THEN SeedTeam(seeds, f[s].pair[2]) ELSE TBD]]]

(* The pairing a slot expects.                                             *)
PlaceExpected(view, f, r, row) ==
    LET fit == {s \in In(f, r) : Holds(row, view.slots[s].home, view.slots[s].away)}
        free == {s \in fit : view.slots[s].game = 0}
    IN IF fit = {} \/ row.id \in view.placed THEN view
       ELSE IF free = {} THEN [view EXCEPT !.mismatch = TRUE]
       ELSE [Place(view, Min(free), row) EXCEPT !.placed = @ \cup {row.id}]

(* fitsUnresolvedSeedSlot: every resolved side of a slot that awaits a     *)
(* seed takes part, and nobody else holds a resolved seed.                 *)
FitsUnresolved(slot, row, seeds) ==
    LET sides == {slot.home, slot.away}
        resolved == {seeds[n] : n \in DOMAIN seeds}
    IN /\ TBD \in sides
       /\ sides \ {TBD} \subseteq {row.home, row.away}
       /\ ({row.home, row.away} \ sides) \cap resolved = {}

FirstCandidate(set) == {Min(set)} \cap set               \* slip: several are no obstacle
OnlyCandidate(set) == IF Cardinality(set) = 1 THEN set ELSE {}

PlaceCandidate(view, row, candidates) ==
    IF OnlyCandidate(candidates) = {} THEN [view EXCEPT !.seen = @ \cup {row.id}]
    ELSE [Place(view, Min(OnlyCandidate(candidates)), row) EXCEPT !.placed = @ \cup {row.id}]
PlaceUnresolved(view, f, r, row, seeds) ==
    LET candidates == {s \in In(f, r) : /\ f[s].pair # <<>> /\ view.slots[s].game = 0
                                        /\ FitsUnresolved(view.slots[s], row, seeds)}
    IN IF candidates = {} \/ row.id \in view.placed THEN view
       ELSE PlaceCandidate(view, row, candidates)

(* The ambiguous matches are collected in seen.                            *)
SeededRound(f, rows, seeds, view, r) ==
    LET ByPair(v, i) == PlaceExpected(v, f, r, rows[i])
        BySeed(v, i) == PlaceUnresolved(v, f, r, rows[i], seeds)
        all == [i \in DOMAIN rows |-> i]
    IN Advanced(FoldLeft(BySeed, FoldLeft(ByPair, view, all), all), f)

(* A match never placed contradicts the bracket, unless it is ambiguous.   *)
JudgedLeft(placed, f, rows, left) ==
    LET judged == [placed EXCEPT !.unresolved = @ \/ left \cap placed.seen # {},
                                 !.mismatch = @ \/ (left \ placed.seen) # {}]
    IN ViewOf(judged, StateOf(judged, f, Cardinality(placed.placed) = Len(f), rows = <<>>))
JudgedSeeds(placed, f, rows) ==
    JudgedLeft(placed, f, rows, {rows[i].id : i \in DOMAIN rows} \ placed.placed)
BuildWithSeeds(f, rows, seeds) ==
    LET RoundOf(v, r) == SeededRound(f, rows, seeds, v, r)
    IN JudgedSeeds(FoldLeft(RoundOf, Expected(f, seeds), [r \in 1 .. LastRound(f) |-> r]), f, rows)
=============================================================================
