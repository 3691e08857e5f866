----------------------------- MODULE Postseason -----------------------------
(***************************************************************************)
(* The playoffs as the site shows and forecasts them: the bracket page of  *)
(* src/internal/app, the postseason part of src/internal/simulation, and   *)
(* the shared playoff scenarios of src/internal/forecaststate.             *)
(*                                                                         *)
(* cup is a season after its last regular match.  Team i finished i-th, so *)
(* seed i is team i.  Each slot's row passes through the kinds             *)
(*    none    not published,                                               *)
(*    pre     published, not played,                                       *)
(*    drawn   completed level, its shootout not recorded yet,              *)
(*    held    stopped with a score,                                        *)
(*    over    completed with a winner.                                     *)
(* cup is a record, or NoCup in a behaviour of another part of the season. *)
(***************************************************************************)
EXTENDS Bracket

CONSTANT Cups   \* the playoffs that may begin, with what may go wrong in them

VARIABLE cup

NoCup == <<>>

Pairing(a, b) == [round |-> 1, pair |-> <<a, b>>, bye |-> 0, order |-> 0, from |-> <<>>]
Awaits(r, feeders, seed) == [round |-> r, pair |-> <<>>, bye |-> seed, order |-> 0, from |-> feeders]

(* playoffBracket: four seeds; 2021-2023's byes; eight seeds in the order  *)
(* in which 2025's quarterfinals kicked off.                               *)
Four == <<Pairing(1, 4), Pairing(2, 3), Awaits(2, <<1, 2>>, 0)>>
Byes == <<Pairing(4, 5), Pairing(3, 6), Awaits(2, <<1>>, 1), Awaits(2, <<2>>, 2),
          Awaits(3, <<3, 4>>, 0)>>
Eight == <<[Pairing(1, 8) EXCEPT !.order = 3], [Pairing(4, 5) EXCEPT !.order = 1],
           [Pairing(2, 7) EXCEPT !.order = 2], [Pairing(3, 6) EXCEPT !.order = 4],
           Awaits(2, <<1, 2>>, 0), Awaits(2, <<3, 4>>, 0), Awaits(3, <<5, 6>>, 0)>>

Qualifiers(f) == UNION {SeedsOf(f[s]) : s \in DOMAIN f}
FinalOf(f) == CHOOSE s \in DOMAIN f : f[s].round = LastRound(f)

-----------------------------------------------------------------------------
(* What has really happened.                                               *)
IsOver(s) == cup.kind[s] = "over"
Known(s) == \A w \in Feeders(cup.format, s) : IsOver(w)
TrueSides(s) == SeedsOf(cup.format[s]) \cup {cup.leader[w] : w \in Feeders(cup.format, s)}

(* Kickoffs follow the published order; the matches of a later round may   *)
(* kick off in either order.                                               *)
KickoffOf(s) ==
    LET slot == cup.format[s]
    IN slot.round * 10 + (IF slot.round = 1 /\ slot.order # 0 THEN slot.order
                          ELSE IF cup.reversed /\ slot.round > 1 THEN 9 - s ELSE s)

Row(s) ==
    LET sides == TrueSides(s)
    IN [id |-> s, home |-> Max(sides), away |-> Min(sides), kickoff |-> KickoffOf(s),
        kind |-> cup.kind[s], winner |-> cup.leader[s]]
Rows == {Row(s) : s \in {w \in DOMAIN cup.format : cup.kind[w] # "none"}}
ById(rows) == Sorted(rows, LAMBDA a, b : a.id < b.id)

(* playoffSeedsFrom: no seed of a tie the official order leaves open.      *)
Certain == [n \in Qualifiers(cup.format) \ cup.vague |-> n]
Certified == ~cup.open

-----------------------------------------------------------------------------
(* forecastPostseason.                                                     *)
PlayStarted(row) == row.kind # "pre"
ValidRow(row) == row.kind # "held"
HasScore(row) == row.kind \in {"over", "held"}   \* slip: a score is a result
HasWinner(row) == row.kind = "over"

Disagrees(view) == view.state \in {"format_mismatch", "unresolved"}

(* recordedPlayoffEliminations: the losers of completed matches, each with *)
(* the round it left in.                                                   *)
Losses(view, f) ==
    {[team |-> t, round |-> f[s].round] :
        <<s, t>> \in {<<s, t>> \in (DOMAIN f) \X Qualifiers(f) :
            /\ view.slots[s].game # 0 /\ view.slots[s].winner # TBD
            /\ t \in {view.slots[s].home, view.slots[s].away} \ {view.slots[s].winner}}}

EliminatedIn(view, f) == IF Disagrees(view) THEN {} ELSE Losses(view, f)
Eliminated(f, rows) ==
    EliminatedIn(BuildWithSeeds(f, ById({row \in rows : HasWinner(row)}), Certain), f)

NoMatch == [home |-> TBD, away |-> TBD, winner |-> TBD]
Match(slot) == IF slot.game = 0 THEN NoMatch
               ELSE [home |-> slot.home, away |-> slot.away, winner |-> slot.winner]

Withheld(lost) == [state |-> "withheld", lost |-> lost]
Open(matches) == [state |-> "open", matches |-> matches]

(* forecastPlayoffBracket and validatePlayoffBracket: no byes, each slot a *)
(* seed pair or two prior winners, every winner going to one slot.         *)
Forecastable(f) ==
    LET sources == UNION {Feeders(f, s) : s \in DOMAIN f}
    IN /\ \A s \in DOMAIN f : /\ Len(f[s].from) \in {0, 2}
                              /\ (f[s].pair = <<>>) = (f[s].from # <<>>)
       /\ \A s, w \in DOMAIN f : s # w => Feeders(f, s) \cap Feeders(f, w) = {}
       /\ Len(f) = Cardinality(Qualifiers(f)) - 1
       /\ \E s \in In(f, LastRound(f)) : (DOMAIN f) \ sources = {s}

ForecastOf(f, rows, view) ==
    IF cup.open /\ ~(\E row \in rows : PlayStarted(row)) THEN [state |-> "later"]
    ELSE IF ~Certified \/ cup.vague # {} \/ ~Forecastable(f) THEN Withheld({})
    ELSE IF \/ cup.failed
            \/ \E row \in rows : ~ValidRow(row)
            \/ Disagrees(view)
         THEN Withheld(Eliminated(f, rows))
    ELSE Open([s \in DOMAIN f |-> Match(view.slots[s])] @@ <<>>)
Forecast == ForecastOf(cup.format, Rows, BuildWithSeeds(cup.format, ById(Rows), Certain))

-----------------------------------------------------------------------------
(* playoffScenarioSlots: the unplayed slots whose participants the record  *)
(* establishes.                                                            *)
Recorded(f, matches, s) ==
    IF f[s].pair # <<>> THEN f[s].pair ELSE [i \in {1, 2} |-> matches[f[s].from[i]].winner]

Eligible(f, matches, s) ==
    /\ matches[s].winner = TBD
    /\ TBD \notin {Recorded(f, matches, s)[i] : i \in {1, 2}}

(* A link fixes the winners of some slots; it carries their participants.  *)
Accepts(f, forecast, link) ==
    \A s \in DOMAIN link :
        /\ forecast.state = "open"
        /\ Eligible(f, forecast.matches, s)
        /\ LET sides == {Recorded(f, forecast.matches, s)[i] : i \in {1, 2}}
           IN link[s].sides = sides /\ link[s].winner \in sides

(* playoffsForecast: what a reader who opens a shared link sees.  Odds are *)
(* shown, or withheld; the choices are the matches the link may still add. *)
MatchesOf(forecast) == IF forecast.state = "open" THEN forecast.matches ELSE <<>>
Offered(f, matches) == {s \in DOMAIN matches : Eligible(f, matches, s)}
LinkedPage(f, forecast, link) ==
    [state |-> forecast.state, fixed |-> link,
     choices |-> [s \in Offered(f, MatchesOf(forecast)) \ DOMAIN link |->
                     {Recorded(f, forecast.matches, s)[i] : i \in {1, 2}}]]
Opened(f, forecast, link) ==
    IF cup.open THEN [state |-> "unavailable"]
    ELSE IF ~Accepts(f, forecast, link) THEN [state |-> "stale"]
    ELSE LinkedPage(f, forecast, link)

(* applyPostseason: the recorded winners, then the scenario's.             *)
FixedWinner(matches, link, s) == IF s \in DOMAIN link THEN link[s].winner ELSE matches[s].winner
Fixed(f, matches, link) == [s \in DOMAIN f |-> FixedWinner(matches, link, s)]

Loser(sides, w) == sides \ {w}
Knocked(f, matches, link) ==
    LET fixed == Fixed(f, matches, link)
        Lost(s) == IF fixed[s] = TBD THEN {}
                   ELSE Loser({Recorded(f, matches, s)[i] : i \in {1, 2}}, fixed[s])
    IN UNION {Lost(s) : s \in DOMAIN f}
Contenders(f, matches, link) == Qualifiers(f) \ Knocked(f, matches, link)

(* run: slots in round order; an outcome gives each slot a winner among    *)
(* the two sides its topology brings together.                             *)
SidesIn(f, outcome, s) ==
    IF f[s].pair # <<>> THEN {f[s].pair[1], f[s].pair[2]}
    ELSE {outcome[f[s].from[1]], outcome[f[s].from[2]]}

Extend(f, fixed, outcomes, s) ==
    UNION {{Append(o, w) : w \in IF fixed[s] # TBD THEN {fixed[s]} ELSE SidesIn(f, o, s)} :
           o \in outcomes}

Runs(f, matches, link) ==
    LET fixed == Fixed(f, matches, link)
        Through(outcomes, s) == Extend(f, fixed, outcomes, s)
    IN FoldLeft(Through, {<<>>}, [s \in DOMAIN f |-> s])

(* The columns of a team, which carry no rounding: Through, Out in a       *)
(* round, and the champion.                                                *)
Reached(f, matches, link, t) ==
    LET fixed == Fixed(f, matches, link)
    IN {f[s].round : s \in {w \in DOMAIN f :
           \/ t \in {matches[w].home, matches[w].away}
           \/ w \in DOMAIN link /\ t \in link[w].sides
           \/ f[w].pair # <<>> /\ t \in SeedsOf(f[w])
           \/ f[w].pair = <<>> /\ t \in {fixed[v] : v \in Feeders(f, w)}}}

LeftIn(f, matches, link, t) ==
    LET fixed == Fixed(f, matches, link)
    IN {f[s].round : s \in {w \in DOMAIN f : /\ fixed[w] \notin {TBD, t}
                                             /\ t \in {Recorded(f, matches, w)[i] : i \in {1, 2}}}}

WonCup(f, matches, link, t) == FixedWinner(matches, link, FinalOf(f)) = t
-----------------------------------------------------------------------------
(* A member of Cups has a format, the vague seeds, whether kickoffs of a   *)
(* later round are reversed, whether the feed publishes in kickoff order,  *)
(* and whether refreshes and rows may be faulty and scenarios are shared.  *)
CupStart(c) ==
    [format |-> c.format, vague |-> c.vague, reversed |-> c.reversed, ordered |-> c.ordered,
     faulty |-> c.faulty, kind |-> [s \in DOMAIN c.format |-> "none"],
     leader |-> [s \in DOMAIN c.format |-> TBD],
     open |-> c.faulty, failed |-> FALSE, link |-> <<>>]
CupInit == \E c \in Cups : cup = CupStart(c)

(* A row is published when its participants are known, some feeds' in      *)
(* kickoff order.                                                          *)
PublishRow(s) ==
    /\ cup.kind[s] = "none" /\ Known(s)
    /\ cup.ordered => \A w \in DOMAIN cup.format : KickoffOf(w) < KickoffOf(s) => cup.kind[w] # "none"
    /\ cup' = [cup EXCEPT !.kind[s] = "pre"]

(* The match ends, from whatever its row said before.                      *)
PlayMatch(s) ==
    /\ cup.kind[s] \in {"pre", "drawn", "held"}
    /\ \E t \in TrueSides(s) : cup' = [cup EXCEPT !.kind[s] = "over", !.leader[s] = t]

(* The source records a result that does not say who advances.             *)
Level(s) ==
    /\ cup.faulty /\ cup.kind[s] = "pre"
    /\ cup' = [cup EXCEPT !.kind[s] = "drawn"]
Stop(s) ==
    /\ cup.faulty /\ cup.kind[s] = "pre"
    /\ \E t \in TrueSides(s) : cup' = [cup EXCEPT !.kind[s] = "held", !.leader[s] = t]

(* The last attempt to refresh the playoffs fails, or a later one does not.*)
Attempt ==
    /\ cup.faulty
    /\ cup' = [cup EXCEPT !.failed = ~@]

(* The regular season's last result reaches the cache.                     *)
CloseRegular ==
    /\ cup.open
    /\ cup' = [cup EXCEPT !.open = FALSE]

(* A reader adds a match of the page to the scenario of the link, or takes *)
(* one away.  A link is kept and opened again when more is known.          *)
Assume(s) ==
    LET page == Opened(cup.format, Forecast, cup.link)
    IN /\ cup.faulty /\ page.state = "open" /\ s \in DOMAIN page.choices
       /\ \E t \in page.choices[s] :
             cup' = [cup EXCEPT !.link = (s :> [sides |-> page.choices[s], winner |-> t]) @@ @]
Withdraw(s) ==
    LET page == Opened(cup.format, Forecast, cup.link)
    IN /\ cup.faulty /\ page.state = "open" /\ s \in DOMAIN page.fixed
       /\ cup' = [cup EXCEPT !.link = [w \in DOMAIN @ \ {s} |-> @[w]] @@ <<>>]

CupNext ==
    \/ \E s \in DOMAIN cup.format :
          PublishRow(s) \/ PlayMatch(s) \/ Level(s) \/ Stop(s) \/ Assume(s) \/ Withdraw(s)
    \/ Attempt
    \/ CloseRegular

-----------------------------------------------------------------------------
(* The bracket page tells the truth (bracket.Build and BuildWithSeeds):    *)
(* with seeds, however many of them are certain and in whatever order rows *)
(* arrive, no match stands in a slot that is not its own, and unless a     *)
(* stopped match shows a leader, every shown winner has won and every      *)
(* shown side belongs there; honest rows disagree with the bracket only    *)
(* when no seed is certain.  Without seeds the same holds of rows          *)
(* published in kickoff order.  When all is over the two views are equal.  *)
TrueSoFar(s) == SeedsOf(cup.format[s]) \cup
                {cup.leader[w] : w \in {v \in Feeders(cup.format, s) : IsOver(v)}}

Truthful(view) ==
    \A s \in DOMAIN cup.format :
       /\ view.slots[s].game \in {0, s}
       /\ \/ \E w \in DOMAIN cup.format : cup.kind[w] = "held"
          \/ /\ view.slots[s].winner # TBD => IsOver(s) /\ view.slots[s].winner = cup.leader[s]
             /\ {view.slots[s].home, view.slots[s].away} \subseteq TrueSoFar(s) \cup {TBD}

BracketTrue ==
    cup # NoCup =>
       LET f == cup.format
           seeded == BuildWithSeeds(f, ByKickoff(Rows), Certain)
           loaded == Build(f, Rows)
           level == \E s \in DOMAIN f : cup.kind[s] = "drawn"
       IN /\ Valid(f)
          /\ Truthful(seeded)
          /\ cup.vague # Qualifiers(f) => seeded.state # "format_mismatch"
          /\ cup.vague = {} => ((seeded.state = "unresolved") = level)
          /\ cup.ordered => Truthful(loaded) /\ loaded.state # "format_mismatch"
          /\ (\A s \in DOMAIN f : IsOver(s)) =>
                /\ loaded.state = "ready"
                /\ cup.vague = {} => seeded = loaded

-----------------------------------------------------------------------------
(* The postseason forecast states no more and no less than the record      *)
(* (forecastPostseason, applyPostseason, run and TeamResult): what it      *)
(* samples are exactly the completions of the results so far; "Through",   *)
(* "Out in", clinched and eliminated are what all completions share; when  *)
(* it withholds odds it still lists the recorded losses and nothing else.  *)
(* A shared scenario is refused exactly when one of its matches has been   *)
(* played meanwhile or odds are withheld; otherwise it restricts the       *)
(* completions to its own winners, and the page lets the reader decide     *)
(* exactly the matches whose participants are known and winners are not.   *)
CupCompletions ==
    LET blank == [s \in DOMAIN cup.format |-> NoMatch]
    IN {o \in Runs(cup.format, blank, <<>>) : \A s \in DOMAIN o : IsOver(s) => o[s] = cup.leader[s]}

LostIn(outcomes, t) ==
    {cup.format[s].round : s \in {w \in DOMAIN cup.format :
        \A o \in outcomes : t \in SidesIn(cup.format, o, w) /\ o[w] # t}}
PlaysIn(outcomes, t) ==
    {r \in Rounds(cup.format) : \A o \in outcomes : \E s \in In(cup.format, r) :
        t \in SidesIn(cup.format, o, s)}

Exact(matches, link) ==
    LET f == cup.format
        outcomes == {o \in CupCompletions : \A s \in DOMAIN link : o[s] = link[s].winner}
        Champions == {o[FinalOf(f)] : o \in outcomes}
    IN /\ Runs(f, matches, link) = outcomes
       /\ Contenders(f, matches, link) = Champions
       /\ \A t \in Qualifiers(f) :
             /\ WonCup(f, matches, link, t) = (Champions = {t})
             /\ Reached(f, matches, link, t) = PlaysIn(outcomes, t)
             /\ LeftIn(f, matches, link, t) = LostIn(outcomes, t)

Losers == {[team |-> t, round |-> cup.format[s].round] :
              <<s, t>> \in {<<s, t>> \in (DOMAIN cup.format) \X Qualifiers(cup.format) :
                  IsOver(s) /\ t \in TrueSides(s) /\ t # cup.leader[s]}}

PlayoffOddsExact ==
    cup # NoCup =>
       LET f == cup.format
           forecast == Forecast
           page == Opened(f, forecast, cup.link)
           outdated == \E s \in DOMAIN cup.link : IsOver(s)
       IN /\ forecast.state = "later" => Losers = {}
          /\ forecast.state = "withheld" =>
                \/ forecast.lost = Losers
                \/ forecast.lost = {} /\ (cup.open \/ cup.vague # {} \/ f = Byes)
          /\ forecast.state = "open" => Exact(forecast.matches, <<>>)
          /\ page.state = "open" =>
                /\ Exact(forecast.matches, cup.link)
                /\ DOMAIN page.choices \cup DOMAIN cup.link = {s \in DOMAIN f : Known(s) /\ ~IsOver(s)}
          /\ ~cup.open => (page.state = "stale") =
                              (cup.link # <<>> /\ (outdated \/ forecast.state = "withheld"))
=============================================================================
