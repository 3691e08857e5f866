------------------------------ MODULE Planner ------------------------------
(***************************************************************************)
(* Plan of src/internal/scheduler/planner.go: which source requests are    *)
(* due, in which order, given one snapshot of the cache and a time.  It    *)
(* has no variables.  A snapshot gives every registered scope a view:      *)
(*   games       cached match -> [status, scored, kickoff, ...]            *)
(*   checks      match -> [last, terminal, due]  (result ledger)           *)
(*   xg          matches with an available xG row                          *)
(*   xgChecks    match -> last xG check                                    *)
(*   gamesFull, xgFull   [last, due] of the two full refreshes             *)
(* Span attributes and the expectation a full request carries are left     *)
(* out: neither changes what is requested.                                 *)
(***************************************************************************)
EXTENDS Integers, Sequences, FiniteSetsExt

CONSTANTS
    Scopes,      \* registered scopes
    Catalog,     \* scope -> [season, stage, lifecycle, rank, offered, kind, primary,
                 \*           slots, expected, order]; the lifecycle of a scope
                 \* is set when the process starts
    Configured,  \* the scope the process is configured for
    Cadence      \* intervals and windows of scheduler.Config, and its budget

Never == -1                                  \* a nil time
Season == Catalog[Configured].season

ASSUME PlannerAssumption ==
    /\ Configured \in Scopes
    /\ DOMAIN Catalog = Scopes
    /\ \A s \in Scopes : Catalog[s].kind \in {"league", "knockout", "group"}
    /\ IsFiniteSet(Scopes)
    /\ {Cadence.inventory, Cadence.playoff, Cadence.cold} \subseteq Nat \ {0}

(* Order of tuples of integers: how the Go comparison functions compare.   *)
Precedes(a, b) ==
    \E i \in DOMAIN a : a[i] < b[i] /\ \A j \in 1 .. i - 1 : a[j] = b[j]

-----------------------------------------------------------------------------
(* What is due.                                                            *)

Scored(game) == (game.status = "full") /\ game.scored
Terminal(game) == (game.status = "abandoned") \/ Scored(game)

Due(at, now) == (at = Never) \/ at <= now
FullDue(full, now) == Due(full.due, now)
Elapsed(last, interval, now) == (last = Never) \/ last + interval <= now
Within(game, window, now) == (game.kickoff # Never) /\ now < game.kickoff + window

(* Open matches follow their due time, settled ones the correction window. *)
ResultDue(game, check, now) ==
    IF Terminal(game)
    THEN Within(game, Cadence.gameWindow, now) /\ Elapsed(check.last, Cadence.correction, now)
    ELSE /\ game.status = "pre" =>
               game.kickoff # Never /\ game.kickoff + Cadence.grace <= now
         /\ Due(check.due, now)

ResultCadence(game) == IF Terminal(game) THEN Cadence.correction ELSE Cadence.check

XGDue(game, available, last, now) ==
    /\ Scored(game)
    /\ IF available
       THEN Within(game, Cadence.xgWindow, now) /\ Elapsed(last, Cadence.xgCorrection, now)
       ELSE Within(game, Cadence.missingWindow, now) /\ Elapsed(last, Cadence.missingXG, now)

Available(view) == DOMAIN view.games # {}     \* readiness of a scope
Whole(s, view) == Available(view) /\ Cardinality(DOMAIN view.games) = Catalog[s].expected

(* The bracket of the scope has more slots than matches are known.         *)
BracketOpen(s, view) ==
    Catalog[s].offered /\ Catalog[s].slots > 0 /\ Cardinality(DOMAIN view.games) < Catalog[s].slots

RegularSeason(s) == Catalog[s].season = Season /\ Catalog[s].stage = "Regular Season"

(* When the current regular season was seen complete, or Never.            *)
Completion(snap) ==
    LET done == {s \in DOMAIN snap :
                   /\ RegularSeason(s) /\ Whole(s, snap[s])
                   /\ \A g \in DOMAIN snap[s].games : Scored(snap[s].games[g])}
        seen(s) == {snap[s].checks[g].terminal : g \in DOMAIN snap[s].games} \ {Never}
    IN IF done = {} THEN Never
       ELSE LET s == CHOOSE s \in done : TRUE
            IN IF seen(s) # {} THEN Max(seen(s))
               ELSE IF snap[s].gamesFull.last # Never THEN snap[s].gamesFull.last ELSE 0

(* Hourly discovery of playoff matches between the end of the regular      *)
(* season and the publication of the last match of the bracket.            *)
Accelerated(s, view, completion) ==
    /\ completion # Never
    /\ Catalog[s].season = Season /\ Catalog[s].stage = "Playoffs"
    /\ Catalog[s].lifecycle = "active"
    /\ BracketOpen(s, view)

DiscoveryOnce(s, view, now, completion) ==      \* slip: no hourly repetition
    \/ FullDue(view.gamesFull, now)
    \/ Accelerated(s, view, completion) /\ view.gamesFull.last < completion

DiscoveryDue(s, view, now, completion) ==
    \/ FullDue(view.gamesFull, now)
    \/ /\ Accelerated(s, view, completion)
       /\ \/ view.gamesFull.last < completion          \* also when Never
          \/ Elapsed(view.gamesFull.last, Cadence.playoff, now)

-----------------------------------------------------------------------------
(* Jobs.  A plan is a set of jobs; their turns say in which order they run.*)

Before(job, other) == Precedes(job.turn, other.turn)
First(jobs, n) == {j \in jobs : Cardinality({k \in jobs : Before(k, j)}) < n}

NoGames == [g \in {} |-> 0]
FullJob(kind, s, turn, reason, next) ==
    [kind |-> kind, scope |-> s, turn |-> turn, reason |-> reason, next |-> next,
     games |-> NoGames]
CheckedJob(kind, s, turn, games) ==
    [kind |-> kind, scope |-> s, turn |-> turn, reason |-> "poll", next |-> Never,
     games |-> games]

Discovery(s, view, turn, reason, completion) ==
    FullJob("games", s, turn, reason,
            IF Accelerated(s, view, completion) THEN Cadence.playoff ELSE Cadence.inventory)

Planned(s) ==
    \/ s = Configured
    \/ Catalog[s].season = Season /\ Catalog[s].lifecycle = "active" /\ Catalog[s].offered
    \/ Catalog[s].lifecycle = "completed"
    \/ Catalog[s].lifecycle = "upcoming" /\ Catalog[s].stage = "Regular Season"

(* A completed season is planned only until both of its first loads are in.*)
Bootstrapping(s, view) ==
    Catalog[s].lifecycle = "completed" =>
       Catalog[s].offered /\ ~(Available(view) /\ view.xgFull.last # Never)

PlanningScopes(snap) == {s \in DOMAIN snap : Planned(s) /\ Bootstrapping(s, snap[s])}

(* Scopes in the order of a plan, and in that of their first inventories.  *)
PlanningKey(s) ==
    <<-Catalog[s].season,
      IF Catalog[s].season # Season \/ Catalog[s].kind = "league" THEN 0 ELSE 1,
      Catalog[s].rank>>

MissingKey(s) ==
    LET e == Catalog[s] IN
    <<IF s = Configured \/ (e.season = Season /\ e.primary) THEN 0
      ELSE IF e.season = Season THEN 1 ELSE IF e.primary THEN 2 ELSE 3,
      -e.season,
      IF s = Configured THEN 0 ELSE IF e.season = Season /\ e.primary THEN 1 ELSE e.order,
      e.rank>>

(* Priorities 3 to 6 are gone through for the leagues, then the knockouts. *)
Turn(priority, s) ==
    <<IF priority > 2 /\ Catalog[s].kind = "knockout" THEN priority + 4 ELSE priority>>
    \o PlanningKey(s)

MissingInventory(snap, now, completion) ==
    {Discovery(s, snap[s], <<1>> \o MissingKey(s), "missing", completion) :
        s \in {s \in PlanningScopes(snap) :
                  ~Available(snap[s]) /\ DiscoveryDue(s, snap[s], now, completion)}}

BracketDiscovery(snap, now, completion) ==
    {Discovery(s, snap[s], Turn(2, s), "bracket", completion) :
        s \in {s \in PlanningScopes(snap) :
                  /\ Catalog[s].kind = "knockout" /\ BracketOpen(s, snap[s])
                  /\ Catalog[s].lifecycle = "active" /\ Available(snap[s])
                  /\ DiscoveryDue(s, snap[s], now, completion)}}

ResultsDue(view, now) ==
    [g \in {g \in DOMAIN view.games : ResultDue(view.games[g], view.checks[g], now)} |->
        ResultCadence(view.games[g])]

CheckedGames(snap, now) ==
    {CheckedJob("results", s, Turn(3, s), ResultsDue(snap[s], now)) :
        s \in {s \in PlanningScopes(snap) : DOMAIN ResultsDue(snap[s], now) # {}}}

InitialDue(view) == Available(view) /\ view.xgFull.last = Never

InitialXG(snap) ==
    {FullJob("xg", s, Turn(4, s), "initial", Never) :
        s \in {s \in PlanningScopes(snap) : InitialDue(snap[s])}}

MatchesXGDue(view, now) ==
    [g \in {g \in DOMAIN view.games :
              XGDue(view.games[g], g \in view.xg, view.xgChecks[g], now)} |->
        IF g \in view.xg THEN Cadence.xgCorrection ELSE Cadence.missingXG]

CheckedXG(snap, now) ==
    {CheckedJob("checkedXG", s, Turn(5, s), MatchesXGDue(snap[s], now)) :
        s \in {s \in PlanningScopes(snap) :
                  ~InitialDue(snap[s]) /\ DOMAIN MatchesXGDue(snap[s], now) # {}}}

(* A bracket completed by an hourly discovery goes back to weekly audits.  *)
BracketSettled(s, view, now) ==
    /\ Catalog[s].season = Season /\ Catalog[s].stage = "Playoffs"
    /\ Catalog[s].slots > 0 /\ Cardinality(DOMAIN view.games) >= Catalog[s].slots
    /\ view.gamesFull.last # Never /\ now < view.gamesFull.last + Cadence.inventory

WeeklyInventory(snap, now, completion) ==
    {FullJob("games", s, Turn(6, s), "weekly", Cadence.inventory) :
        s \in {s \in PlanningScopes(snap) :
                  /\ Available(snap[s]) /\ Catalog[s].lifecycle # "completed"
                  /\ ~Accelerated(s, snap[s], completion)
                  /\ FullDue(snap[s].gamesFull, now)
                  /\ ~BracketSettled(s, snap[s], now)}}

HotJobs(snap, now) ==
    LET completion == Completion(snap)
    IN MissingInventory(snap, now, completion) \cup BracketDiscovery(snap, now, completion)
       \cup CheckedGames(snap, now) \cup InitialXG(snap) \cup CheckedXG(snap, now)
       \cup WeeklyInventory(snap, now, completion)

-----------------------------------------------------------------------------
(* The archive: one cold job, and only when nothing hot is due.            *)

(* Without a recorded due time the first sweep of a scope falls at an      *)
(* offset inside the interval, a hash of the scope: its rank here.         *)
ColdDueAt(s, full) ==
    IF full.due # Never THEN full.due ELSE full.last + (Catalog[s].rank % Cadence.cold)

ColdInCatalogOrder(kind, s, due) ==       \* slip: not the longest wait first
    FullJob(kind, s, <<-Catalog[s].season, Catalog[s].rank, due>>, "sweep", Cadence.cold)

ColdSweep(kind, s, due) ==
    FullJob(kind, s, <<due, -Catalog[s].season, Catalog[s].rank>>, "sweep", Cadence.cold)

ColdJobs(snap, now) ==
    LET ready == {s \in DOMAIN snap : /\ Catalog[s].lifecycle = "completed"
                                      /\ Available(snap[s])
                                      /\ snap[s].gamesFull.last # Never}
        gamesDue(s) == ColdDueAt(s, snap[s].gamesFull)
        xgDue(s) == ColdDueAt(s, snap[s].xgFull)
        behind(s) == snap[s].xgFull.last < snap[s].gamesFull.last      \* also when Never
    IN {ColdSweep("games", s, gamesDue(s)) : s \in {s \in ready : gamesDue(s) <= now}}
       \cup {ColdSweep("xg", s, snap[s].gamesFull.last) :
               s \in {s \in ready : gamesDue(s) > now /\ behind(s)}}
       \cup {ColdSweep("games", s, xgDue(s)) :
               s \in {s \in ready : gamesDue(s) > now /\ ~behind(s) /\ xgDue(s) <= now}}

Plan(snap, now) ==
    LET hot == HotJobs(snap, now) IN
    IF hot # {} THEN First(hot, Cadence.budget) ELSE First(ColdJobs(snap, now), 1)
=============================================================================
