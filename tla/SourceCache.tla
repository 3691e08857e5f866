---------------------------- MODULE SourceCache ----------------------------
(***************************************************************************)
(* The source tables of the SQLite cache for ONE season and stage          *)
(* (src/internal/cache): the match rows, the xG rows, the two observation  *)
(* ledgers kept per match, the freshness state of the two scoped resources *)
(* and the split venue summary.  Every write of the syncer is one database *)
(* transaction, so every operation is one action; a rejected input rolls   *)
(* back and is a guard.  The order in which observations are APPLIED is    *)
(* the order of the steps; the order in which they were MADE is the finish *)
(* time each carries, and the two may differ.                              *)
(***************************************************************************)
EXTENDS Integers, FiniteSets

CONSTANTS
    Games,       \* match identities ASA may report for the scope
    Teams,       \* team identities
    Pairs,       \* <<home, away>> pairings a match may have
    Details,     \* everything else a fixture snapshot hashes (kickoff, scores, ...)
    Goals,       \* the part of a detail the venue sums count, per detail
    Stamps,      \* last_updated_utc of a row, as naturals
    Values,      \* xG values of a match
    Splits,      \* penalty splits of an xG row
    MaxTime,     \* bound: observation seconds are 1 .. MaxTime
    Deadlines,   \* bound: the due times a request may carry
    TeamBatches, \* catalog responses: sets of teams
    Expected,    \* verified inventory expectation, or Absent
    BracketSlots,\* slots of an active public bracket, 0 for any other scope
    InOrder,     \* TRUE: game writes commit in the order of their finish times
    Absent       \* no row, SQL NULL

VARIABLES
    teams,       \* catalog table
    games,       \* games table: row per match
    resultCheck, \* game_result_checks
    xg,          \* game_xg
    xgCheck,     \* game_xg_checks
    scope,       \* source_resource_scope_state of the three resources
    venue,       \* venue_summaries row of the scope
    lastRun      \* the successful sync_runs row LastSuccess selects

vars == <<teams, games, resultCheck, xg, xgCheck, scope, venue, lastRun>>

Never == 0                 \* NULL timestamp
Times == 1 .. MaxTime
Moments == 0 .. MaxTime
Dues  == {Never} \cup Times \cup Deadlines
Resources == {"teams", "games", "xg"}
Status == {"PreMatch", "FullTime", "Abandoned"}

GameRow  == [status : Status, pair : Pairs, detail : Details, stamp : Stamps]
Fixture  == [status : Status, pair : Pairs, detail : Details]
CheckRow == [checked : Times, first : Moments, changed : Moments, due : Dues]
XGRow    == {r \in [available : BOOLEAN, pair : Pairs, value : Values \cup {Absent},
                    split : Splits \cup {Absent}, first : Moments, checked : Times] :
                /\ r.available <=> r.value # Absent
                /\ r.available <=> r.first # Never}
ScopeRow == [success : Moments, due : Dues]
VenueRow == [fixtureReady : BOOLEAN, xgReady : BOOLEAN,
             results : SUBSET (Games \X {Goals[d] : d \in Details}),
             rated : SUBSET (Games \X Values)]
RunRow   == [at : Times, snapshot : [Games -> Fixture \cup {Absent}]]

ASSUME ConstantsAssumption ==
    /\ IsFiniteSet(Games)
    /\ Pairs \subseteq Teams \X Teams
    /\ Stamps \subseteq Nat
    /\ MaxTime \in Nat \ {0}
    /\ Deadlines \subseteq Nat
    /\ TeamBatches \subseteq SUBSET Teams
    /\ BracketSlots \in Nat
    /\ InOrder \in BOOLEAN
    /\ Absent \notin GameRow \cup CheckRow \cup XGRow \cup ScopeRow
    /\ Absent \notin VenueRow \cup RunRow \cup Fixture
    /\ Absent \notin Values \cup Splits

Later(a, b)    == IF a < b THEN b ELSE a
Earliest(a, b) == IF a = Never \/ b < a THEN b ELSE a

-----------------------------------------------------------------------------
(* Rows of the games table.                                                *)

Terminal(row) == row # Absent /\ row.status # "PreMatch"
FullTime(row) == row # Absent /\ row.status = "FullTime"

FixtureOf(row) == [status |-> row.status, pair |-> row.pair, detail |-> row.detail]
SameFixture(a, b) == FixtureOf(a) = FixtureOf(b)

(* Which of two copies of a match wins.                                    *)
PreferReopened(cached, incoming) ==      \* slip: the terminal guard is missing
    /\ cached # incoming
    /\ \/ Terminal(incoming) /\ ~Terminal(cached)
       \/ ~SameFixture(cached, incoming) /\ incoming.status = "PreMatch"
       \/ incoming.stamp > cached.stamp

PreferIncoming(cached, incoming) ==
    /\ cached # incoming
    /\ Terminal(cached) => Terminal(incoming)
    /\ \/ Terminal(incoming) /\ ~Terminal(cached)
       \/ ~Terminal(cached) /\ ~Terminal(incoming) /\ ~SameFixture(cached, incoming)
       \/ incoming.stamp > cached.stamp

(* The identity of the season's fixtures: what FixtureSnapshotID hashes.   *)
SnapshotID(table) ==
    [g \in Games |-> IF table[g] = Absent THEN Absent ELSE FixtureOf(table[g])]

(* ReconcileInventory, without the historical awards: the number of        *)
(* matches and every team's appearances are the expected ones.             *)
Appearances(pair, t) == {g \in DOMAIN pair : t \in {pair[g][1], pair[g][2]}}

MeetsExpectation(pair) ==
    Expected # Absent /\ DOMAIN pair # {} =>
       LET playing == {t \in Teams : Appearances(pair, t) # {}} IN
       /\ Cardinality(DOMAIN pair) = Expected.games
       /\ Expected.teams > 0 =>
             /\ Cardinality(playing) = Expected.teams
             /\ \A t \in playing :
                   Cardinality(Appearances(pair, t)) = Expected.perTeam

Cached(table) == {g \in Games : table[g] # Absent}
PairOf(table) == [g \in Cached(table) |-> table[g].pair]

-----------------------------------------------------------------------------
(* The observation ledgers.  game_result_checks and game_xg_checks are     *)
(* updated by the same rule: "seen" is a terminal result or an available   *)
(* value, and a late observation never moves last_checked_at or the due    *)
(* time back.                                                              *)

CheckedByArrival(old, at, due, preserve, seen, material) ==   \* slip: last write wins
    IF old = Absent
    THEN [checked |-> at, first |-> IF seen THEN at ELSE Never,
          changed |-> IF material THEN at ELSE Never, due |-> due]
    ELSE [checked |-> at,
          first   |-> IF seen THEN Earliest(old.first, at) ELSE old.first,
          changed |-> IF material THEN Later(old.changed, at) ELSE old.changed,
          due     |-> IF preserve THEN old.due ELSE due]

Checked(old, at, due, preserve, seen, material) ==
    IF old = Absent
    THEN [checked |-> at,
          first   |-> IF seen THEN at ELSE Never,
          changed |-> IF material THEN at ELSE Never,
          due     |-> due]
    ELSE [checked |-> Later(old.checked, at),
          first   |-> IF seen THEN Earliest(old.first, at) ELSE old.first,
          changed |-> IF material THEN Later(old.changed, at) ELSE old.changed,
          due     |-> IF at > old.checked /\ ~preserve THEN due ELSE old.due]

(* recordSourceRefresh for a successful full refresh.                      *)
Refreshed(old, at, due) ==
    IF old = Absent \/ at > old.success
    THEN [success |-> at, due |-> due]
    ELSE old

(* insertSyncRun: LastSuccess is the run with the latest finish time, the  *)
(* last inserted one on a tie.                                             *)
RunFirstOfSecond(at, table) ==           \* slip: ties go to the earlier run
    IF lastRun = Absent \/ at > lastRun.at
    THEN [at |-> at, snapshot |-> SnapshotID(table)]
    ELSE lastRun

RunAfter(at, table) ==
    IF lastRun = Absent \/ at >= lastRun.at
    THEN [at |-> at, snapshot |-> SnapshotID(table)]
    ELSE lastRun

LatestGames ==
    Later(IF lastRun = Absent THEN Never ELSE lastRun.at,
          IF scope["games"] = Absent THEN Never ELSE scope["games"].success)
Finish == {at \in Times : InOrder => at >= LatestGames}
DueAfter(at) == {Never} \cup {t \in Deadlines : t >= at}

-----------------------------------------------------------------------------
(* The split venue summary.  Its sums are abstracted to the sets of their  *)
(* contributions: a sum is current exactly when its set is.                *)

Results(table) == {<<g, Goals[table[g].detail]>> : g \in {h \in Games : FullTime(table[h])}}

Available(row) == row # Absent /\ row.available

Rated(table, values) ==
    {<<g, values[g].value>> :
        g \in {h \in Games : FullTime(table[h]) /\ Available(values[h])}}

EmptyVenue == [fixtureReady |-> FALSE, xgReady |-> FALSE, results |-> {}, rated |-> {}]
Summary == IF venue = Absent THEN EmptyVenue ELSE venue

VenueKeepsXGReady(table, values, invalid) ==   \* slip: lost coverage is not recorded
    [Summary EXCEPT !.fixtureReady = TRUE,
                    !.results = Results(table),
                    !.rated   = IF invalid THEN Rated(table, values) ELSE @]

VenueClearsFlagOnly(table, values, invalid) ==   \* slip: the xG sums are not redone
    [Summary EXCEPT !.fixtureReady = TRUE,
                    !.results = Results(table),
                    !.xgReady = @ /\ ~invalid]

VenueAfterGames(table, values, invalid) ==
    [Summary EXCEPT !.fixtureReady = TRUE,
                    !.results = Results(table),
                    !.xgReady = @ /\ ~invalid,
                    !.rated   = IF invalid THEN Rated(table, values) ELSE @]

VenueAfterStageXG(values) ==
    [Summary EXCEPT !.xgReady = TRUE, !.rated = Rated(games, values)]

VenueAfterTargetedXG(values) ==
    [Summary EXCEPT !.rated = Rated(games, values)]

-----------------------------------------------------------------------------
Init ==
    /\ teams = {}
    /\ games = [g \in Games |-> Absent]
    /\ resultCheck = [g \in Games |-> Absent]
    /\ xg = [g \in Games |-> Absent]
    /\ xgCheck = [g \in Games |-> Absent]
    /\ scope = [r \in Resources |-> Absent]
    /\ venue = Absent
    /\ lastRun = Absent

(* UpsertTeams: the catalog only grows.                                    *)
UpsertTeams(batch, at, due) ==
    /\ batch # {}
    /\ teams' = teams \cup batch
    /\ scope' = [scope EXCEPT !["teams"] = Refreshed(@, at, due)]
    /\ UNCHANGED <<games, resultCheck, xg, xgCheck, venue, lastRun>>

(* ReplaceGameInventory of an empty response: an observation, nothing else. *)
EmptyDiscovery(at, due) ==
    /\ Cached(games) = {}
    /\ scope' = [scope EXCEPT !["games"] = Refreshed(@, at, due)]
    /\ UNCHANGED <<teams, games, resultCheck, xg, xgCheck, venue, lastRun>>

-----------------------------------------------------------------------------
(* ReplaceGameInventory of a nonempty response.                            *)

Responses(rows) == UNION {[ids -> rows] : ids \in SUBSET Games}

Accepted(resp, g) == games[g] = Absent \/ PreferIncoming(games[g], resp[g])

Inventory(resp) ==
    [g \in Games |-> IF g \notin DOMAIN resp THEN Absent
                     ELSE IF Accepted(resp, g) THEN resp[g] ELSE games[g]]

(* A surviving match whose accepted row names other participants.          *)
RepairedUnnoticed(table) == {}           \* slip: re-pairing keeps the old xG

Repaired(table) ==
    {g \in Games : games[g] # Absent /\ table[g] # Absent /\ table[g].pair # games[g].pair}

(* coverageInvalid: the set of FullTime matches changed, or an xG row went. *)
CoverageInvalid(table) ==
    \/ \E g \in Games : FullTime(games[g]) # FullTime(table[g])
    \/ \E g \in Repaired(table) : xg[g] # Absent

MaterialRow(resp, g) ==
    Accepted(resp, g) /\ (games[g] = Absent \/ ~SameFixture(games[g], resp[g]))

Dropped(table) == {g \in Games : table[g] = Absent} \cup Repaired(table)

AcceptableResponseOnly(resp) ==          \* slip: only the response is validated
    /\ DOMAIN resp # {}
    /\ \A g \in DOMAIN resp : {resp[g].pair[1], resp[g].pair[2]} \subseteq teams
    /\ MeetsExpectation([g \in DOMAIN resp |-> resp[g].pair])

InventoryAcceptable(resp) ==
    /\ DOMAIN resp # {}
    /\ \A g \in DOMAIN resp : {resp[g].pair[1], resp[g].pair[2]} \subseteq teams
    /\ MeetsExpectation([g \in DOMAIN resp |-> resp[g].pair])
    /\ MeetsExpectation(PairOf(Inventory(resp)))

ReplaceGameInventory(resp, at, due) ==
    LET table == Inventory(resp)
        values == [g \in Games |-> IF g \in Dropped(table) THEN Absent ELSE xg[g]]
    IN
    /\ InventoryAcceptable(resp)
    /\ games' = table
    /\ xg' = values
    /\ xgCheck' = [g \in Games |-> IF g \in Dropped(table) THEN Absent ELSE xgCheck[g]]
    /\ resultCheck' = [g \in Games |->
          IF g \notin DOMAIN resp THEN Absent
          ELSE Checked(resultCheck[g], at, Never, TRUE, Terminal(resp[g]), MaterialRow(resp, g))]
    /\ venue' = IF SnapshotID(games) = SnapshotID(table) THEN venue
                ELSE VenueAfterGames(table, values, CoverageInvalid(table))
    /\ lastRun' = RunAfter(at, table)
    /\ scope' = [scope EXCEPT !["games"] = Refreshed(@, at, due)]
    /\ UNCHANGED teams

-----------------------------------------------------------------------------
(* UpsertCheckedGames: the polled subset of the matches.                   *)

TargetedTable(resp) ==
    [g \in Games |-> IF g \in DOMAIN resp /\ PreferIncoming(games[g], resp[g])
                     THEN resp[g] ELSE games[g]]

(* accelerateIncompleteBracketDiscovery: wake the full discovery of a      *)
(* bracket that still lacks matches.                                       *)
AcceleratedTooLate(old, at, table) ==    \* slip: off by one on the missing matches
    IF /\ SnapshotID(games) # SnapshotID(table)
       /\ Cardinality(Cached(table)) + 1 < BracketSlots
    THEN [success |-> IF old = Absent THEN Never ELSE old.success, due |-> at]
    ELSE old

Accelerated(old, at, table) ==
    IF /\ SnapshotID(games) # SnapshotID(table)
       /\ Cardinality(Cached(table)) < BracketSlots
    THEN [success |-> IF old = Absent THEN Never ELSE old.success, due |-> at]
    ELSE old

UpsertCheckedGames(req, resp, at, due, materialDue) ==
    LET table == TargetedTable(resp)
        material(g) == ~SameFixture(games[g], table[g])
    IN
    /\ req # {} /\ req \subseteq Cached(games)
    /\ DOMAIN resp \subseteq req
    /\ \A g \in DOMAIN resp : resp[g].pair = games[g].pair
    /\ games' = table
    /\ resultCheck' = [g \in Games |->
          IF g \notin req THEN resultCheck[g]
          ELSE Checked(resultCheck[g], at,
                       IF material(g) /\ materialDue # Never THEN materialDue ELSE due,
                       FALSE, g \in DOMAIN resp /\ Terminal(resp[g]), material(g))]
    /\ scope' = [scope EXCEPT !["games"] = Accelerated(@, at, table)]
    /\ venue' = IF SnapshotID(games) = SnapshotID(table) THEN venue
                ELSE VenueAfterGames(table, xg, CoverageInvalid(table))
    /\ lastRun' = RunAfter(at, table)
    /\ UNCHANGED <<teams, xg, xgCheck>>

-----------------------------------------------------------------------------
(* xG.  A value is [value, split]; the source identity check makes its     *)
(* participants those of the cached match.                                 *)

XGValue == [value : Values, split : Splits \cup {Absent}]

XGAccepted(old, at) == ~Available(old) \/ at > old.checked

XGWritten(g, old, v, at) ==
    [available |-> TRUE,
     pair      |-> games[g].pair,
     value     |-> v.value,
     split     |-> IF v.split = Absent /\ Available(old) THEN old.split ELSE v.split,
     first     |-> IF Available(old) THEN old.first ELSE at,
     checked   |-> IF old = Absent THEN at ELSE Later(old.checked, at)]

WriteAvailable(g, v, at) ==
    IF XGAccepted(xg[g], at) THEN XGWritten(g, xg[g], v, at) ELSE xg[g]

EraseOmitted(g, at) ==                   \* slip: an omission overwrites the row
    [available |-> FALSE, pair |-> games[g].pair, value |-> Absent,
     split |-> Absent, first |-> Never, checked |-> at]

WriteUnavailable(g, at) ==
    IF xg[g] = Absent
    THEN [available |-> FALSE, pair |-> games[g].pair, value |-> Absent,
          split |-> Absent, first |-> Never, checked |-> at]
    ELSE [xg[g] EXCEPT !.checked = Later(@, at)]

MaterialXG(g, v, at) ==
    XGAccepted(xg[g], at) /\ (~Available(xg[g]) \/ xg[g].value # v.value)

Completed == {g \in Games : FullTime(games[g])}

ReplaceStageXG(resp, at, due) ==
    LET values == [g \in Games |-> IF g \in DOMAIN resp THEN WriteAvailable(g, resp[g], at)
                                   ELSE IF g \in Completed THEN WriteUnavailable(g, at)
                                   ELSE xg[g]]
    IN
    /\ DOMAIN resp \subseteq Completed
    /\ xg' = values
    /\ xgCheck' = [g \in Games |->
          IF g \notin Completed THEN xgCheck[g]
          ELSE Checked(xgCheck[g], at, Never, TRUE, g \in DOMAIN resp,
                       IF g \in DOMAIN resp THEN MaterialXG(g, resp[g], at) ELSE FALSE)]
    /\ venue' = VenueAfterStageXG(values)
    /\ scope' = [scope EXCEPT !["xg"] = Refreshed(@, at, due)]
    /\ UNCHANGED <<teams, games, resultCheck, lastRun>>

UpsertCheckedXG(req, resp, at, due, materialDue) ==
    LET values == [g \in Games |-> IF g \in DOMAIN resp THEN WriteAvailable(g, resp[g], at)
                                   ELSE xg[g]]
        material(g) == IF g \in DOMAIN resp THEN MaterialXG(g, resp[g], at) ELSE FALSE
    IN
    /\ req # {} /\ req \subseteq Completed
    /\ DOMAIN resp \subseteq req
    /\ xg' = values
    /\ xgCheck' = [g \in Games |->
          IF g \notin req THEN xgCheck[g]
          ELSE Checked(xgCheck[g], at,
                       IF material(g) /\ materialDue # Never THEN materialDue ELSE due,
                       FALSE, g \in DOMAIN resp, material(g))]
    /\ venue' = IF \E g \in req : material(g) THEN VenueAfterTargetedXG(values) ELSE venue
    /\ UNCHANGED <<teams, games, resultCheck, scope, lastRun>>

-----------------------------------------------------------------------------
Next ==
    \/ \E batch \in TeamBatches, at \in Times : \E due \in DueAfter(at) :
          UpsertTeams(batch, at, due)
    \/ \E at \in Finish : \E due \in DueAfter(at) : EmptyDiscovery(at, due)
    \/ \E resp \in Responses(GameRow), at \in Finish : \E due \in DueAfter(at) :
          ReplaceGameInventory(resp, at, due)
    \/ \E req \in SUBSET Games, resp \in Responses(GameRow), at \in Finish :
          \E due, materialDue \in DueAfter(at) :
             UpsertCheckedGames(req, resp, at, due, materialDue)
    \/ \E resp \in Responses(XGValue), at \in Times : \E due \in DueAfter(at) :
          ReplaceStageXG(resp, at, due)
    \/ \E req \in SUBSET Games, resp \in Responses(XGValue), at \in Times :
          \E due, materialDue \in DueAfter(at) :
             UpsertCheckedXG(req, resp, at, due, materialDue)

Spec == Init /\ [][Next]_vars

-----------------------------------------------------------------------------
(* Every table holds rows of its schema.                                   *)
TypeOK ==
    /\ teams \subseteq Teams
    /\ games \in [Games -> GameRow \cup {Absent}]
    /\ resultCheck \in [Games -> CheckRow \cup {Absent}]
    /\ xg \in [Games -> XGRow \cup {Absent}]
    /\ xgCheck \in [Games -> CheckRow \cup {Absent}]
    /\ scope \in [Resources -> ScopeRow \cup {Absent}]
    /\ venue \in VenueRow \cup {Absent}
    /\ lastRun \in RunRow \cup {Absent}

(* A venue summary announced as xG-ready covers every completed match: no  *)
(* sequence of inventories, targeted results, corrections and xG responses *)
(* leaves a FullTime match without an xG row behind a ready flag.          *)
XGReadyCoverage ==
    venue # Absent /\ venue.xgReady => \A g \in Completed : xg[g] # Absent

(* The persisted venue sums are the sums over the current tables, whichever *)
(* of the five writers ran last; fixture sums count from the first         *)
(* inventory, xG sums as long as the summary exists.                       *)
VenueSumsCurrent ==
    venue # Absent =>
       /\ venue.fixtureReady => venue.results = Results(games)
       /\ venue.rated = Rated(games, xg)

(* Both xG tables describe the match as it is paired now: when an          *)
(* inventory re-pairs a match, nothing measured for the old pairing stays. *)
XGBelongsToPairing ==
    \A g \in Games :
       /\ games[g] = Absent => xg[g] = Absent /\ xgCheck[g] = Absent
       /\ xg[g] # Absent => xg[g].pair = games[g].pair

(* The result ledger agrees with the match row: a first terminal sighting  *)
(* exists exactly for terminal matches, and no recorded sighting or change *)
(* is later than the last check, in whatever order observations arrive.    *)
ResultLedgerAgrees ==
    \A g \in Games :
       /\ games[g] = Absent <=> resultCheck[g] = Absent
       /\ games[g] # Absent =>
             /\ Terminal(games[g]) <=> resultCheck[g].first # Never
             /\ resultCheck[g].first <= resultCheck[g].checked
             /\ resultCheck[g].changed <= resultCheck[g].checked

(* The xG ledger agrees with the xG row: an available value is known to    *)
(* both or to neither, the ledger's first sighting is the earlier one, and *)
(* no xG row was checked more recently than its ledger says.               *)
XGLedgerAgrees ==
    \A g \in Games :
       /\ xg[g] # Absent =>
             /\ xgCheck[g] # Absent
             /\ xg[g].first <= xg[g].checked
             /\ xg[g].checked <= xgCheck[g].checked
       /\ Available(xg[g]) => /\ xgCheck[g].first # Never
                              /\ xgCheck[g].first <= xg[g].first
       /\ xgCheck[g] # Absent /\ xgCheck[g].first # Never => Available(xg[g])

(* Season refuses to serve fixtures other than those of the run it selects.*)
SeasonServed == lastRun # Absent => lastRun.snapshot = SnapshotID(games)

(* Season and ClinchingInputs can serve the scope: the run LastSuccess     *)
(* selects published exactly the cached fixtures, and their participants   *)
(* are in the catalog.  Needs InOrder: the stage lease orders the writes.  *)
SeasonReadable ==
    /\ SeasonServed
    /\ lastRun = Absent => Cached(games) = {}
    /\ \A g \in Cached(games) : {games[g].pair[1], games[g].pair[2]} \subseteq teams

(* A nonempty cached inventory always meets the catalog's expectation,     *)
(* although the stored rows may come from several partly refused responses. *)
InventoryComplete == MeetsExpectation(PairOf(games))

(* Both ledgers agree with the match tables.                               *)
LedgersAgree == ResultLedgerAgrees /\ XGLedgerAgrees

-----------------------------------------------------------------------------
(* A terminal match stays terminal until an inventory removes it.          *)
TerminalStays ==
    [][\A g \in Games : Terminal(games[g]) /\ games'[g] # Absent => Terminal(games'[g])]_vars

(* An available xG value, and a penalty split once seen, is never erased   *)
(* while the match keeps its pairing: not by an omission, not by a         *)
(* response without a split, not by a late observation.                    *)
XGNeverErased ==
    [][\A g \in Games :
          /\ Available(xg[g])
          /\ games'[g] # Absent
          /\ games'[g].pair = games[g].pair
          => /\ Available(xg'[g])
             /\ xg[g].split # Absent => xg'[g].split # Absent]_vars

(* Freshness never runs backwards: neither the last successful full        *)
(* refresh of a resource nor the last check of a surviving match or of     *)
(* its xG gets earlier, whatever the order in which observations commit.   *)
FreshnessMonotone ==
    [][/\ \A r \in Resources :
             scope[r] # Absent => scope'[r] # Absent /\ scope[r].success <= scope'[r].success
       /\ \A g \in Games :
             /\ resultCheck[g] # Absent /\ resultCheck'[g] # Absent =>
                    resultCheck[g].checked <= resultCheck'[g].checked
             /\ xgCheck[g] # Absent /\ xgCheck'[g] # Absent =>
                    xgCheck[g].checked <= xgCheck'[g].checked]_vars

(* A value replaces an available one only when it was observed strictly    *)
(* later than the cached check.                                            *)
XGCorrectionsAreNewer ==
    [][\A g \in Games :
          Available(xg[g]) /\ Available(xg'[g]) /\ xg[g].pair = xg'[g].pair
             /\ xg[g].value # xg'[g].value => xg[g].checked < xg'[g].checked]_vars

(* While an active bracket lacks matches, a run that changed its fixtures  *)
(* leaves full discovery due at once (or was itself that discovery), and   *)
(* the wake-up goes away only with a later successful full refresh.        *)
Revisited ==
    LET before == scope["games"]
        after  == scope'["games"]
        changed == SnapshotID(games) # SnapshotID(games')
    IN
    /\ changed /\ Cardinality(Cached(games')) < BracketSlots =>
          \/ after.success = lastRun'.at
          \/ after.due # Never /\ after.due <= lastRun'.at
    /\ before # Absent /\ before.due # Never /\ after.due # before.due =>
          \/ after.success > before.success
          \/ changed /\ after.due = lastRun'.at

BracketRevisited == [][Revisited]_vars

(* Nothing a late, shorter or repeated answer says takes knowledge back:   *)
(* results stay, times do not run backwards.                               *)
LateAnswersHarmless == TerminalStays /\ FreshnessMonotone

(* xG is kept through omissions and corrected by newer observations only.  *)
XGOnlyImproves == XGNeverErased /\ XGCorrectionsAreNewer

(* docs/sync-logic-guide.md: "xG rows are deleted only with their parent   *)
(* match".                                                                 *)
XGDeletedOnlyWithMatch ==
    [][\A g \in Games : xg[g] # Absent /\ xg'[g] = Absent => games'[g] = Absent]_vars

-----------------------------------------------------------------------------
(* The promise to the readers.                                             *)

PhaseOf(row) == IF row = Absent THEN "unknown"
                ELSE IF Terminal(row) THEN "over" ELSE "open"

Phase == [g \in Games |-> PhaseOf(games[g])]

Published == IF lastRun = Absent THEN Phase
             ELSE [g \in Games |-> PhaseOf(lastRun.snapshot[g])]

Ledger == INSTANCE StageLedger WITH
    Matches   <- Games,
    phase     <- Phase,
    valued    <- {g \in Games : Available(xg[g])},
    published <- Published

(* The merged tables implement StageLedger: readers see every change of    *)
(* the matches in the step that makes it, results only move forward, and   *)
(* xG values appear only for matches that are over.  Needs InOrder.        *)
ImplementsLedger == Ledger!LedgerSpec
=============================================================================
