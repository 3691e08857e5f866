----------------------------- MODULE Migration -----------------------------
(***************************************************************************)
(* Open and Migrate of the cache (src/internal/cache/cache.go): a database *)
(* file that an earlier release leaves behind is upgraded in place, in one *)
(* transaction of up to eighteen steps, by whichever process opens it      *)
(* first; only then does a process read and write the tables, as           *)
(* SourceCache says.  The variables of SourceCache are the COMMITTED       *)
(* tables.  "tx" is the copy the upgrade works on, which nobody else sees. *)
(*                                                                         *)
(* A transaction of SQLite begins by reading: the write lock comes with    *)
(* the first statement that writes, and is refused when another process    *)
(* has committed since the snapshot was taken.                             *)
(***************************************************************************)
EXTENDS SourceCache

CONSTANTS
    Procs,       \* processes that may open the file
    Payloads,    \* raw_json of a match row: what ASA sent when it was cached
    Garbled,     \* a payload that does not parse
    Answers      \* the rows a running process may be given

VARIABLES
    version,     \* MAX(version) of schema_migrations, 0 for a new file
    legacy,      \* what only the upgrade reads; Absent once nothing reads it
    registered,  \* discovery column of the scope's source_scopes row
    opener,      \* "closed", "reading", "writing" or "open", per process
    fresh,       \* the snapshot a reading process holds is the newest one
    tx           \* the uncommitted file of the writing process

upgradeVars == <<version, legacy, registered, opener, fresh, tx>>
allVars == <<vars, upgradeVars>>

Latest == 18
NoColumns == [minutes |-> Absent, knockout |-> FALSE]
NoSource  == [extra |-> Absent, pens |-> Absent, home |-> Absent, away |-> Absent]
Columns(d) == [minutes |-> d.minutes, knockout |-> d.knockout]

LegacyRow == [payload : [Games -> Payloads], xgAt : Moments, attempted : BOOLEAN,
              elsewhere : Moments, ambiguous : BOOLEAN]

-----------------------------------------------------------------------------
(* What the upgrade takes from a payload.  A member that is missing there  *)
(* is Absent.                                                              *)

(* backfillPlayoffGameFields, one row.                                     *)
WithColumns(d, p) ==
    IF p = Garbled THEN d
    ELSE [base     |-> d.base,
          minutes  |-> IF p.minutes # Absent /\ p.minutes >= 0 THEN p.minutes ELSE Absent,
          knockout |-> p.knockout = TRUE,
          source   |-> d.source]

(* backfillKnockoutGameSourceFields, one row: 0-0 without a shootout means *)
(* that there was none.                                                    *)
SourceOf(p) ==
    LET none == p.pens # TRUE /\ p.home = 0 /\ p.away = 0 IN
    [extra |-> p.extra, pens |-> p.pens,
     home  |-> IF none THEN Absent ELSE p.home,
     away  |-> IF none THEN Absent ELSE p.away]

WithSource(d, p) ==
    IF p = Garbled THEN d
    ELSE [base |-> d.base, minutes |-> d.minutes, knockout |-> d.knockout, source |-> SourceOf(p)]

(* validateKnockoutSourceFields: a readable payload that contradicts       *)
(* itself.                                                                 *)
Ambiguous(p) ==
    /\ p # Garbled
    /\ LET s == SourceOf(p) IN
       \/ s.home = Absent /\ s.away # Absent
       \/ s.home # Absent /\ s.away = Absent
       \/ s.home # Absent /\ s.away # Absent /\ (s.home < 0 \/ s.away < 0)
       \/ s.pens = TRUE /\ s.home = Absent
       \/ s.pens # TRUE /\ s.home # Absent

ASSUME MigrationAssumption ==
    /\ Answers \subseteq GameRow
    /\ \A d \in Details, p \in Payloads :
          /\ Columns(d) = NoColumns /\ d.source = NoSource => WithColumns(d, p) \in Details
          /\ d.source = NoSource /\ ~Ambiguous(p) => WithSource(d, p) \in Details
    /\ \A d, e \in Details : d.base = e.base => Goals[d] = Goals[e]

-----------------------------------------------------------------------------
(* A file of some version, and what each step makes of it.                 *)
FileRow == [version : 0 .. Latest,
            games : [Games -> GameRow \cup {Absent}],
            resultCheck : [Games -> CheckRow \cup {Absent}],
            xgCheck : [Games -> CheckRow \cup {Absent}],
            scope : [Resources -> ScopeRow \cup {Absent}],
            venue : VenueRow \cup {Absent},
            lastRun : RunRow \cup {Absent},
            registered : {Absent, "unknown", "not_published", "available"}]

File == [version |-> version, games |-> games, resultCheck |-> resultCheck,
         xgCheck |-> xgCheck, scope |-> scope, venue |-> venue,
         lastRun |-> lastRun, registered |-> registered]

(* Migrations 1 to 7 and 15 to 18 create tables and columns with defaults. *)
Extended(f) == [f EXCEPT !.version = @ + 1]

(* Migration 8: the venue summary of a scope that has matches.             *)
SummarisedHopefully(f) ==                \* slip: a successful xG run is taken for coverage
    [f EXCEPT !.version = 8,
              !.venue = IF Cached(f.games) = {} THEN Absent
                        ELSE [fixtureReady |-> TRUE,
                              xgReady |-> legacy.xgAt # Never,
                              results |-> Results(f.games),
                              rated   |-> Rated(f.games, xg)]]

Summarised(f) ==
    [f EXCEPT !.version = 8,
              !.venue = IF Cached(f.games) = {} THEN Absent
                        ELSE [fixtureReady |-> TRUE,
                              xgReady |-> /\ legacy.xgAt # Never
                                          /\ \A g \in Games : FullTime(f.games[g]) => xg[g] # Absent,
                              results |-> Results(f.games),
                              rated   |-> Rated(f.games, xg)]]

(* Migration 9: backfillSourceScopes, every scope with a match or a run.   *)
Registered(f) ==
    [f EXCEPT !.version = 9,
              !.registered = IF Cached(f.games) # {} THEN "available"
                             ELSE IF f.lastRun # Absent THEN "not_published"
                             ELSE IF legacy.attempted THEN "unknown" ELSE Absent]

(* Migration 10: backfillSourceResourceScopeState.  The catalog was        *)
(* refreshed with every run of every scope.                                *)
Remembered(at) == IF at = Never THEN Absent ELSE [success |-> at, due |-> Never]

Scoped(f) ==
    LET run == IF f.lastRun = Absent THEN Never ELSE f.lastRun.at IN
    [f EXCEPT !.version = 10,
              !.scope = [r \in Resources |->
                 Remembered(CASE r = "teams" -> Later(run, legacy.elsewhere)
                              [] r = "games" -> run
                              [] r = "xg"    -> legacy.xgAt)]]

(* Migrations 11 and 12: backfillGameResultChecks, backfillGameXGChecks.   *)
ResultsLedgered(f) ==
    [f EXCEPT !.version = 11,
              !.resultCheck = [g \in Games |->
                 IF f.games[g] = Absent \/ f.lastRun = Absent THEN Absent
                 ELSE [checked |-> f.lastRun.at, first |-> Never, changed |-> Never, due |-> Never]]]

XGLedgered(f) ==
    [f EXCEPT !.version = 12,
              !.xgCheck = [g \in Games |->
                 IF xg[g] = Absent THEN Absent
                 ELSE [checked |-> xg[g].checked, first |-> xg[g].first,
                       changed |-> Never, due |-> Never]]]

(* refreshFixtureSnapshotIDsForScopes: the run that is current keeps its   *)
(* place and is given the identity of the matches as they are now.         *)
Reidentified(run, table) ==
    IF run = Absent \/ Cached(table) = {} THEN run
    ELSE [at |-> run.at, snapshot |-> SnapshotID(table)]

Rewritten(table, With(_, _)) ==
    [g \in Games |-> IF table[g] = Absent THEN Absent
                     ELSE [status |-> table[g].status, pair |-> table[g].pair,
                           detail |-> With(table[g].detail, legacy.payload[g]),
                           stamp  |-> table[g].stamp]]

(* Migration 13.                                                           *)
ColumnsKeepIdentity(f) ==                \* slip: the run keeps the older identity
    [f EXCEPT !.version = 13, !.games = Rewritten(@, WithColumns)]

ColumnsFilled(f) ==
    LET table == Rewritten(f.games, WithColumns) IN
    [f EXCEPT !.version = 13, !.games = table, !.lastRun = Reidentified(@, table)]

(* Migration 14: identities are redone only where a row changed.           *)
SourceKeepsIdentity(f) ==                \* slip: the run keeps the older identity
    [f EXCEPT !.version = 14, !.games = Rewritten(@, WithSource)]

SourceFilled(f) ==
    LET table == Rewritten(f.games, WithSource) IN
    [f EXCEPT !.version = 14, !.games = table,
              !.lastRun = IF table = f.games THEN @ ELSE Reidentified(@, table)]

-----------------------------------------------------------------------------
(* What a file of its version holds.                                       *)

(* One match: its rows of both ledgers, its xG row.                        *)
Coherent(f, g) ==
    LET row == f.games[g]
        result == f.resultCheck[g]
        check == f.xgCheck[g]
    IN
    /\ row = Absent => xg[g] = Absent /\ result = Absent /\ check = Absent
    /\ row # Absent =>
          /\ {row.pair[1], row.pair[2]} \subseteq teams
          /\ f.version < 13 => Columns(row.detail) = NoColumns
          /\ f.version < 14 => row.detail.source = NoSource
    /\ xg[g] # Absent =>
          /\ xg[g].pair = row.pair
          /\ xg[g].first <= xg[g].checked
          /\ xg[g].available => Terminal(row)
    /\ f.version < 11 => result = Absent
    /\ f.version >= 11 /\ row # Absent =>
          /\ result # Absent
          /\ result.first # Never => Terminal(row)
          /\ result.first <= result.checked /\ result.changed <= result.checked
    /\ f.version < 12 => check = Absent
    /\ f.version >= 12 =>
          /\ xg[g] # Absent => check # Absent /\ xg[g].checked <= check.checked
          /\ Available(xg[g]) => check.first # Never /\ check.first <= xg[g].first
          /\ check # Absent =>
                /\ check.first # Never => Available(xg[g])
                /\ check.first <= check.checked /\ check.changed <= check.checked

(* The current run has the identity of the matches.  (A scope with a run   *)
(* but no match keeps the identity of the older release until its first    *)
(* inventory.)                                                             *)
Identified(f) ==
    f.version >= 13 /\ Cached(f.games) # {} => f.lastRun.snapshot = SnapshotID(f.games)

SummedUp(f) ==
    LET sums == IF f.venue = Absent THEN EmptyVenue ELSE f.venue IN
    IF f.version < 8 THEN f.venue = Absent
    ELSE /\ sums.xgReady => \A g \in Games : FullTime(f.games[g]) => xg[g] # Absent
         /\ sums.fixtureReady => sums.results = Results(f.games)
         /\ sums.rated = Rated(f.games, xg)

Holds(f) ==
    /\ \A g \in Games : Coherent(f, g)
    /\ f.lastRun = Absent => Cached(f.games) = {}
    /\ InOrder => Identified(f)
    /\ SummedUp(f)
    /\ f.version < 9 => f.registered = Absent
    /\ f.version < 10 => f.scope = [r \in Resources |-> Absent]

-----------------------------------------------------------------------------
(* Any file an earlier release, or this one, leaves behind.                *)
MigrationInit ==
    /\ TypeOK
    /\ File \in FileRow
    /\ IF version = Latest THEN legacy = Absent ELSE legacy \in LegacyRow
    /\ Holds(File)
    /\ opener = [p \in Procs |-> "closed"]
    /\ fresh = [p \in Procs |-> FALSE]
    /\ tx = Absent

Unlocked == \A p \in Procs : opener[p] # "writing"

(* Open of a file that needs nothing.                                      *)
OpenCurrent(p) ==
    /\ opener[p] = "closed" /\ version = Latest
    /\ opener' = [opener EXCEPT ![p] = "open"]
    /\ UNCHANGED <<vars, version, legacy, registered, fresh, tx>>

(* Migrate begins on an older file by reading its version, ...             *)
Begin(p) ==
    /\ opener[p] = "closed" /\ version \in 1 .. Latest - 1
    /\ opener' = [opener EXCEPT ![p] = "reading"]
    /\ fresh' = [fresh EXCEPT ![p] = TRUE]
    /\ UNCHANGED <<vars, version, legacy, registered, tx>>

Writes(p) ==
    /\ Unlocked
    /\ opener' = [opener EXCEPT ![p] = "writing"]
    /\ tx' = File
    /\ UNCHANGED <<vars, version, legacy, registered, fresh>>

(* ... on a new one by creating the table of versions.                     *)
BeginNew(p) == opener[p] = "closed" /\ version = 0 /\ Writes(p)

(* The first statement that changes the schema takes the write lock; ...   *)
Lock(p) == opener[p] = "reading" /\ fresh[p] /\ Writes(p)

(* ... it fails when the snapshot is stale (SQLITE_BUSY_SNAPSHOT), or when *)
(* the lock is held for longer than busy_timeout.                          *)
Refused(p) ==
    /\ opener[p] = "reading"
    /\ ~fresh[p] \/ ~Unlocked
    /\ opener' = [opener EXCEPT ![p] = "closed"]
    /\ fresh' = [fresh EXCEPT ![p] = FALSE]
    /\ UNCHANGED <<vars, version, legacy, registered, tx>>

Step(p, versions, Change(_)) ==
    /\ opener[p] = "writing" /\ tx.version \in versions
    /\ tx' = Change(tx)
    /\ UNCHANGED <<vars, version, legacy, registered, opener, fresh>>

Extend(p)         == Step(p, 0 .. 6 \cup 14 .. 17, Extended)
Summarise(p)      == Step(p, {7}, Summarised)
Register(p)       == Step(p, {8}, Registered)
ScopeStates(p)    == Step(p, {9}, Scoped)
ResultLedger(p)   == Step(p, {10}, ResultsLedgered)
XGLedger(p)       == Step(p, {11}, XGLedgered)
PlayoffColumns(p) == Step(p, {12}, ColumnsFilled)

(* A payload that contradicts itself, in any scope of the file, stops the  *)
(* whole upgrade.                                                          *)
Clear == ~legacy.ambiguous /\ \A g \in Games : tx.games[g] # Absent => ~Ambiguous(legacy.payload[g])

SourceUnchecked(p) == Step(p, {13}, SourceFilled)   \* slip: payloads are not validated

SourceFields(p) == Step(p, {13}, SourceFilled) /\ Clear

(* An error, a cancelled context or a crash: nothing of tx was written.    *)
Rollback(p) ==
    /\ opener[p] = "writing"
    /\ opener' = [opener EXCEPT ![p] = "closed"]
    /\ fresh' = [fresh EXCEPT ![p] = FALSE]
    /\ tx' = Absent
    /\ UNCHANGED <<vars, version, legacy, registered>>

Publish ==
    /\ version' = tx.version
    /\ games' = tx.games
    /\ resultCheck' = tx.resultCheck
    /\ xgCheck' = tx.xgCheck
    /\ scope' = tx.scope
    /\ venue' = tx.venue
    /\ lastRun' = tx.lastRun
    /\ registered' = tx.registered
    /\ UNCHANGED <<teams, xg>>

Commit(p) ==
    /\ opener[p] = "writing" /\ tx.version = Latest
    /\ Publish
    /\ legacy' = Absent
    /\ opener' = [opener EXCEPT ![p] = "open"]
    /\ fresh' = [q \in Procs |-> FALSE]
    /\ tx' = Absent

(* Close, or the end of a process that reads or has the file open.         *)
Close(p) ==
    /\ opener[p] \in {"reading", "open"}
    /\ opener' = [opener EXCEPT ![p] = "closed"]
    /\ fresh' = [fresh EXCEPT ![p] = FALSE]
    /\ UNCHANGED <<vars, version, legacy, registered, tx>>

(* A process that has the file open writes its source tables.              *)
Serve(p) ==
    /\ opener[p] = "open"
    /\ \/ \E batch \in TeamBatches, at \in Times : \E due \in DueAfter(at) :
             UpsertTeams(batch, at, due)
       \/ \E at \in Finish : \E due \in DueAfter(at) : EmptyDiscovery(at, due)
       \/ \E resp \in Responses(Answers), at \in Finish : \E due \in DueAfter(at) :
             ReplaceGameInventory(resp, at, due)
       \/ \E req \in SUBSET Games : \E resp \in [req -> Answers], at \in Finish :
             \E due, materialDue \in DueAfter(at) : UpsertCheckedGames(req, resp, at, due, materialDue)
       \/ \E resp \in Responses(XGValue), at \in Times : \E due \in DueAfter(at) :
             ReplaceStageXG(resp, at, due)
       \/ \E req \in SUBSET Games, resp \in Responses(XGValue), at \in Times :
             \E due, materialDue \in DueAfter(at) : UpsertCheckedXG(req, resp, at, due, materialDue)
    /\ UNCHANGED upgradeVars

MigrationNext ==
    \E p \in Procs :
       \/ OpenCurrent(p) \/ Begin(p) \/ BeginNew(p) \/ Lock(p) \/ Refused(p)
       \/ Extend(p) \/ Summarise(p) \/ Register(p) \/ ScopeStates(p)
       \/ ResultLedger(p) \/ XGLedger(p) \/ PlayoffColumns(p) \/ SourceFields(p)
       \/ Rollback(p) \/ Commit(p) \/ Close(p) \/ Serve(p)

MigrationSpec == MigrationInit /\ [][MigrationNext]_allVars

-----------------------------------------------------------------------------
(* The venue summary is never announced as xG-ready without an xG row of   *)
(* every completed match, and its sums are those of the current tables:    *)
(* the upgrade computes it once, five writers keep it in step afterwards,  *)
(* and the two steps that rewrite match rows later do not touch a sum.     *)
VenueTrue == XGReadyCoverage /\ VenueSumsCurrent

(* No process has the file open before it is of the latest version, and a  *)
(* file of the latest version can be served: the current run has the       *)
(* identity of the matches, both ledgers have their rows, and xG is of the *)
(* match as it is paired.                                                  *)
UpgradedComplete ==
    /\ (\E p \in Procs : opener[p] = "open") => version = Latest
    /\ version = Latest =>
          /\ Cached(games) # {} => SeasonReadable
          /\ XGBelongsToPairing
          /\ XGLedgerAgrees
          /\ \A g \in Cached(games) :
                /\ resultCheck[g] # Absent
                /\ resultCheck[g].first # Never => Terminal(games[g])

(* What the steps may not change of the matches and of the current run.    *)
SameFacts(table, new) ==
    \A g \in Games :
       /\ table[g] = Absent <=> new[g] = Absent
       /\ table[g] # Absent =>
             /\ new[g].status = table[g].status
             /\ new[g].pair = table[g].pair
             /\ new[g].stamp = table[g].stamp
             /\ new[g].detail.base = table[g].detail.base

SameRun(run, new) ==
    /\ run = Absent <=> new = Absent
    /\ run # Absent => new.at = run.at

(* A readable payload ends up in the columns exactly as it was sent.       *)
Sent(row, p) == /\ ~Ambiguous(p)
                /\ p # Garbled => row.detail.source = SourceOf(p)

(* The upgrade is all or nothing, loses nothing and invents nothing: until *)
(* the version changes no table does; it changes once, to the latest; the  *)
(* matches, the xG rows and every time known before stay; a file with a    *)
(* payload that contradicts itself is left alone.                          *)
UpgradeWhole ==
    [][/\ version' = version /\ version < Latest => UNCHANGED vars
       /\ version' # version =>
             /\ version' = Latest
             /\ UNCHANGED <<teams, xg>>
             /\ SameFacts(games, games') /\ SameRun(lastRun, lastRun')
             /\ version < 9 /\ Cached(games) # {} => registered' = "available"
             /\ version < 10 /\ lastRun # Absent => scope'["games"].success = lastRun.at
             /\ version >= 10 => UNCHANGED scope
             /\ version >= 11 => UNCHANGED resultCheck
             /\ version >= 12 => UNCHANGED xgCheck
             /\ version < 14 => \A g \in Cached(games) : Sent(games'[g], legacy.payload[g])]_allVars

(* The inductive invariant behind these: the file, and the copy a writing  *)
(* process works on, hold what their versions promise; the copy continues  *)
(* the file; and who may be doing what.                                    *)
Continues(f) ==
    /\ version <= f.version
    /\ SameFacts(games, f.games) /\ SameRun(lastRun, f.lastRun)
    /\ version < 9 /\ f.version >= 9 /\ Cached(games) # {} => f.registered = "available"
    /\ version < 10 /\ f.version >= 10 /\ lastRun # Absent =>
          f.scope["games"] # Absent /\ f.scope["games"].success = lastRun.at
    /\ version >= 10 => f.scope = scope
    /\ version >= 11 => f.resultCheck = resultCheck
    /\ version >= 12 => f.xgCheck = xgCheck
    /\ version < 14 /\ f.version >= 14 =>
          \A g \in Cached(games) : Sent(f.games[g], legacy.payload[g])

Draft(f) == f \in FileRow /\ Holds(f) /\ Continues(f)

MigrationInvariant ==
    /\ TypeOK
    /\ File \in FileRow /\ Holds(File)
    /\ IF version = Latest THEN legacy = Absent ELSE legacy \in LegacyRow
    /\ opener \in [Procs -> {"closed", "reading", "writing", "open"}]
    /\ fresh \in [Procs -> BOOLEAN]
    /\ \A p, q \in Procs : opener[p] = "writing" /\ opener[q] = "writing" => p = q
    /\ \A p \in Procs :
          /\ opener[p] = "open" => version = Latest
          /\ opener[p] = "reading" /\ fresh[p] => version < Latest
          /\ opener[p] = "writing" => version < Latest /\ Draft(tx)

(* The tables, upgraded and then written, implement StageLedger: a reader  *)
(* of the upgraded file is shown the matches the older file held.          *)
Shown == IF version < Latest \/ Cached(games) = {} THEN Phase ELSE Published

Upgraded == INSTANCE StageLedger WITH
    Matches   <- Games,
    phase     <- Phase,
    valued    <- {g \in Games : Available(xg[g])},
    published <- Shown

LedgerKept == Upgraded!LedgerSpec
=============================================================================
