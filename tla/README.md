# NWSL season server: TLA+ models and proofs

Formal models of this repository's own core logic: the SQLite cache that merges
what American Soccer Analysis (ASA) reports, the leases under which several
processes write it, the scheduler and syncer that fill it, the calculations
derived from it, and the claims about the season that are published from it. The
models are checked with TLC on small instances; the invariants of the stateful
parts are proved with TLAPS for every value of the constants. `PROJECT.json` maps
each definition to the lines it translates and lists the runs, the mutants that show each
property can fail, the hazards of the code, and the theorems.

Paths below are relative to `src/`.

1. Inventory — 2. Modules — 3. Runs — 4. Proofs — 5. What is left out —
6. Where documents and code differ — 7. Plan

## 1. Inventory

### The system

A server (`cmd/server`) answers HTTP requests from a local cache and keeps the cache
current with a background scheduler. A maintenance sweep and a manual command
(`cmd/sync`) may work on the same cache file from other processes. Everything that
lasts is in one SQLite database (WAL mode, one connection pool per process).

    ASA ──HTTP──> syncer operations ──one transaction each──> cache tables
                        ^    under a lease                        │
      planner ─jobs─> scheduler / cmd/sync                        │ reads
         ^                 │                                      v
         └─planning snapshot─┘          qualification, scenario refresh
                                                  │ publish batches
      HTTP handlers <── forecast executor <───────┴── cache readers

| component | state it keeps | operations | correct when |
|---|---|---|---|
| stage tables of the cache (`internal/cache`: `game_inventory`, `game_checks`, `xg_inventory`, `xg_checks`, `source_refresh`, `teams`) | match rows, xG rows, a ledger of observations of each, freshness per resource, the split venue summary, successful runs | six transactions: catalog, empty discovery, full inventory, targeted results, stage xG, targeted xG | merging observations in any order loses no final result and no xG; ledgers, sums and freshness agree with the rows; readers can always load what is stored |
| schema and upgrade of the cache file (`cache.go`: `Open`, `Migrate`) | `schema_migrations`, and every table while it upgrades | open a file of any version; eighteen steps in one transaction; roll back or commit | the upgrade is whole or did not happen; nothing is lost; what comes out can be served |
| sync leases (`cache.go`, used by `scheduler.executeJob` and `syncer.Service.Run`) | rows of `sync_leases`: holder, expiry | acquire, release, expiry, pruning | writers of a stage exclude each other; archived requests exclude each other everywhere; commits of a stage follow finish times |
| derived batches (`syncer.refreshCalculations`, `qualification`, `scenariorefresh`) | `qualification_runs`, `scenario_runs` and their rows | look up, calculate, publish or record a failure; season after next slate | a batch belongs to the fixtures it names; lineage is intact; a full batch is eventually served |
| history prune (`prune.go`) | none | delete superseded runs and expired leases | answers and lineage survive it |
| syncer operations (`syncer`, `asa/client.go`) | none but the audits it writes | one request, team recovery and one retry, penalty split, store, audit; the compatibility run; the detached calculation | audits say what was stored; a run that reports no failure has calculated; splits survive |
| source scopes (`source_scopes.go`) | scope registry | register, promote, roll over a year, at each start | lifecycles follow the year and only move forward |
| planner (`scheduler/planner.go`) | none: a function of a planning snapshot | choose at most the budget of due jobs, or one archived one | due work in priority order, no stage starved |
| scheduler loop (`scheduler/scheduler.go`) | last outcome, goroutine | start, bootstrap, tick, `CheckNow`, `Stop` | one check at a time; what is due is done in time; a failed job does not stop later checks |
| forecast executor (`app/forecast_executor.go`) | bounded result cache, slots | look up, run missing simulations, insert, evict | answers are of the inputs that were read; slots returned, cache bounded |
| lifetime, server assembly, shutdown (`lifetime`, `server`, `cmd/server`) | owner contexts | detach, stop, wait | nobody uses the database after it is closed; a signal ends the process |
| standings, clinching, scenarios | none | ranking, proofs over remaining results, clauses, rival summaries, seedings | what is claimed is what the season brings |
| bracket, playoff forecast | none | reconstruction, certainties, odds, shared scenarios | the page and the odds agree with what has happened and still can |
| standings marks, clinching and seeding pages (`app/handler.go`, `app/clinching_*`) | none | two reads of the season, rewriting of clauses, groups, columns, wording | a reader of the page learns what the clauses say, of the fixtures on the page |
| forecast of the regular season (`simulation`, `app/forecast_*`) | none | draw seasons around fixed results, count places and seeds, settle certainties | what is called certain happens; shares and counts agree with the seasons drawn |
| goal distributions and ratings, history and explore pages, backtest, configuration, telemetry, commands | none that outlives a call | | out of scope (section 5) |

### How they interact

* Every source operation validates a response and stores it in **one transaction**
  under the lease of its stage. A rejected response leaves no table changed.
* The scheduler takes the global archived-work lease before the stage lease for cold
  jobs, and runs jobs one at a time; `cmd/sync` holds one stage lease for a whole run.
* A writer is not told when its lease runs out. It is stopped by the **deadline of its
  own context**; the lease must outlast that.
* Calculations run **outside** the leases and outside any transaction: they read, think
  for seconds, and publish. Inside a process a mutex serialises them; between processes
  only the tables do.
* The prune can run at any moment, from any process, under no lease.
* Scenario pages are drawn from published batches, and a batch is stored only when each
  of its results meets the contract of the table.

### What is hard

Observations that commit in another order than they were made (a slow poll, a retry, a
second process); five writers of one derived summary; a response accepted row by row, so
that what is stored is neither the response nor the old table; re-paired matches; leases
that expire under a slow holder, crashes between two leases, releases that fail;
refreshes that work on what they read seconds ago while sources are written, other
processes publish and history is pruned; batches left limited, failed or stale that
nothing but a later check makes again; a planner whose one plan serves requests that
change what it was made from; a shutdown that races with a check, its warming and page
requests; searches that must be right to the last goal though they prune, give up and
rewrite; a file of an older release opened by two processes at once.
`PROJECT.json` lists each hazard at its line.

## 2. Modules

| module | models | builds on |
|---|---|---|
| `SourceCache` | the source tables of one season and stage, one action per transaction | implements `StageLedger` |
| `StageLedger` | the abstract promise to readers: known matches, what is over, what has a value, what is published | |
| `Migration` | a cache file of any version, opened and upgraded by several processes, then served | `SourceCache`; implements `StageLedger` |
| `SourceCacheStages` | two stages with different rules over the same tables | `SourceCacheMC`, an instance of `SourceCache` |
| `SyncLease` | the lease rows, the jobs and runs that take them, clocks, deadlines, crashes | discharges the `InOrder` assumption of `SourceCache` |
| `DerivedBatches` | refreshes, qualification and scenario runs, source runs, prune, several processes | uses the source write of `SourceCache` in outline |
| `SourceSync` | operations of the syncer, the compatibility run, `Recalculate`, the retry loop of the ASA client | the writes of `SourceCache` in outline |
| `SourceScopes` | the scope registry and its seeding at each start | |
| `Planner` | `Plan` and the due rules, as operators | |
| `Scheduler` | the loop around `Plan` against a source that changes | `Planner`; due times of `SourceCache` |
| `Server` | one server process: warming, checks, page requests, executor, shutdown | |
| `Standings` | points, ranking criteria, mini-leagues | |
| `Clinching` | statuses, reachable frontiers, proofs, no-help paths | `Standings` |
| `SlateScenarios`, `SeasonScenarios`, `SeasonSummaries`, `ScenarioContract` | the slate search, the rest-of-season search with tie-breaks, rival summaries and seedings, the contract of a stored result | one on the other, over `Clinching` |
| `Season` | publication of claims, then the season played to its end | `ScenarioContract` |
| `ClinchingPaths`, `ClinchingPage`, `ClinchingRows`, `SeedingPage` | rewriting of clauses, groups of the clinching page, rows and wording, the seeding page | one on the other, over `SeasonSummaries` |
| `ForecastPage` | which seasons a simulation may draw, what one of them counts, and what the forecast calls settled | `Season` |
| `Pages` | requests for the pages of a running season, with their reads | `ForecastPage`, `SeedingPage` |
| `PageReading` | what a reader makes of a page, and pages of given clauses | `Pages` |
| `Bracket` | reconstruction of a knockout bracket | |
| `Postseason` | playoffs played to their end, their bracket page, certainties, odds and shared scenario | `Bracket` |
| `SourceCacheMC`, `MigrationMC`, `SyncLeaseMC`, `DerivedBatchesMC`, `SchedulerMC`, `SourceSyncMC`, `SeasonMC` | constants and symmetry for TLC | |
| `SourceCacheProofs`, `MigrationProofs`, `SourceCacheStagesProofs`, `SyncLeaseProofs`, `DerivedBatchesProofs`, `SchedulerProofs`, `ServerProofs`, `SourceSyncProofs` | theorems (section 4) | the module they are named after |

### SourceCache

State: `teams`, `games`, `resultCheck`, `xg`, `xgCheck`, `scope`, `venue`, `lastRun` are the
tables `teams`, `games`, `game_result_checks`, `game_xg`, `game_xg_checks`,
`source_resource_scope_state`, `venue_summaries` and the row of `sync_runs` that
`LastSuccess` selects. Actions: `UpsertTeams`, `EmptyDiscovery` and `ReplaceGameInventory`
(the two branches of one Go function), `UpsertCheckedGames`, `ReplaceStageXG`,
`UpsertCheckedXG`. Each is a whole transaction, ledgers, freshness, sums, run row and
bracket acceleration included; validation errors, which roll back, are guards.

Abstractions: a fixture snapshot ID is the table of fixture fields it hashes; a venue sum
is the set of its contributions, so it is current exactly when its set is; kickoff, score
and the other hashed fields are one `Details` value. The **finish time** each observation
carries is chosen freely, so observations commit in any order. With `InOrder = TRUE` game
writes commit in the order of their finish times: this is what the lease provides
(`SyncLease!CommitsInOrder`), and only the properties that need it assume it. The catalog
is shared by all stages and may be written by a team recovery under another stage's lease,
so `UpsertTeams` and the xG writes take any time even then.

### Migration

The variables of `SourceCache` are the **committed** tables of the file; `tx` is the copy
that an upgrade works on and nobody else sees; `version` is the one in `schema_migrations`;
`legacy` holds what only the upgrade reads (the payload of each match, the runs of earlier
releases). A process opens a current file at once (`OpenCurrent`) or begins to upgrade
(`Begin`, `BeginNew`). SQLite's transaction is a deferred one: it has read the version
before it takes the write lock (`Lock`), and is refused when another process has written
meanwhile or holds the lock too long (`Refused`). Then one action per kind of step:
`Extend` for those that create tables and columns with defaults, and the backfills
`Summarise` (8), `Register` (9), `ScopeStates` (10), `ResultLedger` (11), `XGLedger` (12),
`PlayoffColumns` (13), `SourceFields` (14), which refuses a payload that contradicts itself.
`Rollback` is an error, an ended context or a crash, anywhere. From then on `Serve` is any
transaction of `SourceCache`, by any process that has the file open. `Holds` says what a
file of each version holds, and `MigrationInit` is any such file.

### SyncLease

State: `lease` is `sync_leases`, `job` the place of each process in `executeJob` or
`Service.Run`, `stored` the finish time of the last write of each stage. Time is one clock,
as the processes share a machine. The order of the code is kept where it matters: the
request context, with its deadline, is created before the clock is read for the lease
(`Begin`, `ReadClock`); the finish time is read before the write and kept by a retry
(`Receive`, `Commit`); releases have a context of their own and may fail. Holders of
schedulers are named by a clock reading only, so that two may have the same name, as in the code.
`Crash` can happen anywhere. Calculations that follow a run outlive its lease but write no
source table, so a run gives its lease back (`GiveUp`) before they matter. `Recalculate`
and the prune of runs take no lease; their effects are in `DerivedBatches`.

### DerivedBatches

State: `fixtures` (contents as snapshots), the three run tables, `seq` (the last id each
table has given out), and each caller's refresh (`job`). Actions follow
`Recalculate` (which reads the last run and then the games with no transaction:
`Recalculate`, `ReadGames`), the mutex and first lookup (`LockAndQualify`), the end of
the calculation, when the finish time is read (`Prove`), its publication (`Publish`) or
failure (`ProveFails`), and the two scenario passes (`LookupScenario`, `ReadBaseline`,
`PublishScenario`, `SearchFails`, the season pass by `NextKind`). `Abandon` covers
shutdown, a failed lookup and the death of the process. `Prune` is `PruneHistory` for any
cutoff.

The transactions are SQLite's deferred ones. A qualification's finish time is read before
its first write takes the lock, so two processes may commit in another order than their
finish times. A scenario batch reads its baseline first, so a commit in between makes
its upgrade fail; its finish times follow its commits.

Abstractions: the rules version is a constant of the build; the retry of a batch whose
kickoff order has changed is part of "not full"; a failed source run stores nothing that
the batches read and is left out; a batch's content is the snapshot its inputs came
from (`from`), which is what makes a batch wrong or right.

### SourceSync and SourceScopes

`SourceSync` follows one call (`Service.Run`, a scheduled operation or `Recalculate`) from
its preflight to its audit: the request with the client's retries, the validation, the
team recovery and the single retry of a write refused for unknown teams, the penalty
split whose failure is absorbed, the write, the audit, and the calculation that is
detached from the caller. The caller's deadline and the owner's shutdown may come
between any two of these. The stores are those of `SourceCache` cut down to what an operation
decides by. `SourceScopes` is `EnsureSourceScopes`, a start after another, the clock
showing any year each time: registration and its precedence, the promotion of upcoming
seasons, the roll-over of past ones.

### Planner and Scheduler

`Planner` is `Plan` as operators on one snapshot. `Scheduler` is the goroutine: `Read` takes one
snapshot and one plan for a whole check, then the jobs run one after the other (`RunJob`,
`JobFails`, `JobDeferred`) on a cache they change, the evaluation follows (`Calculate`), and the
startup bootstrap reads again while first loads remain. The source settles, corrects, rates and
publishes matches on its own (`Publish`, `Settle`, `Rate`), so that the cache may refuse an
answer (`Storable`), and another process may store a stage (`ManualSync`). One unit of time is
one check interval. A plan is a set of jobs, each with its turn: what the code compares to sort
them. `owed` counts, for each obligation, the consecutive checks that found it owed, and starts
again when a job, a calculation or another process has met it.

### Server

One process from `Build` to `Close`. `check` holds the startup warming, the loop's check
and `CheckNow`; `proc` the calls of `forecastExecutor.results`, one for each request and one
for each model a check warms; `used` and `results` the slots and the bounded cache. A result is
stored as the inputs it was simulated from, so a wrong key shows. The shutdown is main's
order: Stop, HTTP shutdown (which may time out), Wait, Close.

### The season's claims

A season is a function from matches to scores. `Standings` ranks it; `Clinching` is the
`clinching` package, with its maximum-flow oracles as what they decide; the three
scenario modules are the searches of `scenarios`, an assignment of results being a cube
of allowed outcomes per match and what scores decide being a score condition. `Season`
publishes the claims of a team (`Publish`) and then plays what was left (`Play`), every
scoreline being a branch; its properties compare each claim with the table the season ends in.
While it is played, pages are requested (`Pages`): the handlers of the clinching page
read the season twice, and a match may be stored in between (`Begin`, `Store`, `Respond`); the
marks of the standings and the forecast come from one read. `ForecastPage` takes the model of
the goals to be *any* distribution: a season may be drawn if it keeps the results there are and
those the visitor fixed, and it states what `Run` and the seeding counter make of one such
season. `PageReading` reads a page back, when its matches have been played, and reads pages
of given clauses in every world. `Postseason` plays a cup to its end, with the rows the source may
serve on the way (not published, level, stopped, over), and compares what the
bracket page and the odds say with what has happened.

## 3. Runs

Every run ends within two minutes with two workers. `PROJECT.json` names, for each property
of each passing run, a plausible slip in the code (an operator marked `slip` in the
module) with which TLC finds that property violated under the same configuration.

| run | asks | bounds, and why they are enough |
|---|---|---|
| `SourceCacheMatch` | do the rows and both ledgers of a match survive every order of observations? | one match (the rules are per match), two pairings, two source stamps, two values, one split, two finish times: enough for late, equal and early observations, corrections, re-pairing and forgetting. `InOrder = FALSE` |
| `SourceCacheStages` | is what is stored always complete and readable, and does an incomplete bracket wake discovery until it succeeds? | a cup of two matches and four teams that arrives in two catalog batches, rows accepted one by one; or a bracket of two slots: missing, complete and lost again. `InOrder = TRUE` |
| `Migration` | is a file of any earlier version upgraded whole, and do the upgrade and the five writers after it keep the summary in step and implement `StageLedger`? | two processes; two matches, two pairings; files of eight versions, one before and after each backfill that reads another's result; payloads that are plain, of a shootout, of half a shootout, garbled; one finish time: coverage is a relation between several matches, and needs no order of observations |
| `SyncLease` | is exclusion preserved by expiry, crash, failed release, prune? | two schedulers and a manual process over two stages, a timeout of one tick within one: each process can outlive its lease once and be succeeded; the theorems cover all other values |
| `DerivedBatches` | is a batch right, served and not degraded within one process? | two refreshes, two snapshots of which one has a season slate, two source writes, two ticks, one trouble (a forced, limited, failed calculation) |
| `DerivedBatchesLive` | do lineage and answers survive two processes and the prune, and is a full batch eventually served? | two processes with one refresh each, one snapshot, one write, one trouble, under `FairSpec`: it takes two refreshes to hold a stale id while the other publishes or prunes; no symmetry, because of the liveness |
| `Scheduler` | is due work done in time although a check plans once, requests fail and others store? does every archived stage get its turn? | a league of one match, a bracket of two slots and two archived stages of one match; intervals in the order of the defaults, the sweep interval of five ticks one more than a round of the archive takes; ten ticks, so that the due times recorded by the first sweeps fire, with hot work in front of them or not; two changes of the source or stages stored by hand, until the third tick, and one fault: enough for a correction within its window, an xG request refused because of one, a bracket match announced after its inventory, and sweeps that wait until all are due. The bound of `ArchivePrompt` for the games of a stage is reached: with one check less it fails; if the sweeps come in catalog order, it fails too |
| `Server` | are answers of their inputs, slots returned, the database closed last, a signal heeded? | two models, one page request beside three kinds of checks, one slot and room for one result: every collision and eviction happens; one change of the inputs |
| `SourceSync` | does an operation that may end anywhere leave a true audit, the batches it owes and the splits it had? does the registry follow the year? | two matches, the second with a new team; two attempts; two calls; beside it, starts in four years, also with the clock set back, over four catalog scopes |
| `Season` | are the published statuses, scenarios, summaries, seedings and pages what the season turns out to be? are the bracket page and the odds? | see below |
| `SourceCacheDoc`, `DerivedBatchesDoc` | what a document says and the code does not do | violations, see section 6 |

`Season` is a schedule of four teams, six matches and three matchdays, published with two
or four matches played, two places and two teams of interest, and every scoreline of a small set
in what is left: level points, head-to-head, goal difference and mini-leagues of three
all decide some of them. A slate search is cut off early or never. The summaries are
explored with at most two matches left (`SummaryGames`), because they enumerate the scores
of all of them. The cups are those of the three formats of the catalog (four seeds, byes,
eight seeds in kickoff order), with ties the official order leaves open, later rounds in either order
and rows stopped with a score. The given pages cover clauses that the small seasons cannot
bring about: races over several matches, clauses that merge or must not, all headings of
two own matches. Pages are asked for when claims are new or the season is over, and one match
is stored at most between the two reads of a request; an answer that shows nothing is not read
on. `Iterations` is twelve, so that the shares of up to four level teams are whole numbers, and a
drawn season is the one that is then played. The three parts read different data and are explored in
disjoint behaviours of one run, and so are the two parts of `SourceSync`.

`MaxTime`, `Deadlines`, `MaxClock`, `MaxWrites`, `MaxTroubles`, `MaxInputs`, `MaxRuns`,
`LastChange`, `MaxChanges`, `MaxFaults`, `SummaryGames`, `HomePlaces`, `Iterations` and `MaxGoals` are the bounds. They
bound inputs or counters, never a protocol step. Deadlock is not checked where the system
really ends: a season played out, a closed process, calls used up, the last tick.

The properties, by run:

* `SourceCacheMatch`: `XGBelongsToPairing`, `LedgersAgree` (two tables that describe one
  match agree), `XGOnlyImproves`, `LateAnswersHarmless` (no omission, late answer or
  correction moves knowledge back).
* `SourceCacheStages`: `CupComplete` (the merged table, not only the response, meets the
  expectation), `SeasonReadable` (the run readers select describes the table, whose teams
  exist), `BracketWoken` (the wake-up disappears only through a later full success).
* `Migration`: `VenueTrue` (the summary is never announced with less than it claims, and its
  sums are those of the tables), `UpgradedComplete` (nobody serves an older file, and an upgraded one
  can be served), `UpgradeWhole` (all or nothing, nothing lost or invented), `LedgerKept` (the
  refinement, from the older file on).
* `SyncLease`: `WritersExclude` (of one stage, and of archived requests anywhere),
  `CommitsInOrder`, `LiveLeaseKept`.
* `DerivedBatches`, `DerivedBatchesLive`: `BatchFromItsSnapshot`, `PublishedIsServed`,
  `NeverDegraded`; `PruneSafe`, `PruneKeepsAnswers`, `EventuallyServed`. The second and
  third are stated for one process: between processes a batch can be published late,
  and `EventuallyServed` says that this heals.
* `Scheduler`: `HotWorkPrompt` (results, corrections, xG, bracket matches and the evaluation,
  each within its interval and one check per failed or refused request), `ArchivePrompt` (each
  of the two requests of an archived stage waits for at most the two of every other one, and one
  check per failure, whatever hot work held the archive up), `BootstrapBounded` (two checks for
  a stage at most, and one for each change or fault meanwhile).
* `Server`: `AnswersCurrent`, `ExecutorBounded`, `ClosedQuiet`, `SignalEnds`.
* `SourceSync`: `AuditsTell`, `RunCalculates`, `SplitsKept`; `RegistryFollowsYear`,
  `RegistryNeverUndone`.
* `Season`: `StatusesExact`, `SlateScenariosHold`, `SeasonScenariosHold`, `SummariesHold`;
  `BracketTrue`, `PlayoffOddsExact`; `PagesKeepMeaning` (standings and clinching page),
  `OutlooksTrue` (seeding page and forecast).

### Fairness

Two runs assume any.

`DerivedBatchesLive`: the scheduler recalculates at every check, either before its source
requests or because no job is due, so a scheduled caller always begins a refresh
again (`WF` of `Recalculate` or of going on). A refresh that has begun goes on, because
calculations are bounded by their compute budgets and lookups by their contexts. Nothing is
assumed of a caller that is not scheduled beyond going on once begun, nor of source
writes, time or prunes. The premise of `EventuallyServed` excludes refreshes that are abandoned
for ever (a process that dies at every attempt); the troubles are finite by `MaxTroubles`.

`Server` (`SignalEnds`): every goroutine that can take a step takes one; requests and
simulations are bounded by their deadlines, the HTTP shutdown by its own. Nothing obliges a
signal, a request or a `CheckNow` to arrive.

`Scheduler` needs no fairness: its properties count the checks that find work undone.

## 4. What is proved

Every theorem holds for all constants that satisfy the named assumptions of its module
(`ConstantsAssumption`, `MigrationAssumption`, `LeaseAssumption`, `DerivedAssumption`, `PlannerAssumption`,
`SchedulerAssumption`, `ServerAssumption`, `SyncAssumption`, `ScopesAssumption`: finiteness of
`Games` and of the registered scopes, disjoint process names, `Absent` no row, at least one slot,
intervals that are not zero, as the defaults of `planner.go` see to, and for the upgrade that what
it takes from a payload is a detail of the schema and changes no goal): any number of matches,
values, processes, stages, snapshots, requests, any catalog, any timeout. No proof appeals to
the value of a bound. The theorems cover every safety property of the runs of the stateful
modules but two of `Scheduler`.

| module | theorem | of the property |
|---|---|---|
| `SourceCacheProofs` | `TypeCorrect`, `PairingCorrect`, `CoverageCorrect`, `VenueCorrect`, `LedgersCorrect`, `LateAnswersCorrect`, `ImprovementCorrect`, `CompleteCorrect`; given `InOrder`: `ReadableCorrect`, `LedgerImplemented`, `BracketCorrect` | `TypeOK`, `XGBelongsToPairing`, `XGReadyCoverage`, `VenueSumsCurrent`, `LedgersAgree`, `LateAnswersHarmless`, `XGOnlyImproves`, `InventoryComplete`; `SeasonReadable`, `ImplementsLedger`, `BracketRevisited` |
| `MigrationProofs` | `MigrationCorrect`, `VenueStaysTrue`, `UpgradeIsWhole`; given `InOrder`: `UpgradeComplete`, `UpgradeImplements` | `MigrationInvariant`, `VenueTrue`, `UpgradeWhole`; `UpgradedComplete`, `LedgerKept` |
| `SourceCacheStagesProofs` | `CupCorrect`; given `InOrder`: `WakeCorrect` | `CupComplete`; `BracketWoken` |
| `SyncLeaseProofs` | `LeaseTypeCorrect`, `ExclusionCorrect`, `OwnershipCorrect`, `OrderCorrect`, `ReleaseCorrect` | `TypeOK`, `WritersExclude`, `WriterHasLease`, `CommitsInOrder`, `LiveLeaseKept` |
| `DerivedBatchesProofs` | `BatchesTypeCorrect`, `InputsCorrect`, `LineageCorrect`, `AnswersKept`, `PruneCorrect`, `PublishedCorrect`, `FullnessCorrect` | `TypeOK`, `BatchFromItsSnapshot`, `LineageIntact`, `PruneKeepsAnswers`, `PruneSafe`, `PublishedIsServed`, `NeverDegraded` |
| `SchedulerProofs` | `BootstrapCorrect`, `EvaluationCorrect` | `BootstrapBounded`, `EvaluationPrompt` (of `HotWorkPrompt`) |
| `ServerProofs` | `ServerTypeCorrect`, `AnswersCorrect`, `ExecutorCorrect`, `CloseCorrect` | `TypeOK`, `AnswersCurrent`, `ExecutorBounded`, `ClosedQuiet` |
| `SourceSyncProofs` | `RegistryCorrect`, `RegistryMonotone`, `AuditsCorrect`, `CalculationCorrect`, `SplitsCorrect` | `RegistryFollowsYear`, `RegistryNeverUndone`, `AuditsTell`, `RunCalculates`, `SplitsKept` |

### The arguments

**The tables of a stage.** The two venue properties speak of a summary that exists;
`SummaryCorrect` states them of the defaults a writer starts from too, and is preserved,
given the types, by each of the six transactions. The argument for inventories is that
`CoverageInvalid` is complete: if neither the set of finished matches changed nor an xG row
of a surviving match went, then what the summary has rated is what is rated now. The
ledgers are inductive once the times within a row are ordered (`CheckedTimes` says what
recording one observation does to them), on top of the types and the pairing facts;
nothing about the order of commits is needed, so these theorems hold for observations
that commit in any order. What readers see does need it: the run just inserted is the one
`LastSuccess` selects only if no later finish time has committed before. Those theorems
have the hypothesis `InOrder`, which is what `OrderCorrect` proves of the leases.
`LedgerImplemented` is the refinement: `Init` maps to the abstract `Init`, and each of the six
transactions to a step of `StageLedger` or a stutter. The bracket of `SourceCacheStages` is a second
instance with other constants; that it is woken needs only that its times are numbers
(`BracketTimes`), which `WakeCorrect` carries along.

**The upgrade.** `MigrationInvariant` says of the committed file and of the copy a process
works on the same thing, `Holds`: what a file of that version holds, match by match
(`Coherent`) and over the whole table (`SummedUp`, `Identified`). The copy also *continues* the file
(`Continues`): no match, run or time known before has changed. There is one lemma per step
(`ExtendedDraft`, `SummarisedDraft`, ..., `SourceFilledDraft`): a sound draft of one version becomes one of the
next. At the latest version `Holds` is exactly the inductive invariant of
`SourceCacheProofs` (`SoundHolds`), so that what a serving process does is covered by the lemmas there,
and a commit is a change of file to a draft that continues it. Two processes never
both write, and a process that read before another committed is refused (`fresh`), so
the draft that is committed continues the file as it still is. `LedgerKept` begins with the tables
of the older file: `LedgerInit` is any sound picture, not only an empty one.

**Leases.** Exclusion cannot be proved from the lease rows alone, since a row may be
expired, replaced, or carry the name of another scheduler. `LeaseInvariant` adds: `Timing`
(the clock the lease counts from was read after the deadline was fixed, so the deadline
is not after the expiry), `Backed` (until the expiry a process computed for itself, the row
of every key it has is its own), `Alone` (of two processes that have one key, at most one is before
its expiry) and `Ordered` (until its expiry, what a process is about to write has finished
no earlier than what is stored). This is also where naming schedulers by a clock reading is
shown to be harmless: the same name means the same reading and so the same expiry, and
before that expiry `Alone` excludes the second holder.

**Derived batches.** Lineage is not inductive: a search holds the id of a qualification
while others prune and publish. `Cited` says what such an id still means: the row is gone,
or it is a complete qualification of the search's fixtures. That is preserved because ids
are not given out twice, which is why `seq` is part of the state. The pruning theorems rest on
`LatestExists`: a finite table with keyed rows has a latest row (of the sets of rows newer
than a given one, a smallest exists by the well-foundedness of strict inclusion on
finite sets, and it is empty). `PublishedCorrect` and `FullnessCorrect`, which speak of
one process, need what its mutex gives: one refresh at a time beyond the first lookup
(`OneCalculation`), no row with a finish time of the future (`Timely`), and what that
refresh looked up still being the latest when it publishes (`Based`, `Undisturbed`).

**The scheduler.** Time does not pass in the bootstrap, so all times it reads are those of the
start (`StartView`): a stage without fixtures was then never asked for them, or is not due
for another interval, which is why a planned first load is one that was not made
(`PlanBrings`). No request undoes a first load (`StoredFact`). The invariant `Advances` says that
the number of the check is at most one more than the first loads made, the changes and the
faults, or two more while such a load is still planned: `Paid` is the step that makes up for it. The
order of the plan and its budget play no part. For the evaluation: the check that finds it owed
calculates before its jobs, and every failure of a calculation is a fault.

**The server.** A result sits in the cache under the inputs it was simulated from (`Keyed`), so
what a call takes from it belongs to the inputs the call read. A check that is not warming
has no calls (`Warming`), so the end of a check strands none and `Wait` waits for all of
them; `run` leaves the wait only when the loop is over, and an ended loop starts nothing
(`Lifecycle`). The cache keeps to its capacity because an insertion into a finite cache of
that size first evicts one.

**The registry and the syncer.** A scope that waits as upcoming is of a later year than
the last start's, a year only a clock that showed less can have given it: with that,
`RegistryFollowsYear` is inductive for any sequence of clocks. `AuditsTell` relates a set of
ended operations to a log that other operations of the same call still append to; `Trail` says
what each operation in progress has written so far, that none of those still to come
has written anything, and that a recovery, which is another operation inside a write, is
audited apart. `Calculated` and `SplitsBounded` carry what a call has, and what a split waiting to be
written is bounded by, over the steps in between.

### Only model-checked, and why

* `EventuallyServed` and `SignalEnds`: liveness under fairness is beyond this prover.
* `HotWorkPrompt` but for the evaluation, and `ArchivePrompt`: they hold for a budget and
  intervals that leave room for what is due, not for all (section 5), and how many checks pass
  until a job's turn comes is an induction over the jobs before it.
* The eight properties of `Season` (`StatusesExact`, `SlateScenariosHold`, `SeasonScenariosHold`,
  `SummariesHold`, `BracketTrue`, `PlayoffOddsExact`, `PagesKeepMeaning`, `OutlooksTrue`): rankings, searches
  and page rewriting are recursive operators and folds over data, compared with enumerations
  of all that can happen.

Modules with theorems use no recursive operator and reach none.

## 5. What the models leave out

* Network and database failures other than those that end an operation: a response is
  an arbitrary input; a failed transaction changes nothing.
* Compatibility writers that only tests call (`ReplaceSeason`, `ReplaceGameXG`),
  `xg_sync_runs`, which nothing refers to, the historical award adjustments of
  `ReconcileInventory`, and `EnsureVenueHistory` and the maintenance sweep's
  `SweepDueArchived` as drivers of their own. `CheckNow` is modelled although production never calls it.
* Several caches or machines: one file, one clock.
* Ratings, goal rates, the distributions of goals and the backtest: floating point Monte
  Carlo. What a drawn season counts for, which seasons may be drawn, and certainties, which
  are exact, are modelled, in the regular season and after it.
* Of the upgrade: files that lack a table their version has (the code skips a step then),
  and scopes other than the one of interest, which enter as a contradicting payload or an
  older catalog refresh anywhere in the file.
* The explore, history and schedule pages, the standings page but for its marks, templates and wording beyond what
  the clinching and seeding pages say; HTTP details; configuration, telemetry and the
  small commands.
* Of the clinching pages: the fallback of `clinchingGroupViews` for teams with more than four
  own matches, the redirect of old addresses and the parsing of queries. The positions the page
  sorts by may come from the first of its two reads, which changes the order of the teams only.
* Counts of assignments in scenario results, and presentation order.
* That the minutes of a startup bootstrap are less than a check interval is taken for granted.

What the code does that may surprise, met while modelling: with a budget of three hot jobs a
check, a discovery and the polls of the league come before the results of the playoffs; a job
that fails for good, in front of others, ends every check before them, and an archived stage
whose request keeps failing keeps the first place among the archived ones; a correction that
un-finishes a match makes the xG request planned with it fail, and the jobs behind it wait for
the next check; a stored split is kept when later xG without a split is lower than it (readers
clamp it); an abandoned match with a score advances its leader on the bracket page, while the
forecast withholds its odds; a slate search whose last leaf runs out of its compute budget is
published as dependent on tie-breaks and not tried again; one scenario result rejected by its
contract loses the batch of all teams (`SummariesHold` checks that none is); a server that runs
across New Year keeps the lifecycles of the old year until it starts again, and an active scope
of a past year that no source names any more is never completed; a scope with a successful run
but no matches keeps the fixture identity of the release before version 13 through the upgrade,
because only scopes with matches are given a new one, and `Season` refuses it until its first
inventory (the exception in `UpgradedComplete`).

## 6. Where documents and code differ

* `docs/sync-logic-guide.md:203` says that xG rows are deleted only with their parent
  match. `ReplaceGameInventory` also deletes the xG row, and its ledger, of a match that stays but is
  re-paired (`SourceCacheDoc`, `XGDeletedOnlyWithMatch`). The code is the safer of
  the two: `XGBelongsToPairing` needs it.
* `cache/prune.go:22` and the guide say that the prune removes *superseded* history.
  Scenario runs are compared by finish time alone. When one process publishes a batch
  that cites an older qualification after another has published one that cites the
  latest, the prune keeps the first, which nobody is served, and may delete the second,
  which readers are given (`DerivedBatchesDoc`, `PruneKeepsScenarios`). It heals: the
  next check makes the batch again (`EventuallyServed`).
* `scheduler/scheduler.go:221` says that deferral keeps the normal cadence and makes no rapid
  retry loop. A calculation that fails after a job was deferred replaces the outcome of the
  check by a partial failure, which counts as clean, and the bootstrap goes on after its short
  pause (`CalculationFails`). It takes a fault each time: `BootstrapBounded` counts them.

## 7. Plan

Done: the models of section 2, the runs of section 3, and the theorems of section 4. Left, most
useful first:

1. `SourceSync` as a refinement of `SourceCache` in outline: an operation stores at most once,
   and what it stores is one transaction of the tables.
2. `Bracket` and `Postseason`: that a slot is filled only by winners of its feeders is a step
   property of the reconstruction, and might be proved for every format without the folds.
