----------------------------- MODULE Scheduler -----------------------------
(***************************************************************************)
(* The loop of src/internal/scheduler/scheduler.go around Plan: the first  *)
(* check, the startup bootstrap, the ticker, the jobs of a check executed  *)
(* one after the other on a plan made before the first of them.  Stop is in*)
(* Server.                                                                 *)
(* ASA (source) settles, corrects, rates and publishes matches on its own; *)
(* a request may fail, another process may hold the lease of a job or      *)
(* store the scope itself between two jobs.  One unit of time is one check *)
(* interval; a check takes less than one, as its defaults do.              *)
(***************************************************************************)
EXTENDS Planner

CONSTANTS
    Games,       \* scope -> its matches
    Kickoff,     \* match -> kickoff
    AtStart,     \* scope -> what ASA would answer when the process starts
    Settled,     \* rows ASA may report for a match that is over
    MaxTime,     \* bound: last tick
    LastChange,  \* bound: ASA changes nothing after this time
    MaxChanges,  \* bound: changes of ASA
    MaxFaults    \* bound: failed requests and calculations, taken leases; an
                 \* answer the cache refuses counts as a fault beyond it

VARIABLES
    source,      \* what ASA would answer: scope -> [games, xg]
    cache,       \* scope -> view, as Planner reads it
    now,
    loop,        \* the scheduler goroutine
    derived,     \* fixtures the stored evaluation of Configured was made from
    faults, changes,
    owed         \* history: obligation -> consecutive checks that found it owed

vars == <<source, cache, now, loop, derived, faults, changes, owed>>

Row == [status : {"pre", "live", "full", "abandoned"}, scored : BOOLEAN, value : Nat, kickoff : Nat]
Matches == UNION {Games[s] : s \in Scopes}

ASSUME SchedulerAssumption ==
    /\ MaxTime \in Nat /\ LastChange \in 0 .. MaxTime
    /\ MaxChanges \in Nat /\ MaxFaults \in Nat
    /\ Settled \subseteq [status : {"live", "full", "abandoned"}, scored : BOOLEAN, value : Nat]

NoChecks == [last |-> Never, terminal |-> Never, due |-> Never]
NoRefresh == [last |-> Never, due |-> Never]
EmptyView == [games |-> NoGames, checks |-> NoGames, xg |-> {}, xgChecks |-> NoGames,
              gamesFull |-> NoRefresh, xgFull |-> NoRefresh]
Announced(g) == [status |-> "pre", scored |-> FALSE, value |-> 0, kickoff |-> Kickoff[g]]

-----------------------------------------------------------------------------
(* What a successful request leaves in the cache.                          *)

(* A settled match is never replaced by an unsettled copy.                 *)
Preferred(view, g, row) ==
    IF g \in DOMAIN view.games /\ Terminal(view.games[g]) /\ ~Terminal(row)
    THEN view.games[g] ELSE row

Observed(view, g, row, due) ==
    LET old == IF g \in DOMAIN view.checks THEN view.checks[g] ELSE NoChecks
    IN [last |-> now, due |-> due,
        terminal |-> IF old.terminal = Never /\ Terminal(row) THEN now ELSE old.terminal]

Refreshed(next) == [last |-> now, due |-> IF next = Never THEN Never ELSE now + next]

WithGames(s, view, next) ==
    LET known == DOMAIN source[s].games
        row(g) == Preferred(view, g, source[s].games[g])
        due(g) == IF g \in DOMAIN view.checks THEN view.checks[g].due ELSE Never
    IN [view EXCEPT
          !.games = [g \in known |-> row(g)],
          !.checks = [g \in known |-> Observed(view, g, row(g), due(g))],
          !.xgChecks = [g \in known |-> IF g \in DOMAIN @ THEN @[g] ELSE Never],
          !.gamesFull = Refreshed(next)]

(* A result that changes a bracket with open slots makes its discovery due.*)
WithResults(s, view, requests) ==
    LET row(g) == IF g \in DOMAIN requests THEN Preferred(view, g, source[s].games[g])
                  ELSE view.games[g]
        rows == [g \in DOMAIN view.games |-> row(g)]
        wakes == /\ rows # view.games
                 /\ Catalog[s].kind = "knockout" /\ Catalog[s].lifecycle = "active"
                 /\ BracketOpen(s, view)
    IN [view EXCEPT
          !.games = rows,
          !.checks = [g \in DOMAIN view.games |->
                        IF g \in DOMAIN requests
                        THEN Observed(view, g, row(g), now + requests[g]) ELSE @[g]],
          !.gamesFull.due = IF wakes THEN now ELSE @]

Full(view) == {g \in DOMAIN view.games : Scored(view.games[g])}

WithXGIfAny(s, view, next) ==           \* slip: an empty answer is not recorded
    IF source[s].xg = {} THEN view
    ELSE [view EXCEPT !.xg = @ \cup source[s].xg, !.xgFull = Refreshed(next)]

WithXGDue(s, view, next) ==             \* slip: only the due time of a known row moves
    [view EXCEPT !.xg = @ \cup source[s].xg,
                 !.xgFull = IF @.last = Never THEN Refreshed(next)
                            ELSE [@ EXCEPT !.due = now + next]]

WithXG(s, view, next) ==
    [view EXCEPT !.xg = @ \cup source[s].xg,
                 !.xgChecks = [g \in DOMAIN view.games |-> IF g \in Full(view) THEN now ELSE @[g]],
                 !.xgFull = Refreshed(next)]

WithCheckedXG(s, view, requests) ==
    [view EXCEPT !.xg = @ \cup (source[s].xg \cap DOMAIN requests),
                 !.xgChecks = [g \in DOMAIN view.games |->
                                 IF g \in DOMAIN requests THEN now ELSE @[g]]]

(* A job planned before a result was corrected may ask for xG of a match   *)
(* that is completed no more: the whole request is refused.                *)
RequestsCompleted(job) ==
    job.kind = "checkedXG" => DOMAIN job.games \subseteq Full(cache[job.scope])

(* xG of a match the cache does not hold as completed fails the request.   *)
Storable(job) ==
    /\ job.kind = "xg" => source[job.scope].xg \subseteq Full(cache[job.scope])
    /\ RequestsCompleted(job)

Stored(job) ==
    LET view == cache[job.scope] IN
    CASE job.kind = "games"     -> WithGames(job.scope, view, job.next)
      [] job.kind = "results"   -> WithResults(job.scope, view, job.games)
      [] job.kind = "xg"        -> WithXG(job.scope, view, job.next)
      [] job.kind = "checkedXG" -> WithCheckedXG(job.scope, view, job.games)

-----------------------------------------------------------------------------
(* What a check may find to do, and the check before it may have left.     *)

(* The final result of a match of the configured stage or the playoffs.    *)
OwedResult(s, g) ==
    /\ g \in DOMAIN cache[s].games /\ g \in DOMAIN source[s].games
    /\ Catalog[s].lifecycle = "active"
    /\ ~Terminal(cache[s].games[g]) /\ Terminal(source[s].games[g])
    /\ Kickoff[g] + Cadence.grace <= now

(* A correction of a cached final result, while its window is open.        *)
OwedCorrection(s, g) ==
    /\ g \in DOMAIN cache[s].games /\ g \in DOMAIN source[s].games
    /\ Catalog[s].lifecycle = "active"
    /\ Terminal(cache[s].games[g]) /\ Terminal(source[s].games[g])
    /\ cache[s].games[g] # source[s].games[g]
    /\ now < Kickoff[g] + Cadence.gameWindow

(* A published xG value of a completed match, while its window is open.    *)
OwedXG(s, g) ==
    /\ g \in source[s].xg \ cache[s].xg
    /\ g \in Full(cache[s]) /\ Catalog[s].lifecycle = "active"
    /\ cache[s].xgFull.last # Never
    /\ now < Kickoff[g] + Cadence.missingWindow

(* A published playoff match of an open bracket once the season is over.   *)
OwedBracket(s, g) ==
    /\ Accelerated(s, cache[s], Completion(cache))
    /\ g \in DOMAIN source[s].games \ DOMAIN cache[s].games

(* An evaluation of the fixtures in the cache.                             *)
OwedEvaluation ==
    /\ Available(cache[Configured]) /\ Catalog[Configured].lifecycle = "active"
    /\ derived # cache[Configured].games

(* The sweep of an archived stage, of its games or of the xG that follows. *)
OwedSweep(s, kind) ==
    \E job \in ColdJobs(cache, now) : job.scope = s /\ job.kind = kind

Sweeps == {"sweep", "sweepXG"}

Obligations ==
    [kind : {"result", "correction", "xg", "bracket"}, of : Matches]
    \cup [kind : Sweeps, of : Scopes] \cup {[kind |-> "evaluation", of |-> Configured]}

ScopeOf(g) == CHOOSE s \in Scopes : g \in Games[s]

Owed(o) ==
    CASE o.kind = "result"     -> OwedResult(ScopeOf(o.of), o.of)
      [] o.kind = "correction" -> OwedCorrection(ScopeOf(o.of), o.of)
      [] o.kind = "xg"         -> OwedXG(ScopeOf(o.of), o.of)
      [] o.kind = "bracket"    -> OwedBracket(ScopeOf(o.of), o.of)
      [] o.kind = "sweep"      -> OwedSweep(o.of, "games")
      [] o.kind = "sweepXG"    -> OwedSweep(o.of, "xg")
      [] o.kind = "evaluation" -> OwedEvaluation

(* What the cache or the evaluation answers is not owed any more.          *)
Met == owed' = [o \in Obligations |-> IF owed[o] > 0 /\ Owed(o)' THEN owed[o] ELSE 0]

-----------------------------------------------------------------------------
(* The scheduler goroutine.  clean: neither failure nor deferral so far;   *)
(* batch: which check of the startup bootstrap this is, 0 after it.        *)

Idle(clean) == [pc |-> "tick", jobs |-> {}, clean |-> clean, batch |-> 0]

Init ==
    /\ source = AtStart
    /\ cache = [s \in Scopes |-> EmptyView]
    /\ now = 0
    /\ loop = [Idle(TRUE) EXCEPT !.pc = "read", !.batch = 1]
    /\ derived = NoGames
    /\ faults = 0 /\ changes = 0
    /\ owed = [o \in Obligations |-> 0]

Finished(clean) ==
    IF loop.batch > 0 /\ clean THEN [loop EXCEPT !.pc = "bootstrap", !.jobs = {}, !.clean = TRUE]
    ELSE Idle(clean)

CurrentInventoryAvailable ==
    Catalog[Configured].lifecycle = "active" /\ Available(cache[Configured])

(* First loads of a stage come before routine work and may fill a check.   *)
BootstrapJob(job) ==
    /\ job.reason \in {"missing", "initial"}
    /\ Catalog[job.scope].offered

BootstrapDue == \E job \in Plan(cache, now) : BootstrapJob(job)

(* One snapshot and one plan serve the whole check.                        *)
Read ==
    /\ loop.pc = "read"
    /\ LET jobs == Plan(cache, now)
           bootstrap == loop.batch > 0 \/ \E job \in jobs : BootstrapJob(job)
           hot == \E job \in jobs : job.reason # "sweep"
           awaits(o) == bootstrap \/ (hot /\ o.kind \in Sweeps)
       IN /\ loop' = [loop EXCEPT !.jobs = jobs, !.clean = TRUE,
                        !.pc = IF jobs = {} \/ (loop.batch <= 1 /\ CurrentInventoryAvailable)
                               THEN "calculate" ELSE "job"]
          /\ owed' = [o \in Obligations |->
                        IF ~Owed(o) THEN 0 ELSE IF awaits(o) THEN owed[o] ELSE owed[o] + 1]
    /\ UNCHANGED <<source, cache, now, derived, faults, changes>>

ReadFails ==
    /\ loop.pc = "read" /\ faults < MaxFaults
    /\ faults' = faults + 1
    /\ loop' = Finished(FALSE)
    /\ UNCHANGED <<source, cache, now, derived, changes, owed>>

(* Recalculate reads the cache as it is now.  Its failure does not end the *)
(* check: the next preflight tries again.  A partial failure is the outcome*)
(* of the check unless another job is deferred later, and counts as clean. *)
Continue(clean) == IF loop.jobs = {} THEN Finished(clean)
                   ELSE [loop EXCEPT !.pc = "job", !.clean = clean]

Calculate ==
    /\ loop.pc = "calculate"
    /\ derived' = IF Available(cache[Configured]) THEN cache[Configured].games ELSE derived
    /\ loop' = Continue(loop.clean)
    /\ UNCHANGED <<source, cache, now, faults, changes>>
    /\ Met

CalculationFails ==
    /\ loop.pc = "calculate" /\ faults < MaxFaults
    /\ faults' = faults + 1
    /\ loop' = Continue(TRUE)
    /\ UNCHANGED <<source, cache, now, derived, changes, owed>>

(* The job whose turn it is.                                               *)
Leading == {job \in loop.jobs : \A other \in loop.jobs \ {job} : Before(job, other)}

RunJob(job) ==
    /\ loop.pc = "job" /\ job \in Leading
    /\ Storable(job)
    /\ cache' = [cache EXCEPT ![job.scope] = Stored(job)]
    /\ LET rest == loop.jobs \ {job}
           fixturesChanged == Stored(job).games # cache[job.scope].games
       IN loop' = IF job.reason # "sweep" /\ job.scope = Configured /\ fixturesChanged
                  THEN [loop EXCEPT !.pc = "calculate", !.jobs = rest]
                  ELSE IF rest = {} THEN Finished(loop.clean)
                  ELSE [loop EXCEPT !.jobs = rest]
    /\ UNCHANGED <<source, now, derived, faults, changes>>
    /\ Met

(* A failed request, or one whose answer is refused, ends the check; the   *)
(* jobs after it are not tried.                                            *)
JobFails(job) ==
    /\ loop.pc = "job" /\ job \in Leading
    /\ Storable(job) => faults < MaxFaults
    /\ faults' = faults + 1
    /\ loop' = Idle(FALSE)
    /\ UNCHANGED <<source, cache, now, derived, changes, owed>>

(* Another process holds the lease: the job waits for a later plan, the    *)
(* next one is tried.                                                      *)
JobDeferred(job) ==
    /\ loop.pc = "job" /\ job \in Leading /\ faults < MaxFaults
    /\ faults' = faults + 1
    /\ loop' = IF loop.jobs = {job} THEN Idle(FALSE)
               ELSE [loop EXCEPT !.jobs = @ \ {job}, !.clean = FALSE]
    /\ UNCHANGED <<source, cache, now, derived, changes, owed>>

Bootstrap ==
    /\ loop.pc = "bootstrap"
    /\ loop' = IF BootstrapDue THEN [loop EXCEPT !.pc = "read", !.batch = @ + 1]
               ELSE Idle(TRUE)
    /\ UNCHANGED <<source, cache, now, derived, faults, changes, owed>>

(* A snapshot that cannot be read leaves the rest to the ticks.            *)
BootstrapReadFails ==
    /\ loop.pc = "bootstrap" /\ faults < MaxFaults
    /\ faults' = faults + 1
    /\ loop' = Idle(TRUE)
    /\ UNCHANGED <<source, cache, now, derived, changes, owed>>

Tick ==
    /\ loop.pc = "tick" /\ now < MaxTime
    /\ now' = now + 1
    /\ loop' = [loop EXCEPT !.pc = "read"]
    /\ UNCHANGED <<source, cache, derived, faults, changes, owed>>

-----------------------------------------------------------------------------
(* The world.                                                              *)

Change == now <= LastChange /\ changes < MaxChanges /\ changes' = changes + 1
Elsewhere == UNCHANGED <<now, loop, derived, faults, owed>>

Publish(s, g) ==
    /\ Change /\ g \notin DOMAIN source[s].games
    /\ source' = [source EXCEPT ![s].games = [h \in DOMAIN @ \cup {g} |->
                                                 IF h = g THEN Announced(g) ELSE @[h]]]
    /\ Elsewhere /\ UNCHANGED cache

(* ASA reports or corrects a match that has kicked off; one it has rated   *)
(* stays completed.                                                        *)
Settle(s, g, row) ==
    /\ Change /\ g \in DOMAIN source[s].games /\ Kickoff[g] <= now
    /\ LET new == [status |-> row.status, scored |-> row.scored, value |-> row.value,
                   kickoff |-> Kickoff[g]]
       IN /\ new # source[s].games[g]
          /\ Terminal(source[s].games[g]) => Terminal(new)
          /\ g \in source[s].xg => Scored(new)
          /\ source' = [source EXCEPT ![s].games[g] = new]
    /\ Elsewhere /\ UNCHANGED cache

Rate(s, g) ==
    /\ Change /\ g \in DOMAIN source[s].games \ source[s].xg
    /\ Scored(source[s].games[g])
    /\ source' = [source EXCEPT ![s].xg = @ \cup {g}]
    /\ Elsewhere /\ UNCHANGED cache

(* The manual command stores a stage, its evaluation failing.              *)
ManualSync(s) ==
    /\ Change /\ source[s].games # NoGames
    /\ cache' = [cache EXCEPT ![s] = WithGames(s, @, Cadence.inventory)]
    /\ UNCHANGED <<source, now, loop, derived, faults>>
    /\ Met

Next ==
    \/ Read \/ ReadFails
    \/ Calculate \/ CalculationFails
    \/ \E job \in loop.jobs : RunJob(job) \/ JobFails(job) \/ JobDeferred(job)
    \/ Bootstrap \/ BootstrapReadFails \/ Tick
    \/ \E s \in Scopes :
          \/ \E g \in Games[s] :
                Publish(s, g) \/ (\E row \in Settled : Settle(s, g, row)) \/ Rate(s, g)
          \/ ManualSync(s)

Spec == Init /\ [][Next]_vars

-----------------------------------------------------------------------------
TypeOK ==
    /\ \A s \in Scopes :
          /\ DOMAIN cache[s].games \subseteq DOMAIN source[s].games
          /\ \A g \in DOMAIN cache[s].games : cache[s].games[g] \in Row
          /\ cache[s].xg \subseteq Full(cache[s])
    /\ now \in 0 .. MaxTime
    /\ loop.pc \in {"read", "calculate", "job", "bootstrap", "tick"}
    /\ loop.pc = "job" => loop.jobs # {}

(* The check that finds an obligation meets it, later only by the          *)
(* allowance, one check for every fault, and the checks with first loads to*)
(* make (for the archive: with anything hot to do).                        *)
Prompt(kind, allowance) ==
    \A o \in {o \in Obligations : o.kind = kind} : owed[o] <= 1 + allowance + faults

(* A final result is cached by the first check after ASA published it and  *)
(* the grace period passed, one check later for every fault so far,        *)
(* whatever discovery, archive and xG work is due beside it.               *)
ResultsPrompt == Prompt("result", 0)

(* While its window is open, a correction of a cached result is cached     *)
(* within the correction interval, and published xG within the polling     *)
(* interval of missing values.                                             *)
FollowUpsPrompt ==
    Prompt("correction", Cadence.correction) /\ Prompt("xg", Cadence.missingXG)

(* A playoff match is found within the hourly discovery interval, though   *)
(* the inventory of its bracket was read moments before it was published.  *)
BracketPrompt == Prompt("bracket", Cadence.playoff)

(* The stored evaluation follows the fixtures, also those another process  *)
(* stored and those whose evaluation failed.                               *)
EvaluationPrompt == Prompt("evaluation", 0)

(* Everything hot is done by the check it is due in.                       *)
HotWorkPrompt == ResultsPrompt /\ FollowUpsPrompt /\ BracketPrompt /\ EvaluationPrompt

(* An archived stage is swept, games and then xG, one request a check, by  *)
(* the checks with nothing hot due.  Each of its two requests waits for at *)
(* most the two of every other archived stage, also when the hot work      *)
(* before lasted longer than a sweep interval: the stage that fell due     *)
(* first goes first, one just swept not before one that waits.             *)
Archived == {s \in Scopes : Catalog[s].lifecycle = "completed"}
ArchivePrompt ==
    LET others == Cardinality(Archived) - 1
    IN Prompt("sweep", 2 * others) /\ Prompt("sweepXG", 2 * others)

(* The startup bootstrap is no rapid retry loop: a check of it makes at    *)
(* least one of the two first loads of a stage, but for what changed or    *)
(* was deferred meanwhile.                                                 *)
BootstrapBounded == loop.batch <= 1 + 2 * Cardinality(Scopes) + changes + faults
=============================================================================
