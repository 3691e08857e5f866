-------------------------- MODULE SchedulerProofs --------------------------
(***************************************************************************)
(* Theorems about Scheduler for any catalog, any games, any intervals and  *)
(* any number of changes and failures.                                     *)
(*                                                                         *)
(* The argument for the bootstrap: time does not pass in it, so every time *)
(* it reads is zero (StartView).  A stage without an inventory was         *)
(* therefore never asked for one, or is not due yet: a planned first load  *)
(* is one that was not made (PlanBrings).  No first load is ever undone,   *)
(* so every check of the bootstrap beyond the first has made one, or still *)
(* has one to make among its jobs, unless a change or a fault took it away *)
(* (Advances).  The argument for the evaluation: a check that finds it     *)
(* owed calculates before its jobs, and a fault pays for each failure.     *)
(***************************************************************************)
EXTENDS Scheduler, FiniteSetTheorems, TLAPS

IsRefresh(r) == r \in [last : {Never, 0}, due : Int]

IsView(v) ==
    v \in [games : {v.games}, checks : {v.checks}, xg : {v.xg}, xgChecks : {v.xgChecks},
           gamesFull : {v.gamesFull}, xgFull : {v.xgFull}]

StartView(v) ==
    /\ IsView(v) /\ IsRefresh(v.gamesFull) /\ IsRefresh(v.xgFull)
    /\ v.games = [g \in DOMAIN v.games |-> v.games[g]]
    /\ DOMAIN v.checks = DOMAIN v.games
    /\ \A g \in DOMAIN v.games : v.checks[g].terminal \in {Never, 0}
    /\ ~Available(v) /\ v.gamesFull.last # Never => v.gamesFull.due > 0

IsJob(job) ==
    /\ job.scope \in Scopes /\ job.kind \in {"games", "results", "xg", "checkedXG"}
    /\ job.next \in Int
    /\ job.kind = "games" => job.next > 0
    /\ job.reason = "missing" => job.kind = "games"
    /\ job.reason = "initial" => job.kind = "xg"

(* The job makes a first load that has not been made.                      *)
Brings(job) ==
    \/ job.reason = "missing" /\ cache[job.scope].gamesFull.last = Never
    \/ job.reason = "initial" /\ cache[job.scope].xgFull.last = Never

Inventoried == {s \in Scopes : cache[s].gamesFull.last # Never}
Rated == {s \in Scopes : cache[s].xgFull.last # Never}
Progress == Cardinality(Inventoried) + Cardinality(Rated) + changes + faults

IsLoop(l) ==
    /\ l \in [pc : {"read", "calculate", "job", "bootstrap", "tick"}, jobs : {l.jobs},
              clean : BOOLEAN, batch : Nat]
    /\ l.pc = "bootstrap" => l.batch > 0

Shape == changes \in Nat /\ faults \in Nat /\ IsLoop(loop)

Starting ==
    /\ now = 0 /\ loop.pc # "tick"
    /\ cache = [s \in Scopes |-> cache[s]]
    /\ \A s \in Scopes : StartView(cache[s])
    /\ \A job \in loop.jobs : IsJob(job)

Advances ==
    \/ loop.batch <= 1 + Progress
    \/ /\ loop.batch <= 2 + Progress
       /\ \/ loop.pc = "read" /\ BootstrapDue
          \/ loop.pc \in {"calculate", "job"} /\ \E job \in loop.jobs : Brings(job)

BootstrapInvariant == Shape /\ (loop.batch > 0 => Starting /\ Advances)

-----------------------------------------------------------------------------
(* What a plan contains while no time has passed.                          *)

LEMMA NeverFact == Never = -1 /\ Never \in Int /\ Never # 0
BY DEF Never

LEMMA MaxZero == Max({0}) = 0
BY DEF Max

LEMMA CompletionFact ==
    ASSUME NEW snap, DOMAIN snap = Scopes, \A s \in Scopes : StartView(snap[s])
    PROVE  Completion(snap) \in {Never, 0}
<1> DEFINE done == {s \in DOMAIN snap :
                      /\ RegularSeason(s) /\ Whole(s, snap[s])
                      /\ \A g \in DOMAIN snap[s].games : Scored(snap[s].games[g])}
           seen(s) == {snap[s].checks[g].terminal : g \in DOMAIN snap[s].games} \ {Never}
           s0 == CHOOSE s \in done : TRUE
<1>1. CASE done = {}
  BY <1>1 DEF Completion
<1>2. CASE done # {}
  <2>1. s0 \in Scopes
    BY <1>2
  <2> HIDE DEF s0
  <2>2. StartView(snap[s0])
    BY <2>1
  <2>3. seen(s0) # {} => seen(s0) = {0}
    BY <2>2 DEF StartView
  <2>4. seen(s0) # {} => Max(seen(s0)) = 0
    BY <2>3, MaxZero
  <2>5. snap[s0].gamesFull.last \in {Never, 0}
    BY <2>2 DEF StartView, IsRefresh
  <2> DEFINE completed == IF seen(s0) # {} THEN Max(seen(s0))
                          ELSE IF snap[s0].gamesFull.last # Never
                               THEN snap[s0].gamesFull.last ELSE 0
  <2>6. completed \in {Never, 0}
    BY <2>4, <2>5
  <2>7. Completion(snap) = completed
    BY <1>2 DEF Completion, s0
  <2> QED
    BY <2>6, <2>7
<1> QED
  BY <1>1, <1>2

(* A first inventory is due only where none was ever stored.               *)
LEMMA MissingNever ==
    ASSUME NEW s \in Scopes, NEW view, StartView(view), ~Available(view),
           NEW completion \in {Never, 0}, DiscoveryDue(s, view, 0, completion)
    PROVE  view.gamesFull.last = Never
<1>1. view.gamesFull.last \in {Never, 0} /\ view.gamesFull.due \in Int
  BY DEF StartView, IsRefresh
<1>2. SUFFICES ASSUME view.gamesFull.last = 0 PROVE FALSE
  BY <1>1
<1>3. view.gamesFull.due > 0
  BY <1>2, NeverFact DEF StartView
<1>4. ~FullDue(view.gamesFull, 0)
  BY <1>1, <1>3, NeverFact DEF FullDue, Due
<1>5. ~(view.gamesFull.last < completion)
  BY <1>2, NeverFact
<1>6. Cadence.playoff \in Nat \ {0}
  BY PlannerAssumption
<1>7. ~Elapsed(view.gamesFull.last, Cadence.playoff, 0)
  BY <1>2, <1>6, NeverFact DEF Elapsed
<1> QED
  BY <1>4, <1>5, <1>7 DEF DiscoveryDue

LEMMA FullJobFact ==
    ASSUME NEW kind \in {"games", "xg"}, NEW s \in Scopes, NEW turn,
           NEW reason \in {"missing", "initial", "bracket", "weekly", "sweep"},
           NEW next \in Int, kind = "games" => next > 0,
           reason = "missing" => kind = "games", reason = "initial" => kind = "xg"
    PROVE  LET job == FullJob(kind, s, turn, reason, next) IN
           IsJob(job) /\ job.reason = reason /\ job.scope = s
BY DEF FullJob, IsJob

LEMMA CheckedJobFact ==
    ASSUME NEW kind \in {"results", "checkedXG"}, NEW s \in Scopes, NEW turn, NEW games
    PROVE  LET job == CheckedJob(kind, s, turn, games) IN IsJob(job) /\ job.reason = "poll"
BY NeverFact DEF CheckedJob, IsJob

LEMMA DiscoveryFact ==
    ASSUME NEW s \in Scopes, NEW view, NEW turn, NEW reason \in {"missing", "bracket"},
           NEW completion
    PROVE  LET job == Discovery(s, view, turn, reason, completion) IN
           IsJob(job) /\ job.reason = reason /\ job.scope = s
<1> DEFINE next == IF Accelerated(s, view, completion) THEN Cadence.playoff
                   ELSE Cadence.inventory
<1>1. next \in Int /\ next > 0
  BY PlannerAssumption
<1> HIDE DEF next
<1>2. LET job == FullJob("games", s, turn, reason, next) IN
      IsJob(job) /\ job.reason = reason /\ job.scope = s
  BY <1>1, FullJobFact
<1> QED
  BY <1>2 DEF Discovery, next

LEMMA ColdJobFact ==
    ASSUME NEW snap, DOMAIN snap = Scopes, NEW time, NEW job \in ColdJobs(snap, time)
    PROVE  IsJob(job) /\ job.reason = "sweep"
<1>1. Cadence.cold \in Int /\ Cadence.cold > 0
  BY PlannerAssumption
<1>2. \A kind \in {"games", "xg"}, s \in Scopes : \A due :
         IsJob(ColdSweep(kind, s, due)) /\ ColdSweep(kind, s, due).reason = "sweep"
  <2> SUFFICES ASSUME NEW kind \in {"games", "xg"}, NEW s \in Scopes, NEW due
               PROVE  IsJob(ColdSweep(kind, s, due)) /\ ColdSweep(kind, s, due).reason = "sweep"
    OBVIOUS
  <2> DEFINE turn == <<due, -Catalog[s].season, Catalog[s].rank>>
  <2> HIDE DEF turn
  <2>1. LET sweep == FullJob(kind, s, turn, "sweep", Cadence.cold) IN
        IsJob(sweep) /\ sweep.reason = "sweep" /\ sweep.scope = s
    BY <1>1, FullJobFact
  <2> QED
    BY <2>1 DEF ColdSweep, turn
<1>3. \E kind \in {"games", "xg"}, s \in Scopes : \E due : job = ColdSweep(kind, s, due)
  BY DEF ColdJobs
<1> QED
  BY <1>2, <1>3

(* A job of a plan made during the bootstrap is well formed, and a first   *)
(* load among them is one that was not made yet.                           *)
LEMMA HotJobFact ==
    ASSUME Starting, NEW job \in HotJobs(cache, now)
    PROVE  IsJob(job) /\ (BootstrapJob(job) => Brings(job))
<1> DEFINE completion == Completion(cache)
           scopes == PlanningScopes(cache)
<1>1. DOMAIN cache = Scopes /\ now = 0 /\ \A s \in Scopes : StartView(cache[s])
  BY DEF Starting
<1>2. completion \in {Never, 0}
  BY <1>1, CompletionFact
<1>3. scopes \subseteq Scopes
  BY <1>1 DEF PlanningScopes
<1> HIDE DEF completion, scopes
<1>4. ASSUME job \in MissingInventory(cache, now, completion)
      PROVE  IsJob(job) /\ Brings(job)
  <2>1. PICK s \in scopes :
           /\ ~Available(cache[s]) /\ DiscoveryDue(s, cache[s], now, completion)
           /\ job = Discovery(s, cache[s], <<1>> \o MissingKey(s), "missing", completion)
    BY <1>4 DEF MissingInventory, scopes
  <2>2. s \in Scopes /\ StartView(cache[s])
    BY <1>1, <1>3
  <2>3. cache[s].gamesFull.last = Never
    BY <1>1, <1>2, <2>1, <2>2, MissingNever
  <2> DEFINE turn == <<1>> \o MissingKey(s)
  <2>4. job = Discovery(s, cache[s], turn, "missing", completion)
    BY <2>1
  <2> HIDE DEF turn
  <2>5. IsJob(job) /\ job.reason = "missing" /\ job.scope = s
    BY <2>2, <2>4, DiscoveryFact
  <2> QED
    BY <2>3, <2>5 DEF Brings
<1>5. ASSUME job \in BracketDiscovery(cache, now, completion)
      PROVE  IsJob(job) /\ job.reason = "bracket"
  <2>1. PICK s \in scopes : job = Discovery(s, cache[s], Turn(2, s), "bracket", completion)
    BY <1>5 DEF BracketDiscovery, scopes
  <2> QED
    BY <1>3, <2>1, DiscoveryFact
<1>6. ASSUME job \in CheckedGames(cache, now) \cup CheckedXG(cache, now)
      PROVE  IsJob(job) /\ job.reason = "poll"
  <2>1. \E kind \in {"results", "checkedXG"}, s \in scopes : \E turn, games :
           job = CheckedJob(kind, s, turn, games)
    BY <1>6 DEF CheckedGames, CheckedXG, scopes
  <2> QED
    BY <1>3, <2>1, CheckedJobFact
<1>7. ASSUME job \in InitialXG(cache)
      PROVE  IsJob(job) /\ Brings(job)
  <2>1. PICK s \in scopes :
           InitialDue(cache[s]) /\ job = FullJob("xg", s, Turn(4, s), "initial", Never)
    BY <1>7 DEF InitialXG, scopes
  <2>2. IsJob(job) /\ job.reason = "initial" /\ job.scope = s
    BY <1>3, <2>1, FullJobFact, NeverFact
  <2> QED
    BY <2>1, <2>2 DEF Brings, InitialDue
<1>8. ASSUME job \in WeeklyInventory(cache, now, completion)
      PROVE  IsJob(job) /\ job.reason = "weekly"
  <2>1. PICK s \in scopes : job = FullJob("games", s, Turn(6, s), "weekly", Cadence.inventory)
    BY <1>8 DEF WeeklyInventory, scopes
  <2>2. Cadence.inventory \in Int /\ Cadence.inventory > 0
    BY PlannerAssumption
  <2> QED
    BY <1>3, <2>1, <2>2, FullJobFact
<1>9. \/ job \in MissingInventory(cache, now, completion)
      \/ job \in BracketDiscovery(cache, now, completion)
      \/ job \in CheckedGames(cache, now) \cup CheckedXG(cache, now)
      \/ job \in InitialXG(cache)
      \/ job \in WeeklyInventory(cache, now, completion)
  BY DEF HotJobs, completion
<1> QED
  BY <1>4, <1>5, <1>6, <1>7, <1>8, <1>9 DEF BootstrapJob

LEMMA PlanBrings ==
    ASSUME Starting, NEW job \in Plan(cache, now)
    PROVE  IsJob(job) /\ (BootstrapJob(job) => Brings(job))
<1>1. job \in HotJobs(cache, now) \/ job \in ColdJobs(cache, now)
  BY DEF Plan, First
<1>2. DOMAIN cache = Scopes
  BY DEF Starting
<1> QED
  BY <1>1, <1>2, HotJobFact, ColdJobFact DEF BootstrapJob

-----------------------------------------------------------------------------
(* What a request leaves in a view while no time has passed.               *)

LEMMA RefreshedFact ==
    ASSUME now = 0, NEW next \in Int
    PROVE  /\ IsRefresh(Refreshed(next)) /\ Refreshed(next).last = 0
           /\ next > 0 => Refreshed(next).due > 0
BY NeverFact DEF Refreshed, IsRefresh

LEMMA ObservedFact ==
    ASSUME now = 0, NEW view, StartView(view), NEW g, NEW row, NEW due
    PROVE  Observed(view, g, row, due).terminal \in {Never, 0}
<1> DEFINE old == IF g \in DOMAIN view.checks THEN view.checks[g] ELSE NoChecks
<1>1. old.terminal \in {Never, 0}
  BY DEF StartView, NoChecks
<1> HIDE DEF old
<1>2. Observed(view, g, row, due).terminal
         = IF old.terminal = Never /\ Terminal(row) THEN now ELSE old.terminal
  BY DEF Observed, old
<1> QED
  BY <1>1, <1>2

LEMMA WithGamesFact ==
    ASSUME now = 0, NEW s, NEW view, StartView(view), NEW next \in Int, next > 0
    PROVE  LET v == WithGames(s, view, next) IN
           StartView(v) /\ v.gamesFull.last = 0 /\ v.xgFull = view.xgFull
<1> DEFINE known == DOMAIN source[s].games
           row(g) == Preferred(view, g, source[s].games[g])
           due(g) == IF g \in DOMAIN view.checks THEN view.checks[g].due ELSE Never
           games == [g \in known |-> row(g)]
           checks == [g \in known |-> Observed(view, g, row(g), due(g))]
           xgChecks == [g \in known |-> IF g \in DOMAIN view.xgChecks THEN view.xgChecks[g]
                                        ELSE Never]
           full == Refreshed(next)
           v == [view EXCEPT !.games = games, !.checks = checks, !.xgChecks = xgChecks,
                             !.gamesFull = full]
<1>1. WithGames(s, view, next) = v
  BY DEF WithGames
<1>2. \A g \in known : checks[g].terminal \in {Never, 0}
  <2> HIDE DEF row, due
  <2> QED
    BY ObservedFact
<1>3. games = [g \in DOMAIN games |-> games[g]] /\ DOMAIN games = known /\ DOMAIN checks = known
  OBVIOUS
<1>4. IsRefresh(full) /\ full.last = 0 /\ full.due > 0
  BY RefreshedFact
<1>5. IsView(view) /\ IsRefresh(view.xgFull)
  BY DEF StartView
<1> HIDE DEF games, checks, xgChecks, full
<1>6. /\ IsView(v) /\ v.games = games /\ v.checks = checks
      /\ v.gamesFull = full /\ v.xgFull = view.xgFull
  BY <1>5 DEF IsView
<1> HIDE DEF v, known
<1>7. StartView(v)
  BY <1>2, <1>3, <1>4, <1>5, <1>6 DEF StartView
<1> QED
  BY <1>1, <1>4, <1>6, <1>7

LEMMA WithResultsFact ==
    ASSUME now = 0, NEW s, NEW view, StartView(view), NEW requests
    PROVE  LET v == WithResults(s, view, requests) IN
           /\ StartView(v)
           /\ v.gamesFull.last = view.gamesFull.last /\ v.xgFull = view.xgFull
<1> DEFINE row(g) == IF g \in DOMAIN requests THEN Preferred(view, g, source[s].games[g])
                     ELSE view.games[g]
           games == [g \in DOMAIN view.games |-> row(g)]
           wakes == /\ games # view.games
                    /\ Catalog[s].kind = "knockout" /\ Catalog[s].lifecycle = "active"
                    /\ BracketOpen(s, view)
           checks == [g \in DOMAIN view.games |->
                        IF g \in DOMAIN requests
                        THEN Observed(view, g, row(g), now + requests[g]) ELSE view.checks[g]]
           full == [view.gamesFull EXCEPT !.due = IF wakes THEN now ELSE @]
           v == [view EXCEPT !.games = games, !.checks = checks, !.gamesFull = full]
<1>1. WithResults(s, view, requests) = v
  BY DEF WithResults
<1>2. \A g \in DOMAIN view.games : checks[g].terminal \in {Never, 0}
  <2> SUFFICES ASSUME NEW g \in DOMAIN view.games PROVE checks[g].terminal \in {Never, 0}
    OBVIOUS
  <2>1. view.checks[g].terminal \in {Never, 0}
    BY DEF StartView
  <2> DEFINE due == now + requests[g]
  <2> HIDE DEF row, due
  <2>2. Observed(view, g, row(g), due).terminal \in {Never, 0}
    BY ObservedFact
  <2>3. checks[g] = IF g \in DOMAIN requests THEN Observed(view, g, row(g), due)
                    ELSE view.checks[g]
    BY DEF due
  <2> QED
    BY <2>1, <2>2, <2>3
<1>3. /\ games = [g \in DOMAIN games |-> games[g]]
      /\ DOMAIN games = DOMAIN view.games /\ DOMAIN checks = DOMAIN view.games
  OBVIOUS
<1>4. ~Available(view) => ~wakes
  <2> SUFFICES ASSUME ~Available(view) PROVE games = view.games
    OBVIOUS
  <2>1. DOMAIN view.games = {} /\ view.games = [g \in DOMAIN view.games |-> view.games[g]]
    BY DEF StartView, Available
  <2> QED
    BY <2>1
<1> HIDE DEF wakes
<1>5. /\ IsRefresh(full) /\ full.last = view.gamesFull.last
      /\ ~wakes => full.due = view.gamesFull.due
  BY DEF StartView, IsRefresh
<1>6. IsView(view) /\ IsRefresh(view.xgFull)
  BY DEF StartView
<1> HIDE DEF games, checks, full
<1>7. /\ IsView(v) /\ v.games = games /\ v.checks = checks
      /\ v.gamesFull = full /\ v.xgFull = view.xgFull
  BY <1>6 DEF IsView
<1>8. ~Available(view) /\ view.gamesFull.last # Never => view.gamesFull.due > 0
  BY DEF StartView
<1> HIDE DEF v
<1>9. ~Available(v) /\ v.gamesFull.last # Never => v.gamesFull.due > 0
  BY <1>3, <1>4, <1>5, <1>7, <1>8 DEF Available
<1>10. StartView(v)
  BY <1>2, <1>3, <1>5, <1>6, <1>7, <1>9 DEF StartView
<1> QED
  BY <1>1, <1>5, <1>7, <1>10

LEMMA SameGames ==
    ASSUME NEW view, StartView(view), NEW v, IsView(v), IsRefresh(v.xgFull),
           v.games = view.games, v.checks = view.checks, v.gamesFull = view.gamesFull
    PROVE  StartView(v)
BY DEF StartView, Available

LEMMA WithXGFact ==
    ASSUME now = 0, NEW s, NEW view, StartView(view), NEW next \in Int
    PROVE  LET v == WithXG(s, view, next) IN
           StartView(v) /\ v.gamesFull = view.gamesFull /\ v.xgFull.last = 0
<1> DEFINE xg == view.xg \cup source[s].xg
           xgChecks == [g \in DOMAIN view.games |->
                          IF g \in Full(view) THEN now ELSE view.xgChecks[g]]
           full == Refreshed(next)
           v == [view EXCEPT !.xg = xg, !.xgChecks = xgChecks, !.xgFull = full]
<1>1. WithXG(s, view, next) = v
  BY DEF WithXG
<1>2. IsRefresh(full) /\ full.last = 0
  BY RefreshedFact
<1> HIDE DEF xg, xgChecks, full
<1>3. /\ IsView(v) /\ v.games = view.games /\ v.checks = view.checks
      /\ v.gamesFull = view.gamesFull /\ v.xgFull = full
  BY DEF IsView, StartView
<1> HIDE DEF v
<1> QED
  BY <1>1, <1>2, <1>3, SameGames

LEMMA WithCheckedXGFact ==
    ASSUME NEW s, NEW view, StartView(view), NEW requests
    PROVE  LET v == WithCheckedXG(s, view, requests) IN
           StartView(v) /\ v.gamesFull = view.gamesFull /\ v.xgFull = view.xgFull
<1> DEFINE xg == view.xg \cup (source[s].xg \cap DOMAIN requests)
           xgChecks == [g \in DOMAIN view.games |->
                          IF g \in DOMAIN requests THEN now ELSE view.xgChecks[g]]
           v == [view EXCEPT !.xg = xg, !.xgChecks = xgChecks]
<1>1. WithCheckedXG(s, view, requests) = v
  BY DEF WithCheckedXG
<1> HIDE DEF xg, xgChecks
<1>2. /\ IsView(v) /\ v.games = view.games /\ v.checks = view.checks
      /\ v.gamesFull = view.gamesFull /\ v.xgFull = view.xgFull
  BY DEF IsView, StartView
<1>3. IsRefresh(view.xgFull)
  BY DEF StartView
<1> HIDE DEF v
<1> QED
  BY <1>1, <1>2, <1>3, SameGames

(* A job undoes no first load of its stage, and makes the one it is for.   *)
LEMMA StoredFact ==
    ASSUME Starting, NEW job, IsJob(job)
    PROVE  LET old == cache[job.scope]
               v == Stored(job) IN
           /\ StartView(v)
           /\ old.gamesFull.last # Never => v.gamesFull.last # Never
           /\ old.xgFull.last # Never => v.xgFull.last # Never
           /\ job.reason = "missing" => v.gamesFull.last # Never
           /\ job.reason = "initial" => v.xgFull.last # Never
<1> DEFINE old == cache[job.scope]
<1>1. now = 0 /\ StartView(old)
  BY DEF Starting, IsJob
<1>2. CASE job.kind = "games"
  BY <1>1, <1>2, WithGamesFact, NeverFact DEF Stored, IsJob
<1>3. CASE job.kind = "results"
  BY <1>1, <1>3, WithResultsFact DEF Stored, IsJob
<1>4. CASE job.kind = "xg"
  BY <1>1, <1>4, WithXGFact, NeverFact DEF Stored, IsJob
<1>5. CASE job.kind = "checkedXG"
  BY <1>1, <1>5, WithCheckedXGFact DEF Stored, IsJob
<1> QED
  BY <1>2, <1>3, <1>4, <1>5 DEF IsJob

-----------------------------------------------------------------------------
(* First loads are counted, and never undone.                              *)

LEMMA CountFact ==
    ASSUME NEW B \in SUBSET Scopes, NEW A \in SUBSET B
    PROVE  /\ Cardinality(A) \in Nat /\ Cardinality(B) \in Nat /\ Cardinality(Scopes) \in Nat
           /\ Cardinality(A) <= Cardinality(B) /\ Cardinality(B) <= Cardinality(Scopes)
           /\ A # B => Cardinality(A) < Cardinality(B)
<1>1. IsFiniteSet(Scopes)
  BY PlannerAssumption
<1>2. IsFiniteSet(B) /\ Cardinality(B) <= Cardinality(Scopes)
  BY <1>1, FS_Subset
<1>3. /\ IsFiniteSet(A) /\ Cardinality(A) <= Cardinality(B)
      /\ Cardinality(B) = Cardinality(A) => B = A
  BY <1>2, FS_Subset
<1>4. Cardinality(A) \in Nat /\ Cardinality(B) \in Nat /\ Cardinality(Scopes) \in Nat
  BY <1>1, <1>2, <1>3, FS_CardinalityType
<1> QED
  BY <1>2, <1>3, <1>4

LEMMA ProgressBound ==
    ASSUME Shape
    PROVE  /\ Progress \in Nat
           /\ Progress <= 2 * Cardinality(Scopes) + changes + faults
           /\ (\E job : IsJob(job) /\ Brings(job)) =>
                 Progress < 2 * Cardinality(Scopes) + changes + faults
<1>1. Inventoried \in SUBSET Scopes /\ Rated \in SUBSET Scopes
  BY DEF Inventoried, Rated
<1>2. /\ Cardinality(Inventoried) \in Nat /\ Cardinality(Rated) \in Nat
      /\ Cardinality(Scopes) \in Nat
      /\ Cardinality(Inventoried) <= Cardinality(Scopes)
      /\ Cardinality(Rated) <= Cardinality(Scopes)
      /\ Inventoried # Scopes => Cardinality(Inventoried) < Cardinality(Scopes)
      /\ Rated # Scopes => Cardinality(Rated) < Cardinality(Scopes)
  BY <1>1, CountFact
<1>3. (\E job : IsJob(job) /\ Brings(job)) => Inventoried # Scopes \/ Rated # Scopes
  BY DEF IsJob, Brings, Inventoried, Rated
<1> DEFINE i == Cardinality(Inventoried)
           r == Cardinality(Rated)
           n == Cardinality(Scopes)
<1>4. Progress = i + r + changes + faults /\ changes \in Nat /\ faults \in Nat
  BY DEF Progress, Shape
<1>5. i \in Nat /\ r \in Nat /\ n \in Nat /\ i <= n /\ r <= n
  BY <1>2
<1>6. (\E job : IsJob(job) /\ Brings(job)) => i < n \/ r < n
  BY <1>2, <1>3
<1> HIDE DEF i, r, n
<1>7. /\ i + r + changes + faults \in Nat
      /\ i + r + changes + faults <= 2 * n + changes + faults
      /\ i < n \/ r < n => i + r + changes + faults < 2 * n + changes + faults
  BY <1>4, <1>5
<1> QED
  BY <1>4, <1>6, <1>7 DEF n

(* What a step keeps of the first loads, and what it adds.                 *)
KeepsLoads ==
    \A s \in Scopes :
       /\ cache[s].gamesFull.last # Never => cache'[s].gamesFull.last # Never
       /\ cache[s].xgFull.last # Never => cache'[s].xgFull.last # Never

AddsLoad ==
    \E s \in Scopes :
       \/ cache[s].gamesFull.last = Never /\ cache'[s].gamesFull.last # Never
       \/ cache[s].xgFull.last = Never /\ cache'[s].xgFull.last # Never

LEMMA ProgressGrows ==
    ASSUME Shape, Shape', KeepsLoads, changes' >= changes, faults' >= faults
    PROVE  /\ Progress \in Nat /\ Progress' \in Nat /\ Progress <= Progress'
           /\ AddsLoad \/ changes' > changes \/ faults' > faults => Progress + 1 <= Progress'
<1>1. Inventoried \in SUBSET Inventoried' /\ Rated \in SUBSET Rated'
  BY DEF Inventoried, Rated, KeepsLoads
<1>2. Inventoried' \in SUBSET Scopes /\ Rated' \in SUBSET Scopes
  BY DEF Inventoried, Rated
<1>3. AddsLoad => Inventoried # Inventoried' \/ Rated # Rated'
  BY DEF Inventoried, Rated, AddsLoad
<1> DEFINE i == Cardinality(Inventoried)
           r == Cardinality(Rated)
           j == Cardinality(Inventoried')
           q == Cardinality(Rated')
<1>4. /\ i \in Nat /\ r \in Nat /\ j \in Nat /\ q \in Nat /\ i <= j /\ r <= q
      /\ Inventoried # Inventoried' => i < j
      /\ Rated # Rated' => r < q
  BY <1>1, <1>2, CountFact
<1>5. /\ Progress = i + r + changes + faults
      /\ Progress' = j + q + changes' + faults'
      /\ changes \in Nat /\ faults \in Nat /\ changes' \in Nat /\ faults' \in Nat
  BY DEF Progress, Shape
<1> HIDE DEF i, r, j, q
<1>6. AddsLoad => i < j \/ r < q
  BY <1>3, <1>4
<1>7. \A a, b, c, d, e, f, g, h \in Nat :
         a <= b /\ c <= d /\ f >= e /\ h >= g =>
            /\ a + c + e + g \in Nat /\ b + d + f + h \in Nat
            /\ a + c + e + g <= b + d + f + h
            /\ a < b \/ c < d \/ f > e \/ h > g => a + c + e + g + 1 <= b + d + f + h
  OBVIOUS
<1>8. /\ i + r + changes + faults \in Nat /\ j + q + changes' + faults' \in Nat
      /\ i + r + changes + faults <= j + q + changes' + faults'
      /\ i < j \/ r < q \/ changes' > changes \/ faults' > faults =>
            i + r + changes + faults + 1 <= j + q + changes' + faults'
  BY <1>4, <1>5, <1>7
<1> QED
  BY <1>5, <1>6, <1>8

(* A step that pays for a check of the bootstrap.                          *)
LEMMA Paid ==
    ASSUME Shape, Shape', Advances, KeepsLoads, changes' >= changes, faults' >= faults,
           loop'.batch = loop.batch,
           AddsLoad \/ changes' > changes \/ faults' > faults
    PROVE  Advances'
<1>1. Progress \in Nat /\ Progress' \in Nat /\ Progress + 1 <= Progress'
  BY ProgressGrows
<1>2. loop.batch <= 2 + Progress /\ loop.batch \in Nat
  BY <1>1 DEF Advances, Shape, IsLoop
<1>3. loop'.batch <= 1 + Progress'
  BY <1>1, <1>2
<1> QED
  BY <1>3 DEF Advances

LEMMA SameCache ==
    ASSUME cache' = cache
    PROVE  /\ KeepsLoads /\ Inventoried' = Inventoried /\ Rated' = Rated
           /\ \A job : Brings(job)' <=> Brings(job)
BY DEF KeepsLoads, Inventoried, Rated, Brings

LEMMA FinishedFact ==
    ASSUME Shape, NEW clean \in BOOLEAN
    PROVE  LET l == Finished(clean) IN
           /\ IsLoop(l) /\ l.jobs = {}
           /\ \/ l.batch = 0 /\ l.pc = "tick"
              \/ l.batch = loop.batch /\ l.pc = "bootstrap" /\ clean
BY DEF Finished, Idle, Shape, IsLoop

LEMMA ContinueFact ==
    ASSUME Shape, NEW clean \in BOOLEAN
    PROVE  LET l == Continue(clean) IN
           /\ IsLoop(l) /\ l.jobs = loop.jobs
           /\ \/ l.batch = 0
              \/ l.batch = loop.batch /\ l.pc = "bootstrap" /\ l.jobs = {}
              \/ l.batch = loop.batch /\ l.pc = "job"
<1>1. CASE loop.jobs = {}
  <2>1. Continue(clean) = Finished(clean)
    BY <1>1 DEF Continue
  <2> QED
    BY <1>1, <2>1, FinishedFact
<1>2. CASE loop.jobs # {}
  BY <1>2 DEF Continue, Shape, IsLoop
<1> QED
  BY <1>1, <1>2

-----------------------------------------------------------------------------
(* The invariant of the bootstrap, action by action.                       *)

LEMMA StartedView == StartView(EmptyView)
BY NeverFact DEF StartView, IsView, IsRefresh, EmptyView, NoRefresh, NoGames, Available

LEMMA BootstrapInit == Init => BootstrapInvariant
<1> SUFFICES ASSUME Init PROVE BootstrapInvariant
  OBVIOUS
<1>1. /\ loop = [pc |-> "read", jobs |-> {}, clean |-> TRUE, batch |-> 1]
      /\ now = 0 /\ changes = 0 /\ faults = 0 /\ cache = [s \in Scopes |-> EmptyView]
  BY DEF Init, Idle
<1>2. Shape
  BY <1>1 DEF Shape, IsLoop
<1>3. Starting
  BY <1>1, StartedView DEF Starting
<1>4. Progress \in Nat
  BY <1>2, ProgressBound
<1>5. loop.batch <= 1 + Progress
  BY <1>1, <1>4
<1> QED
  BY <1>2, <1>3, <1>5 DEF BootstrapInvariant, Advances

(* A step of the loop that stores nothing.                                 *)
LEMMA LoopKeeps ==
    ASSUME BootstrapInvariant, loop.batch > 0, cache' = cache, now' = now,
           loop'.pc # "tick", loop'.jobs \subseteq loop.jobs \/ loop'.jobs = Plan(cache, now)
    PROVE  Starting'
<1>1. Starting
  BY DEF BootstrapInvariant
<1>2. \A job \in loop'.jobs : IsJob(job)
  BY <1>1, PlanBrings DEF Starting
<1> QED
  BY <1>1, <1>2 DEF Starting

LEMMA ReadStep == ASSUME BootstrapInvariant, Read PROVE BootstrapInvariant'
<1>1. /\ loop.pc = "read" /\ IsLoop(loop) /\ changes \in Nat /\ faults \in Nat
      /\ cache' = cache /\ now' = now /\ changes' = changes /\ faults' = faults
  BY DEF Read, BootstrapInvariant, Shape
<1>2. /\ loop'.jobs = Plan(cache, now) /\ loop'.batch = loop.batch
      /\ loop'.pc \in {"calculate", "job"} /\ IsLoop(loop')
      /\ loop'.jobs = {} => loop'.pc = "calculate"
  BY <1>1 DEF Read, IsLoop
<1>3. Shape'
  BY <1>1, <1>2 DEF Shape
<1>4. ASSUME loop.batch > 0 PROVE Starting' /\ Advances'
  <2>1. Starting'
    BY <1>1, <1>2, <1>4, LoopKeeps
  <2>2. Starting /\ Advances
    BY <1>4 DEF BootstrapInvariant
  <2>3. Progress' = Progress /\ \A job : Brings(job)' <=> Brings(job)
    BY <1>1, SameCache DEF Progress
  <2>4. CASE loop.batch <= 1 + Progress
    BY <1>2, <2>1, <2>3, <2>4 DEF Advances
  <2>5. CASE loop.batch <= 2 + Progress /\ BootstrapDue
    <3>1. \E job \in loop'.jobs : Brings(job)
      BY <1>2, <2>2, <2>5, PlanBrings DEF BootstrapDue
    <3> QED
      BY <1>2, <2>1, <2>3, <2>5, <3>1 DEF Advances
  <2> QED
    BY <1>1, <2>1, <2>2, <2>4, <2>5 DEF Advances
<1> QED
  BY <1>2, <1>3, <1>4 DEF BootstrapInvariant

(* A step after which the bootstrap is over.                               *)
LEMMA OverStep ==
    ASSUME BootstrapInvariant, IsLoop(loop'), loop'.batch = 0,
           changes' = changes, faults' \in Nat
    PROVE  BootstrapInvariant'
BY DEF BootstrapInvariant, Shape

LEMMA CalculateStep == ASSUME BootstrapInvariant, Calculate PROVE BootstrapInvariant'
<1>1. /\ loop.pc = "calculate" /\ Shape /\ loop.clean \in BOOLEAN
      /\ cache' = cache /\ now' = now /\ changes' = changes /\ faults' = faults
      /\ loop' = Continue(loop.clean)
  BY DEF Calculate, BootstrapInvariant, Shape, IsLoop
<1>2. /\ IsLoop(loop') /\ loop'.jobs = loop.jobs
      /\ \/ loop'.batch = 0
         \/ loop'.batch = loop.batch /\ loop'.pc = "bootstrap" /\ loop'.jobs = {}
         \/ loop'.batch = loop.batch /\ loop'.pc = "job"
  BY <1>1, ContinueFact
<1>3. Shape'
  BY <1>1, <1>2 DEF Shape
<1>4. ASSUME loop'.batch > 0 PROVE Starting' /\ Advances'
  <2>1. loop'.batch = loop.batch /\ loop'.pc \in {"bootstrap", "job"}
    BY <1>2, <1>4
  <2>2. Starting'
    BY <1>1, <1>2, <1>4, <2>1, LoopKeeps
  <2>3. Advances
    BY <1>4, <2>1 DEF BootstrapInvariant
  <2>4. Progress' = Progress /\ \A job : Brings(job)' <=> Brings(job)
    BY <1>1, SameCache DEF Progress
  <2>5. CASE loop.batch <= 1 + Progress
    BY <2>1, <2>2, <2>4, <2>5 DEF Advances
  <2>6. CASE loop.batch <= 2 + Progress /\ \E job \in loop.jobs : Brings(job)
    <3>1. loop'.pc = "job" /\ \E job \in loop'.jobs : Brings(job)'
      BY <1>2, <1>4, <2>4, <2>6
    <3> QED
      BY <2>1, <2>2, <2>4, <2>6, <3>1 DEF Advances
  <2> QED
    BY <1>1, <2>2, <2>3, <2>5, <2>6 DEF Advances
<1> QED
  BY <1>3, <1>4 DEF BootstrapInvariant

(* A fault pays for the check it disturbs.                                 *)
LEMMA FaultStep ==
    ASSUME BootstrapInvariant, IsLoop(loop'), loop'.batch \in {0, loop.batch},
           loop'.batch > 0 => loop'.pc # "tick", loop'.jobs \subseteq loop.jobs,
           cache' = cache, now' = now, changes' = changes, faults' = faults + 1
    PROVE  BootstrapInvariant'
<1>1. Shape /\ Shape' /\ faults' > faults /\ changes' >= changes
  BY DEF BootstrapInvariant, Shape
<1>2. ASSUME loop'.batch > 0 PROVE Starting' /\ Advances'
  <2>1. loop'.batch = loop.batch /\ loop.batch > 0
    BY <1>2
  <2>2. Starting'
    BY <1>2, <2>1, LoopKeeps
  <2>3. Advances /\ KeepsLoads
    BY <2>1, SameCache DEF BootstrapInvariant
  <2> QED
    BY <1>1, <2>1, <2>2, <2>3, Paid DEF Shape
<1> QED
  BY <1>1, <1>2 DEF BootstrapInvariant

LEMMA CalculationFailsStep ==
    ASSUME BootstrapInvariant, CalculationFails PROVE BootstrapInvariant'
<1>1. /\ Shape /\ loop' = Continue(TRUE)
      /\ cache' = cache /\ now' = now /\ changes' = changes /\ faults' = faults + 1
  BY DEF CalculationFails, BootstrapInvariant
<1>2. /\ IsLoop(loop') /\ loop'.jobs = loop.jobs
      /\ \/ loop'.batch = 0
         \/ loop'.batch = loop.batch /\ loop'.pc \in {"bootstrap", "job"}
  BY <1>1, ContinueFact
<1>3. /\ loop'.batch \in {0, loop.batch} /\ loop'.jobs \subseteq loop.jobs
      /\ loop'.batch > 0 => loop'.pc # "tick"
  BY <1>2
<1> QED
  BY <1>1, <1>2, <1>3, FaultStep

LEMMA JobDeferredStep ==
    ASSUME BootstrapInvariant, NEW job, JobDeferred(job) PROVE BootstrapInvariant'
<1>1. /\ IsLoop(loop) /\ loop.pc = "job"
      /\ cache' = cache /\ now' = now /\ changes' = changes /\ faults' = faults + 1
  BY DEF JobDeferred, BootstrapInvariant, Shape
<1>2. /\ IsLoop(loop') /\ loop'.jobs \subseteq loop.jobs
      /\ loop'.batch \in {0, loop.batch}
      /\ loop'.batch > 0 => loop'.pc # "tick"
  <2>1. CASE loop.jobs = {job}
    BY <2>1 DEF JobDeferred, Idle, IsLoop
  <2>2. CASE loop.jobs # {job}
    BY <1>1, <2>2 DEF JobDeferred, IsLoop
  <2> QED
    BY <2>1, <2>2
<1> QED
  BY <1>1, <1>2, FaultStep

LEMMA FailsStep ==
    ASSUME BootstrapInvariant,
           ReadFails \/ BootstrapReadFails \/ \E job \in loop.jobs : JobFails(job)
    PROVE  BootstrapInvariant'
<1>1. Shape
  BY DEF BootstrapInvariant
<1>2. CASE ReadFails
  <2>1. loop' = Finished(FALSE) /\ changes' = changes /\ faults' \in Nat
    BY <1>1, <1>2 DEF ReadFails, Shape
  <2>2. IsLoop(loop') /\ loop'.batch = 0
    BY <1>1, <2>1, FinishedFact
  <2> QED
    BY <2>1, <2>2, OverStep
<1>3. CASE \E job \in loop.jobs : JobFails(job)
  <2>1. loop' = Idle(FALSE) /\ changes' = changes /\ faults' \in Nat
    BY <1>1, <1>3 DEF JobFails, Shape
  <2>2. IsLoop(loop') /\ loop'.batch = 0
    BY <2>1 DEF Idle, IsLoop
  <2> QED
    BY <2>1, <2>2, OverStep
<1>4. CASE BootstrapReadFails
  <2>1. loop' = Idle(TRUE) /\ changes' = changes /\ faults' \in Nat
    BY <1>1, <1>4 DEF BootstrapReadFails, Shape
  <2>2. IsLoop(loop') /\ loop'.batch = 0
    BY <2>1 DEF Idle, IsLoop
  <2> QED
    BY <2>1, <2>2, OverStep
<1> QED
  BY <1>2, <1>3, <1>4

LEMMA RunJobStep ==
    ASSUME BootstrapInvariant, NEW job, RunJob(job) PROVE BootstrapInvariant'
<1> DEFINE rest == loop.jobs \ {job}
<1>1. /\ loop.pc = "job" /\ Shape /\ loop.clean \in BOOLEAN /\ job \in loop.jobs
      /\ cache' = [cache EXCEPT ![job.scope] = Stored(job)]
      /\ now' = now /\ changes' = changes /\ faults' = faults
  BY DEF RunJob, Leading, BootstrapInvariant, Shape, IsLoop
<1>2. \/ loop' = [loop EXCEPT !.pc = "calculate", !.jobs = rest]
      \/ rest = {} /\ loop' = Finished(loop.clean)
      \/ loop' = [loop EXCEPT !.jobs = rest]
  BY DEF RunJob
<1>3. /\ IsLoop(loop') /\ loop'.jobs \subseteq rest
      /\ loop'.batch \in {0, loop.batch}
      /\ loop'.batch = 0 \/ loop'.pc # "tick"
      /\ loop'.batch = 0 \/ (loop'.jobs = rest /\ (rest = {} \/ loop'.pc \in {"calculate", "job"}))
  <2>1. IsLoop(loop)
    BY <1>1 DEF Shape
  <2> HIDE DEF rest
  <2>2. CASE loop' = [loop EXCEPT !.pc = "calculate", !.jobs = rest]
    BY <2>1, <2>2 DEF IsLoop
  <2>3. CASE rest = {} /\ loop' = Finished(loop.clean)
    BY <1>1, <2>3, FinishedFact
  <2>4. CASE loop' = [loop EXCEPT !.jobs = rest]
    BY <1>1, <2>1, <2>4 DEF IsLoop
  <2> QED
    BY <1>2, <2>2, <2>3, <2>4
<1>4. Shape'
  BY <1>1, <1>3 DEF Shape
<1>5. ASSUME loop'.batch > 0 PROVE Starting' /\ Advances'
  <2>1. loop'.batch = loop.batch /\ loop.batch > 0 /\ loop'.pc # "tick" /\ loop'.jobs = rest
    BY <1>3, <1>5
  <2>2. Starting /\ Advances
    BY <2>1 DEF BootstrapInvariant
  <2>3. IsJob(job) /\ job.scope \in Scopes
    BY <1>1, <2>2 DEF Starting, IsJob
  <2>4. /\ StartView(Stored(job))
        /\ cache[job.scope].gamesFull.last # Never => Stored(job).gamesFull.last # Never
        /\ cache[job.scope].xgFull.last # Never => Stored(job).xgFull.last # Never
        /\ job.reason = "missing" => Stored(job).gamesFull.last # Never
        /\ job.reason = "initial" => Stored(job).xgFull.last # Never
    BY <2>2, <2>3, StoredFact
  <2>5. /\ cache' = [s \in Scopes |-> IF s = job.scope THEN Stored(job) ELSE cache[s]]
        /\ now = 0 /\ \A s \in Scopes : StartView(cache[s])
        /\ \A other \in loop.jobs : IsJob(other)
    BY <1>1, <2>2 DEF Starting
  <2>6. Starting'
    <3>1. cache' = [s \in Scopes |-> cache'[s]]
      BY <2>5
    <3>2. \A s \in Scopes : StartView(cache'[s])
      BY <2>4, <2>5
    <3> QED
      BY <1>1, <2>1, <2>5, <3>1, <3>2 DEF Starting
  <2>7. KeepsLoads
    BY <2>4, <2>5 DEF KeepsLoads
  <2>8. CASE AddsLoad
    BY <1>1, <1>4, <2>1, <2>2, <2>6, <2>7, <2>8, Paid DEF Shape
  <2>9. CASE ~AddsLoad
    <3>1. ~Brings(job)
      BY <2>3, <2>4, <2>5, <2>9 DEF Brings, AddsLoad
    <3>2. Progress <= Progress' /\ Progress \in Nat /\ Progress' \in Nat
      BY <1>1, <1>4, <2>7, ProgressGrows DEF Shape
    <3>3. CASE loop.batch <= 1 + Progress
      <4>1. loop'.batch <= 1 + Progress'
        BY <1>1, <2>1, <3>2, <3>3 DEF Shape, IsLoop
      <4> QED
        BY <2>6, <4>1 DEF Advances
    <3>4. CASE loop.batch <= 2 + Progress /\ \E other \in loop.jobs : Brings(other)
      <4>1. PICK other \in loop.jobs : Brings(other)
        BY <3>4
      <4>2. other \in loop'.jobs /\ rest # {}
        BY <2>1, <3>1, <4>1
      <4>3. other.scope \in Scopes
        BY <2>5 DEF IsJob
      <4>4. Brings(other)'
        BY <2>9, <4>1, <4>3 DEF Brings, AddsLoad
      <4>5. loop'.pc \in {"calculate", "job"}
        BY <1>3, <1>5, <4>2
      <4>6. loop'.batch <= 2 + Progress'
        BY <1>1, <2>1, <3>2, <3>4 DEF Shape, IsLoop
      <4> QED
        BY <2>6, <4>2, <4>4, <4>5, <4>6 DEF Advances
    <3> QED
      BY <1>1, <2>2, <3>3, <3>4 DEF Advances
  <2> QED
    BY <2>8, <2>9
<1> QED
  BY <1>4, <1>5 DEF BootstrapInvariant

LEMMA BootstrapStep == ASSUME BootstrapInvariant, Bootstrap PROVE BootstrapInvariant'
<1>1. /\ loop.pc = "bootstrap" /\ Shape /\ IsLoop(loop) /\ loop.batch > 0
      /\ cache' = cache /\ now' = now /\ changes' = changes /\ faults' = faults
  BY DEF Bootstrap, BootstrapInvariant, Shape, IsLoop
<1>2. CASE ~BootstrapDue
  <2>1. loop' = Idle(TRUE)
    BY <1>2 DEF Bootstrap
  <2>2. IsLoop(loop') /\ loop'.batch = 0
    BY <2>1 DEF Idle, IsLoop
  <2> QED
    BY <1>1, <2>2, OverStep DEF Shape
<1>3. CASE BootstrapDue
  <2>1. loop' = [loop EXCEPT !.pc = "read", !.batch = loop.batch + 1]
    BY <1>3 DEF Bootstrap
  <2>2. /\ IsLoop(loop') /\ loop'.pc = "read" /\ loop'.jobs = loop.jobs
        /\ loop'.batch = loop.batch + 1
    <3> DEFINE next == loop.batch + 1
    <3>1. next \in Nat /\ next > 0
      BY <1>1 DEF IsLoop
    <3> HIDE DEF next
    <3>2. loop' = [loop EXCEPT !.pc = "read", !.batch = next]
      BY <2>1 DEF next
    <3>3. /\ IsLoop(loop') /\ loop'.pc = "read" /\ loop'.jobs = loop.jobs
          /\ loop'.batch = next
      BY <1>1, <3>1, <3>2 DEF IsLoop
    <3> QED
      BY <3>3 DEF next
  <2>3. Starting'
    BY <1>1, <2>2, LoopKeeps
  <2>4. Progress' = Progress /\ Progress \in Nat
    BY <1>1, SameCache, ProgressBound DEF Progress
  <2>5. loop.batch <= 1 + Progress /\ loop.batch \in Nat
    BY <1>1 DEF BootstrapInvariant, Advances, IsLoop
  <2>6. BootstrapDue'
    BY <1>1, <1>3 DEF BootstrapDue
  <2>7. loop'.batch <= 2 + Progress'
    BY <2>2, <2>4, <2>5
  <2>8. Advances'
    BY <2>2, <2>6, <2>7 DEF Advances
  <2> QED
    BY <1>1, <2>2, <2>3, <2>8 DEF BootstrapInvariant, Shape
<1> QED
  BY <1>2, <1>3

LEMMA TickStep == ASSUME BootstrapInvariant, Tick PROVE BootstrapInvariant'
<1>1. /\ loop.pc = "tick" /\ IsLoop(loop) /\ loop' = [loop EXCEPT !.pc = "read"]
      /\ changes' = changes /\ faults' = faults /\ faults \in Nat
  BY DEF Tick, BootstrapInvariant, Shape
<1>2. loop.batch = 0
  BY <1>1 DEF BootstrapInvariant, Starting, IsLoop
<1>3. IsLoop(loop') /\ loop'.batch = 0
  BY <1>1, <1>2 DEF IsLoop
<1> QED
  BY <1>1, <1>3, OverStep

(* A change of the source, or of a stage by another process, pays as well. *)
LEMMA ChangeStep ==
    ASSUME BootstrapInvariant, loop' = loop, now' = now, faults' = faults,
           changes' = changes + 1,
           \/ cache' = cache
           \/ \E s \in Scopes :
                 cache' = [cache EXCEPT ![s] = WithGames(s, cache[s], Cadence.inventory)]
    PROVE  BootstrapInvariant'
<1>1. Shape /\ Shape' /\ changes' > changes /\ faults' >= faults
  BY DEF BootstrapInvariant, Shape
<1>2. ASSUME loop.batch > 0 PROVE Starting' /\ Advances'
  <2>1. Starting /\ Advances /\ now = 0 /\ \A s \in Scopes : StartView(cache[s])
    BY <1>2 DEF BootstrapInvariant, Starting
  <2>2. Starting' /\ KeepsLoads
    <3>1. CASE cache' = cache
      BY <2>1, <3>1, SameCache DEF Starting
    <3>2. CASE \E s \in Scopes :
                 cache' = [cache EXCEPT ![s] = WithGames(s, cache[s], Cadence.inventory)]
      <4>1. PICK s \in Scopes :
                 cache' = [cache EXCEPT ![s] = WithGames(s, cache[s], Cadence.inventory)]
        BY <3>2
      <4> DEFINE v == WithGames(s, cache[s], Cadence.inventory)
      <4>2. StartView(v) /\ v.gamesFull.last = 0 /\ v.xgFull = cache[s].xgFull
        BY <2>1, PlannerAssumption, WithGamesFact
      <4>3. cache' = [t \in Scopes |-> IF t = s THEN v ELSE cache[t]]
        BY <2>1, <4>1 DEF Starting
      <4> HIDE DEF v
      <4>4. /\ cache' = [t \in Scopes |-> cache'[t]]
            /\ \A t \in Scopes : StartView(cache'[t])
        BY <2>1, <4>2, <4>3
      <4>5. Starting'
        BY <2>1, <4>4 DEF Starting
      <4>6. KeepsLoads
        BY <4>2, <4>3, NeverFact DEF KeepsLoads
      <4> QED
        BY <4>5, <4>6
    <3> QED
      BY <3>1, <3>2
  <2> QED
    BY <1>1, <2>1, <2>2, Paid DEF Shape
<1> QED
  BY <1>1, <1>2 DEF BootstrapInvariant

LEMMA WorldStep ==
    ASSUME BootstrapInvariant,
           \E s \in Scopes :
              \/ \E g \in Games[s] :
                    Publish(s, g) \/ (\E row \in Settled : Settle(s, g, row)) \/ Rate(s, g)
              \/ ManualSync(s)
    PROVE  BootstrapInvariant'
<1>1. CASE \E s \in Scopes : \E g \in Games[s] :
              Publish(s, g) \/ (\E row \in Settled : Settle(s, g, row)) \/ Rate(s, g)
  <2>0. PICK s \in Scopes : \E g \in Games[s] :
              Publish(s, g) \/ (\E row \in Settled : Settle(s, g, row)) \/ Rate(s, g)
    BY <1>1
  <2>1. PICK g \in Games[s] :
              Publish(s, g) \/ (\E row \in Settled : Settle(s, g, row)) \/ Rate(s, g)
    BY <2>0
  <2>2. Change /\ Elsewhere /\ cache' = cache
    <3>1. CASE Publish(s, g)
      BY <3>1 DEF Publish
    <3>2. CASE \E row \in Settled : Settle(s, g, row)
      BY <3>2 DEF Settle
    <3>3. CASE Rate(s, g)
      BY <3>3 DEF Rate
    <3> QED
      BY <2>1, <3>1, <3>2, <3>3
  <2>3. loop' = loop /\ now' = now /\ faults' = faults /\ changes' = changes + 1
    BY <2>2 DEF Change, Elsewhere
  <2> QED
    BY <2>2, <2>3, ChangeStep
<1>2. CASE \E s \in Scopes : ManualSync(s)
  BY <1>2, ChangeStep DEF ManualSync, Change
<1> QED
  BY <1>1, <1>2

LEMMA BootstrapStutter ==
    ASSUME BootstrapInvariant, UNCHANGED vars PROVE BootstrapInvariant'
BY DEF BootstrapInvariant, vars, Shape, Starting, Advances, Progress, Inventoried, Rated,
       BootstrapDue, Brings

LEMMA BootstrapNext == BootstrapInvariant /\ [Next]_vars => BootstrapInvariant'
<1> SUFFICES ASSUME BootstrapInvariant, [Next]_vars PROVE BootstrapInvariant'
  OBVIOUS
<1>1. CASE Next
  BY <1>1, ReadStep, FailsStep, CalculateStep, CalculationFailsStep, RunJobStep,
     JobDeferredStep, BootstrapStep, TickStep, WorldStep DEF Next
<1> QED
  BY <1>1, BootstrapStutter

(* The startup bootstrap ends after at most two checks for each registered *)
(* stage and one for each change or fault meanwhile, whatever the source   *)
(* answers, the budget and the order of the plan are.                      *)
THEOREM BootstrapCorrect == Spec => []BootstrapBounded
<1>1. BootstrapInvariant => BootstrapBounded
  <2> SUFFICES ASSUME BootstrapInvariant PROVE BootstrapBounded
    OBVIOUS
  <2>1. Shape /\ loop.batch \in Nat /\ changes \in Nat /\ faults \in Nat
    BY DEF BootstrapInvariant, Shape, IsLoop
  <2>2. /\ Progress \in Nat /\ Progress <= 2 * Cardinality(Scopes) + changes + faults
        /\ Cardinality(Scopes) \in Nat
    BY <2>1, ProgressBound, PlannerAssumption, FS_CardinalityType
  <2>3. CASE loop.batch = 0
    BY <2>1, <2>2, <2>3 DEF BootstrapBounded
  <2>4. CASE loop.batch > 0 /\ loop.batch <= 1 + Progress
    BY <2>1, <2>2, <2>4 DEF BootstrapBounded
  <2>5. CASE loop.batch > 0 /\ loop.batch <= 2 + Progress /\ \E job : IsJob(job) /\ Brings(job)
    <3>1. Progress < 2 * Cardinality(Scopes) + changes + faults
      BY <2>1, <2>5, ProgressBound
    <3> QED
      BY <2>1, <2>2, <2>5, <3>1 DEF BootstrapBounded
  <2>6. loop.batch > 0 => \/ loop.batch <= 1 + Progress
                          \/ loop.batch <= 2 + Progress /\ \E job : IsJob(job) /\ Brings(job)
    <3> SUFFICES ASSUME loop.batch > 0, ~(loop.batch <= 1 + Progress)
                 PROVE  loop.batch <= 2 + Progress /\ \E job : IsJob(job) /\ Brings(job)
      OBVIOUS
    <3>1. Starting /\ Advances
      BY DEF BootstrapInvariant
    <3>2. BootstrapDue => \E job : IsJob(job) /\ Brings(job)
      BY <3>1, PlanBrings DEF BootstrapDue
    <3>3. (\E job \in loop.jobs : Brings(job)) => \E job : IsJob(job) /\ Brings(job)
      BY <3>1 DEF Starting
    <3> QED
      BY <3>1, <3>2, <3>3 DEF Advances
  <2> QED
    BY <2>1, <2>3, <2>4, <2>5, <2>6
<1> QED
  BY BootstrapInit, BootstrapNext, <1>1, PTL DEF Spec

-----------------------------------------------------------------------------
(* The stored evaluation.                                                  *)

Evaluation == [kind |-> "evaluation", of |-> Configured]

EvaluationInvariant ==
    /\ Shape /\ owed \in [Obligations -> Nat]
    /\ owed[Evaluation] <= faults + 1
    /\ loop.pc # "calculate" => owed[Evaluation] <= faults

LEMMA EvaluationFact == Evaluation \in Obligations /\ (Owed(Evaluation) <=> OwedEvaluation)
BY DEF Evaluation, Obligations, Owed

LEMMA MetFact ==
    ASSUME EvaluationInvariant, Met
    PROVE  /\ owed' \in [Obligations -> Nat] /\ owed'[Evaluation] <= owed[Evaluation]
           /\ ~OwedEvaluation' => owed'[Evaluation] = 0
<1>1. owed' \in [Obligations -> Nat]
  BY DEF Met, EvaluationInvariant
<1>2. owed'[Evaluation] = IF owed[Evaluation] > 0 /\ Owed(Evaluation)'
                          THEN owed[Evaluation] ELSE 0
  BY EvaluationFact DEF Met
<1>3. Owed(Evaluation)' <=> OwedEvaluation'
  BY DEF Evaluation, Owed
<1>4. owed[Evaluation] \in Nat
  BY EvaluationFact DEF EvaluationInvariant
<1> QED
  BY <1>1, <1>2, <1>3, <1>4

(* A step after which no calculation is due and nothing more is owed.      *)
LEMMA OwesLess ==
    ASSUME EvaluationInvariant, Shape', owed' \in [Obligations -> Nat],
           owed'[Evaluation] <= owed[Evaluation], faults' >= faults,
           loop.pc # "calculate" \/ loop'.pc = loop.pc
    PROVE  EvaluationInvariant'
<1>1. owed[Evaluation] \in Nat /\ owed'[Evaluation] \in Nat /\ faults \in Nat /\ faults' \in Nat
  BY EvaluationFact DEF EvaluationInvariant, Shape
<1> QED
  BY <1>1 DEF EvaluationInvariant

LEMMA EvaluationInit == Init => EvaluationInvariant
<1> SUFFICES ASSUME Init PROVE EvaluationInvariant
  OBVIOUS
<1>1. Shape /\ faults = 0
  BY BootstrapInit DEF BootstrapInvariant, Init
<1>2. owed = [o \in Obligations |-> 0]
  BY DEF Init
<1> QED
  BY <1>1, <1>2, EvaluationFact DEF EvaluationInvariant

(* The check that finds the evaluation owed calculates before its jobs.    *)
LEMMA ReadEvaluates ==
    ASSUME EvaluationInvariant, Shape', Read PROVE EvaluationInvariant'
<1> DEFINE jobs == Plan(cache, now)
           bootstrap == loop.batch > 0 \/ \E job \in jobs : BootstrapJob(job)
           hot == \E job \in jobs : job.reason # "sweep"
           awaits(o) == bootstrap \/ (hot /\ o.kind \in Sweeps)
<1>1. /\ loop.pc = "read" /\ faults' = faults /\ faults \in Nat
      /\ IsLoop(loop) /\ owed[Evaluation] \in Nat /\ owed[Evaluation] <= faults
  BY EvaluationFact DEF Read, EvaluationInvariant, Shape
<1>2. owed' = [o \in Obligations |->
                 IF ~Owed(o) THEN 0 ELSE IF awaits(o) THEN owed[o] ELSE owed[o] + 1]
  BY DEF Read
<1>3. loop' = [loop EXCEPT !.jobs = jobs, !.clean = TRUE,
                 !.pc = IF jobs = {} \/ (loop.batch <= 1 /\ CurrentInventoryAvailable)
                        THEN "calculate" ELSE "job"]
  BY DEF Read
<1> HIDE DEF jobs, hot
<1>4. owed' \in [Obligations -> Nat]
  <2> HIDE DEF bootstrap
  <2> QED
    BY <1>2 DEF EvaluationInvariant
<1>5. /\ owed'[Evaluation] <= faults + 1
      /\ owed'[Evaluation] > faults => OwedEvaluation /\ ~(loop.batch > 0)
  <2>1. owed'[Evaluation] = IF ~OwedEvaluation THEN 0
                            ELSE IF awaits(Evaluation) THEN owed[Evaluation]
                            ELSE owed[Evaluation] + 1
    BY <1>2, EvaluationFact
  <2>2. loop.batch > 0 => awaits(Evaluation)
    OBVIOUS
  <2> HIDE DEF awaits
  <2> QED
    BY <1>1, <2>1, <2>2
<1>6. OwedEvaluation /\ ~(loop.batch > 0) => loop'.pc = "calculate"
  <2> SUFFICES ASSUME OwedEvaluation, ~(loop.batch > 0) PROVE loop'.pc = "calculate"
    OBVIOUS
  <2>1. CurrentInventoryAvailable
    BY DEF OwedEvaluation, CurrentInventoryAvailable
  <2>2. loop.batch <= 1
    BY <1>1 DEF IsLoop
  <2> QED
    BY <1>1, <1>3, <2>1, <2>2 DEF IsLoop
<1>7. loop'.pc # "calculate" => owed'[Evaluation] <= faults
  <2>1. owed'[Evaluation] \in Nat
    BY <1>4, EvaluationFact
  <2> QED
    BY <1>1, <1>5, <1>6, <2>1
<1> QED
  BY <1>1, <1>4, <1>5, <1>7 DEF EvaluationInvariant

LEMMA CalculateEvaluates ==
    ASSUME EvaluationInvariant, Shape', Calculate PROVE EvaluationInvariant'
<1>1. Met /\ cache' = cache /\ faults' = faults /\ faults \in Nat
  BY DEF Calculate, EvaluationInvariant, Shape
<1>2. ~OwedEvaluation'
  BY DEF Calculate, OwedEvaluation
<1>3. owed' \in [Obligations -> Nat] /\ owed'[Evaluation] = 0
  BY <1>1, <1>2, MetFact
<1> QED
  BY <1>1, <1>3 DEF EvaluationInvariant

LEMMA CalculationFailsEvaluates ==
    ASSUME EvaluationInvariant, Shape', CalculationFails PROVE EvaluationInvariant'
<1>1. owed' = owed /\ faults' = faults + 1
  BY DEF CalculationFails
<1>2. owed[Evaluation] \in Nat /\ faults \in Nat
  BY EvaluationFact DEF EvaluationInvariant, Shape
<1> QED
  BY <1>1, <1>2 DEF EvaluationInvariant

LEMMA OtherStepEvaluates ==
    ASSUME EvaluationInvariant, Shape',
           \/ ReadFails \/ Bootstrap \/ BootstrapReadFails \/ Tick
           \/ \E job \in loop.jobs : RunJob(job) \/ JobFails(job) \/ JobDeferred(job)
    PROVE  EvaluationInvariant'
<1>1. faults \in Nat /\ owed \in [Obligations -> Nat] /\ owed[Evaluation] \in Nat
  BY EvaluationFact DEF EvaluationInvariant, Shape
<1>2. CASE ReadFails \/ Bootstrap \/ BootstrapReadFails \/ Tick
  <2>1. faults' \in {faults, faults + 1}
    BY <1>2 DEF ReadFails, Bootstrap, BootstrapReadFails, Tick
  <2>2. owed' = owed /\ loop.pc # "calculate"
    BY <1>2 DEF ReadFails, Bootstrap, BootstrapReadFails, Tick
  <2>3. faults' >= faults
    BY <1>1, <2>1
  <2>4. owed[Evaluation] <= owed[Evaluation]
    BY <1>1
  <2> QED
    BY <1>1, <2>2, <2>3, <2>4, OwesLess
<1>3. CASE \E job \in loop.jobs : JobFails(job) \/ JobDeferred(job)
  <2>1. faults' \in {faults, faults + 1}
    BY <1>3 DEF JobFails, JobDeferred
  <2>2. owed' = owed /\ loop.pc # "calculate"
    BY <1>3 DEF JobFails, JobDeferred
  <2>3. faults' >= faults
    BY <1>1, <2>1
  <2>4. owed[Evaluation] <= owed[Evaluation]
    BY <1>1
  <2> QED
    BY <1>1, <2>2, <2>3, <2>4, OwesLess
<1>4. CASE \E job \in loop.jobs : RunJob(job)
  <2>1. Met /\ faults' = faults /\ loop.pc # "calculate"
    BY <1>4 DEF RunJob
  <2>2. faults' >= faults
    BY <1>1, <2>1
  <2> QED
    BY <1>1, <2>1, <2>2, MetFact, OwesLess
<1> QED
  BY <1>2, <1>3, <1>4

LEMMA WorldEvaluates ==
    ASSUME EvaluationInvariant, Shape',
           \E s \in Scopes :
              \/ \E g \in Games[s] :
                    Publish(s, g) \/ (\E row \in Settled : Settle(s, g, row)) \/ Rate(s, g)
              \/ ManualSync(s)
    PROVE  EvaluationInvariant'
<1>1. PICK s \in Scopes :
         \/ \E g \in Games[s] :
               Publish(s, g) \/ (\E row \in Settled : Settle(s, g, row)) \/ Rate(s, g)
         \/ ManualSync(s)
  OBVIOUS
<1>2. loop' = loop /\ faults' = faults /\ (owed' = owed \/ Met)
  <2>1. CASE \E g \in Games[s] : Publish(s, g)
    BY <2>1 DEF Publish, Elsewhere
  <2>2. CASE \E g \in Games[s] : \E row \in Settled : Settle(s, g, row)
    BY <2>2 DEF Settle, Elsewhere
  <2>3. CASE \E g \in Games[s] : Rate(s, g)
    BY <2>3 DEF Rate, Elsewhere
  <2>4. CASE ManualSync(s)
    BY <2>4 DEF ManualSync
  <2> QED
    BY <1>1, <2>1, <2>2, <2>3, <2>4
<1>3. faults \in Nat /\ owed \in [Obligations -> Nat] /\ owed[Evaluation] \in Nat
  BY EvaluationFact DEF EvaluationInvariant, Shape
<1>4. owed' \in [Obligations -> Nat] /\ owed'[Evaluation] <= owed[Evaluation]
  BY <1>2, <1>3, MetFact
<1> QED
  BY <1>2, <1>3, <1>4, OwesLess

LEMMA EvaluationNext ==
    BootstrapInvariant /\ EvaluationInvariant /\ [Next]_vars => EvaluationInvariant'
<1> SUFFICES ASSUME BootstrapInvariant, EvaluationInvariant, [Next]_vars
             PROVE  EvaluationInvariant'
  OBVIOUS
<1>1. Shape'
  BY BootstrapNext DEF BootstrapInvariant
<1>2. CASE Next
  BY <1>1, <1>2, ReadEvaluates, CalculateEvaluates, CalculationFailsEvaluates,
     OtherStepEvaluates, WorldEvaluates DEF Next
<1>3. CASE UNCHANGED vars
  BY <1>1, <1>3 DEF vars, EvaluationInvariant
<1> QED
  BY <1>2, <1>3

(* Whatever else is due, fails or is stored by another process, the        *)
(* evaluation of the fixtures in the cache is owed for one check at most,  *)
(* and one more for every fault.                                           *)
THEOREM EvaluationCorrect == Spec => []EvaluationPrompt
<1>1. EvaluationInvariant => EvaluationPrompt
  <2> SUFFICES ASSUME EvaluationInvariant, NEW o \in Obligations, o.kind = "evaluation"
               PROVE  owed[o] <= 1 + 0 + faults
    BY DEF EvaluationPrompt, Prompt
  <2>1. o = Evaluation
    BY DEF Obligations, Sweeps, Evaluation
  <2>2. owed[Evaluation] \in Nat /\ faults \in Nat /\ owed[Evaluation] <= faults + 1
    BY EvaluationFact DEF EvaluationInvariant, Shape
  <2> QED
    BY <2>1, <2>2
<1> QED
  BY BootstrapInit, BootstrapNext, EvaluationInit, EvaluationNext, <1>1, PTL DEF Spec
=============================================================================
