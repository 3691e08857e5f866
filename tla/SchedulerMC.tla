---------------------------- MODULE SchedulerMC ----------------------------
(***************************************************************************)
(* A small instance of Scheduler: the current regular season, its playoffs *)
(* (two slots) and two archived stages, over two sweep intervals.          *)
(* The intervals keep the order of the defaults: check <= missing xG <     *)
(* playoff discovery <= corrections < the windows < inventory audit <      *)
(* archive sweep; a sweep interval is just longer than the four requests   *)
(* of a round of sweeps.                                                   *)
(***************************************************************************)
EXTENDS Scheduler

Entry(season, stage, rank, kind, lifecycle, primary, slots, expected) ==
    [season |-> season, stage |-> stage, rank |-> rank, offered |-> TRUE, kind |-> kind,
     lifecycle |-> lifecycle, primary |-> primary, slots |-> slots, order |-> rank,
     expected |-> expected]

Season26 == Entry(26, "Regular Season", 2, "league", "active", TRUE, 0, 1)
Playoffs26 == Entry(26, "Playoffs", 1, "knockout", "active", FALSE, 2, 0)
Season25 == Entry(25, "Regular Season", 2, "league", "completed", TRUE, 0, 1)
Playoffs24 == Entry(24, "Playoffs", 1, "knockout", "completed", FALSE, 1, 0)
StageCatalog == [L |-> Season26, P |-> Playoffs26, H |-> Season25, G |-> Playoffs24]

StageGames == [L |-> {"l1"}, P |-> {"p1", "p2"}, H |-> {"h1"}, G |-> {"g1"}]
Kickoffs == [l1 |-> 0, p1 |-> 2, p2 |-> 3, h1 |-> 0, g1 |-> 0]

Ahead(games) == [games |-> [g \in games |-> Announced(g)], xg |-> {}]
Final == [status |-> "full", scored |-> TRUE, value |-> 1, kickoff |-> 0]
Past(games) == [games |-> [g \in games |-> Final], xg |-> games]

SourceAtStart == [L |-> Ahead({"l1"}), P |-> Ahead({"p1"}), H |-> Past({"h1"}), G |-> Past({"g1"})]

Defaults == [budget |-> 3, check |-> 1, grace |-> 1, missingXG |-> 1, playoff |-> 2,
             correction |-> 2, xgCorrection |-> 2, gameWindow |-> 3, missingWindow |-> 3,
             xgWindow |-> 3, inventory |-> 4, cold |-> 5]

Finals == {[status |-> "full", scored |-> TRUE, value |-> v] : v \in {1, 2}}
          \cup {[status |-> "abandoned", scored |-> FALSE, value |-> 0]}
=============================================================================
