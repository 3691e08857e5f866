---------------------------- MODULE SourceScopes ----------------------------
(***************************************************************************)
(* The registry of source scopes (src/internal/cache/source_scopes.go):    *)
(* which season stages the planner looks at, and whether each is upcoming, *)
(* active or completed.  It is seeded from the public catalog, the         *)
(* configuration and the calendar year each time a process starts (server  *)
(* or cmd/sync), in one transaction, before anything else runs; nothing    *)
(* moves a scope between two starts, so a server that runs across New Year *)
(* keeps last year's lifecycles.  A season that is not a four-digit year   *)
(* is the year 0 here.                                                     *)
(***************************************************************************)
EXTENDS Integers, FiniteSets

CONSTANTS
    Catalog,       \* public source-backed entries: scopes
    Configurable,  \* scopes NWSL_SYNC_SEASON and NWSL_SYNC_STAGE may name
    Observable,    \* scopes an old cache may hold when the registry is created
    Years          \* years the clock may show when a process starts

VARIABLES
    scopes,    \* source_scopes table: row per registered scope
    seeded     \* the year and the scopes of the last seeding

scopeVars == <<scopes, seeded>>

RegularSeason == "Regular Season"
Scope(season, stage) == [season |-> season, stage |-> stage]

ASSUME ScopesAssumption ==
    /\ Years \subseteq Nat \ {0}
    /\ \A id \in Catalog \cup Configurable \cup Observable : id.season \in Nat

Precedence(registration) ==
    CASE registration = "catalog"     -> 4
      [] registration = "configured"  -> 3
      [] registration = "provisional" -> 2
      [] registration = "observed"    -> 1

Progress(lifecycle) ==
    CASE lifecycle = "upcoming" -> 0 [] lifecycle = "active" -> 1 [] OTHER -> 2

Past(id, now)   == id.season # 0 /\ id.season < now
Future(id, now) == id.season > now

-----------------------------------------------------------------------------
(* The seeds of a start, each with the strongest reason it is there for.   *)
Provisional(now) == {Scope(now, RegularSeason), Scope(now + 1, RegularSeason)}

Seeds(configured, now) ==
    [id \in Catalog \cup {configured} \cup Provisional(now) |->
        IF id \in Catalog THEN "catalog"
        ELSE IF id = configured THEN "configured" ELSE "provisional"]

SeedLifecycle(id, now) ==
    IF Future(id, now) THEN "upcoming"
    ELSE IF Past(id, now) THEN "completed" ELSE "active"

Stronger(a, b) == IF Precedence(b) > Precedence(a) THEN b ELSE a

(* mergeSourceScope: a lifecycle only moves forward, whatever the clock.   *)
Merged(row, id, registration, now) ==
    [registration |-> Stronger(row.registration, registration),
     lifecycle    |-> IF Past(id, now) THEN "completed"
                      ELSE IF row.lifecycle = "upcoming" /\ ~Future(id, now) THEN "active"
                      ELSE row.lifecycle]

MergedByYear(row, id, registration, now) ==   \* slip: the year alone decides
    [registration |-> Stronger(row.registration, registration),
     lifecycle    |-> SeedLifecycle(id, now)]

MergedRow(row, id, registration, now) == Merged(row, id, registration, now)

(* A scope that is no seed any more is promoted only out of upcoming: one  *)
(* that was active when its year ended stays active.                       *)
Promoted(row, id, now) ==
    IF row.lifecycle = "upcoming" /\ id.season # 0 /\ id.season <= now
    THEN [row EXCEPT !.lifecycle = IF id.season < now THEN "completed" ELSE "active"]
    ELSE row

PromotedNever(row, id, now) == row      \* slip: only the seeds are looked at

Retained(row, id, now) == Promoted(row, id, now)

EnsureSourceScopes(configured, now) ==
    LET seeds == Seeds(configured, now)
        Row(id) == IF id \notin DOMAIN seeds THEN Retained(scopes[id], id, now)
                   ELSE IF id \in DOMAIN scopes
                   THEN MergedRow(scopes[id], id, seeds[id], now)
                   ELSE [registration |-> seeds[id], lifecycle |-> SeedLifecycle(id, now)] IN
    /\ scopes' = [id \in DOMAIN scopes \cup DOMAIN seeds |-> Row(id)]
    /\ seeded' = [year |-> now, seeds |-> DOMAIN seeds]

(* The migration that creates the table registers what the cache holds.    *)
ScopesInit ==
    /\ \E held \in SUBSET Observable :
          scopes = [id \in held |-> [registration |-> "observed", lifecycle |-> "active"]]
    /\ seeded = [year |-> 0, seeds |-> {}]

ScopesNext ==
    \E configured \in Configurable, now \in Years : EnsureSourceScopes(configured, now)

ScopesSpec == ScopesInit /\ [][ScopesNext]_scopeVars

-----------------------------------------------------------------------------
(* After a start every scope the planner will treat as upcoming is one of  *)
(* a later year, every seeded scope of an earlier year is completed, and   *)
(* no seeded scope of this year or of no year waits as upcoming: a stage   *)
(* stuck in the wrong lifecycle would be polled for ever or never again    *)
(* (EnsureSourceScopes, promoteRetainedUpcomingSourceScopes).              *)
RegistryFollowsYear ==
    seeded.year > 0 =>
       /\ seeded.seeds \subseteq DOMAIN scopes
       /\ \A id \in DOMAIN scopes :
             /\ scopes[id].lifecycle = "upcoming" => Future(id, seeded.year)
             /\ id \in seeded.seeds /\ Past(id, seeded.year) =>
                   scopes[id].lifecycle = "completed"

(* No start undoes an earlier one, not even under a clock set back: a      *)
(* scope is never forgotten, never reopened, and never loses the reason it *)
(* was registered for (mergeSourceScope).                                  *)
RegistryNeverUndone ==
    [][\A id \in DOMAIN scopes :
          /\ id \in DOMAIN scopes'
          /\ Progress(scopes'[id].lifecycle) >= Progress(scopes[id].lifecycle)
          /\ Precedence(scopes'[id].registration) >= Precedence(scopes[id].registration)
      ]_scopeVars
=============================================================================
