--------------------------- MODULE DerivedBatches ---------------------------
(***************************************************************************)
(* The calculations derived from one season stage: qualification batches   *)
(* and the scenario batches proved against them.  A refresh works outside  *)
(* the leases and outside any transaction; it looks up, calculates for     *)
(* seconds, and publishes.  Within a process refreshCalculations holds a   *)
(* mutex; other processes (cmd/sync beside the server) share only the      *)
(* database.  PruneHistory deletes old runs meanwhile.                     *)
(*                                                                         *)
(* A batch is identified by the fixtures it was calculated from (and by    *)
(* the rules version, one constant of the build).                          *)
(***************************************************************************)
EXTENDS Integers, FiniteSets

CONSTANTS
    Callers,       \* whoever runs refreshCalculations
    Scheduled,     \* those of them that a scheduler runs, at every check
    Host,          \* the process of each caller
    Snapshots,     \* contents the fixtures may have: fixture snapshot IDs
    LateSnapshots, \* those with a rest-of-season slate
    MaxClock,      \* bound on the clock
    MaxWrites,     \* bound on the source publications
    MaxTroubles,   \* bound on forced, limited, failed and abandoned refreshes
    Absent

VARIABLES
    clock,
    fixtures,  \* the games table
    syncs,     \* successful sync_runs
    quals,     \* qualification_runs
    scens,     \* scenario_runs
    seq,       \* sqlite_sequence: the last id each table has given out
    job,       \* the refresh each caller is in
    writes, troubles  \* counters of the bounds

rows == <<syncs, quals, scens, seq>>
vars == <<clock, fixtures, rows, job, writes, troubles>>

Kinds == {"next", "season"}      \* DefinitionVersion, SeasonDefinitionVersion
Applies(kind, s) == kind = "next" \/ s \in LateSnapshots

SyncRow == [id : Nat, at : Nat, snap : Snapshots]
QualRow == [id : Nat, at : Nat, snap : Snapshots, sync : Nat, complete : BOOLEAN,
            full : BOOLEAN, from : Snapshots]
ScenRow == [id : Nat, at : Nat, snap : Snapshots, sync : Nat, complete : BOOLEAN,
            full : BOOLEAN, from : Snapshots, kind : Kinds, qual : Nat]

(* A refresh: its place in the code, the run it was given (id and snapshot) *)
(* and the fixtures it was given with it, and what it has found so far.    *)
Job == [at     : {"read", "waiting", "prove", "publish", "scenario",
                  "baseline", "search"},
        sync   : Nat, snap : Snapshots, from : Snapshots,
        force  : BOOLEAN, kind : Kinds, qual : Nat,
        finish : Nat]

ASSUME DerivedAssumption ==
    /\ LateSnapshots \subseteq Snapshots
    /\ Scheduled \subseteq Callers
    /\ Callers \subseteq DOMAIN Host
    /\ {MaxClock, MaxWrites, MaxTroubles} \subseteq Nat
    /\ Absent \notin SyncRow \cup QualRow \cup ScenRow \cup Job

-----------------------------------------------------------------------------
(* The latest row of a set: by finish second, then by id.                  *)
Newer(a, b) == a.at > b.at \/ (a.at = b.at /\ a.id > b.id)

LatestOf(set) ==
    IF set = {} THEN Absent ELSE CHOOSE r \in set : \A o \in set \ {r} : Newer(r, o)

(* AUTOINCREMENT: an id never comes back, not even a pruned row's.          *)
NextId(table) == 1 + seq[table]

Number(table) == seq' = [seq EXCEPT ![table] = NextId(table)]

LastSuccess == LatestOf(syncs)

QualificationFor(s) == LatestOf({q \in quals : q.snap = s /\ q.complete})

(* Only a batch proved against the latest qualification is current.        *)
ScenarioFor(s, kind) ==
    LatestOf({x \in scens :
        /\ x.snap = s /\ x.kind = kind /\ x.complete
        /\ QualificationFor(s) # Absent
        /\ x.qual = QualificationFor(s).id})

Full(batch) == batch # Absent /\ batch.full

(* Does a refresh leave the stored batch alone?                            *)
Current(batch, force) == Full(batch) /\ ~force

At(c, place) == job[c] # Absent /\ job[c].at = place
Inside(c)    == job[c] # Absent /\ job[c].at \notin {"read", "waiting"}

Go(c, place) == job' = [job EXCEPT ![c].at = place]
Stop(c)      == job' = [job EXCEPT ![c] = Absent]

Trouble   == troubles < MaxTroubles /\ troubles' = troubles + 1
NoTrouble == UNCHANGED troubles

-----------------------------------------------------------------------------
Init ==
    /\ clock = 1
    /\ fixtures \in Snapshots
    /\ syncs = {} /\ quals = {} /\ scens = {}
    /\ seq = [table \in {"syncs", "quals", "scens"} |-> 0]
    /\ job = [c \in Callers |-> Absent]
    /\ writes = 0 /\ troubles = 0

(* A source operation replaces the fixtures and records the run, in one    *)
(* transaction (SourceCache).                                              *)
SourceWrite(s) ==
    /\ writes < MaxWrites
    /\ writes' = writes + 1
    /\ fixtures' = s
    /\ syncs' = syncs \cup {[id |-> NextId("syncs"), at |-> clock, snap |-> s]}
    /\ Number("syncs")
    /\ UNCHANGED <<clock, quals, scens>>

SourceJob(s) == SourceWrite(s) /\ UNCHANGED <<job, troubles>>

Refresh(place, sync, s, from, force) ==
    [at |-> place, sync |-> sync, snap |-> s, from |-> from, force |-> force,
     kind |-> "next", qual |-> 0, finish |-> 0]

ForceBounded(force) == IF force THEN Trouble ELSE NoTrouble

(* Service.Run goes on with the run and the fixtures of its transaction.   *)
Run(c, s, force) ==
    /\ job[c] = Absent
    /\ SourceWrite(s)
    /\ ForceBounded(force)
    /\ job' = [job EXCEPT ![c] = Refresh("waiting", NextId("syncs"), s, s, force)]

(* Recalculate: ClinchingInputs reads the run and then the fixtures, with  *)
(* no transaction around the two.                                          *)
Recalculate(c, force) ==
    /\ job[c] = Absent
    /\ LastSuccess # Absent
    /\ ForceBounded(force)
    /\ job' = [job EXCEPT ![c] = Refresh("read", LastSuccess.id, LastSuccess.snap,
                                         LastSuccess.snap, force)]
    /\ UNCHANGED <<clock, fixtures, rows, writes>>

ReadGamesUnchecked(c) ==         \* slip: the snapshot of the fixtures is not compared
    /\ At(c, "read")
    /\ job' = [job EXCEPT ![c].at = "waiting", ![c].from = fixtures]
    /\ UNCHANGED <<clock, fixtures, rows, writes, troubles>>

ReadGames(c) ==
    /\ At(c, "read")
    /\ IF fixtures = job[c].snap
       THEN job' = [job EXCEPT ![c].at = "waiting", ![c].from = fixtures]
       ELSE Stop(c)
    /\ UNCHANGED <<clock, fixtures, rows, writes, troubles>>

-----------------------------------------------------------------------------
(* calculationMu, then qualification.Refresher.Refresh, whose lookup comes *)
(* first.                                                                  *)
Qualify(c) ==
    /\ At(c, "waiting")
    /\ Go(c, IF Current(QualificationFor(job[c].snap), job[c].force)
             THEN "scenario" ELSE "prove")
    /\ UNCHANGED <<clock, fixtures, rows, writes, troubles>>

LockIgnored(c) == Qualify(c)             \* slip: no mutex

LockAndQualify(c) ==
    /\ \A d \in Callers : Host[d] = Host[c] => ~Inside(d)
    /\ Qualify(c)

(* A calculation ends in full, or limited by its budget.                   *)
Limited(full) == IF full THEN NoTrouble ELSE Trouble

Exists(set, id) == \E r \in set : r.id = id

QualRun(c, complete, full) ==
    [id |-> NextId("quals"), at |-> IF complete THEN job[c].finish ELSE clock,
     snap |-> job[c].snap, sync |-> job[c].sync, complete |-> complete,
     full |-> full, from |-> job[c].from]

(* The calculation is over and ReplaceQualification has read its finish    *)
(* time; the write lock may still be another process's.                    *)
Prove(c) ==
    /\ At(c, "prove")
    /\ job' = [job EXCEPT ![c].at = "publish", ![c].finish = clock]
    /\ UNCHANGED <<clock, fixtures, rows, writes, troubles>>

(* The calculation or the storing of its batch fails;                      *)
(* RecordQualificationFailure's own error is dropped.                      *)
ProveFails(c) ==
    /\ At(c, "prove") \/ At(c, "publish")
    /\ Trouble
    /\ Stop(c)
    /\ IF Exists(syncs, job[c].sync)
       THEN quals' = quals \cup {QualRun(c, FALSE, FALSE)} /\ Number("quals")
       ELSE UNCHANGED <<quals, seq>>
    /\ UNCHANGED <<clock, fixtures, syncs, scens, writes>>

(* The source run is a foreign key; when it is gone, so is the failure row. *)
Publish(c, full) ==
    /\ At(c, "publish")
    /\ Limited(full)
    /\ IF Exists(syncs, job[c].sync)
       THEN quals' = quals \cup {QualRun(c, TRUE, full)} /\ Number("quals") /\ Go(c, "scenario")
       ELSE Stop(c) /\ UNCHANGED <<quals, seq>>
    /\ UNCHANGED <<clock, fixtures, syncs, scens, writes>>

-----------------------------------------------------------------------------
(* scenariorefresh.Refresher.Refresh: the next slate, then the season.     *)

NextKind(c) ==
    IF job[c].kind = "next" /\ job[c].from \in LateSnapshots
    THEN job' = [job EXCEPT ![c].at = "scenario", ![c].kind = "season"]
    ELSE Stop(c)

LookupAnyScenario(c) ==          \* slip: any qualification's batch will do
    /\ At(c, "scenario")
    /\ IF /\ ~job[c].force
          /\ \E x \in scens : x.snap = job[c].snap /\ x.kind = job[c].kind /\ x.full
       THEN NextKind(c)
       ELSE Go(c, "baseline")
    /\ UNCHANGED <<clock, fixtures, rows, writes, troubles>>

LookupScenario(c) ==
    /\ At(c, "scenario")
    /\ IF Current(ScenarioFor(job[c].snap, job[c].kind), job[c].force)
       THEN NextKind(c)
       ELSE Go(c, "baseline")
    /\ UNCHANGED <<clock, fixtures, rows, writes, troubles>>

ReadBaseline(c) ==
    /\ At(c, "baseline")
    /\ IF QualificationFor(job[c].snap) = Absent
       THEN Stop(c)
       ELSE job' = [job EXCEPT ![c].at = "search",
                               ![c].qual = QualificationFor(job[c].snap).id]
    /\ UNCHANGED <<clock, fixtures, rows, writes, troubles>>

ScenRun(c, complete, full) ==
    [id |-> NextId("scens"), at |-> clock,
     snap |-> job[c].snap, sync |-> job[c].sync, complete |-> complete,
     full |-> full, from |-> job[c].from, kind |-> job[c].kind, qual |-> job[c].qual]

SearchFails(c) ==
    /\ At(c, "search")
    /\ Trouble
    /\ Stop(c)
    /\ IF Exists(syncs, job[c].sync) /\ Exists(quals, job[c].qual)
       THEN scens' = scens \cup {ScenRun(c, FALSE, FALSE)} /\ Number("scens")
       ELSE UNCHANGED <<scens, seq>>
    /\ UNCHANGED <<clock, fixtures, syncs, quals, writes>>

(* The baseline must still be a complete run for these fixtures.  That is  *)
(* read first, so a commit of another process between it and the rows      *)
(* fails the transaction, and finish times follow the commits.             *)
PublishScenario(c, full) ==
    /\ At(c, "search")
    /\ Limited(full)
    /\ IF /\ \E q \in quals : q.id = job[c].qual /\ q.complete /\ q.snap = job[c].snap
          /\ Exists(syncs, job[c].sync)
       THEN scens' = scens \cup {ScenRun(c, TRUE, full)} /\ Number("scens") /\ NextKind(c)
       ELSE Stop(c) /\ UNCHANGED <<scens, seq>>
    /\ UNCHANGED <<clock, fixtures, syncs, quals, writes>>

-----------------------------------------------------------------------------
(* A refresh ends without a trace: its input read or a lookup fails, the   *)
(* server shuts down (a cancelled calculation publishes nothing), or the   *)
(* process dies.                                                           *)
Abandon(c) ==
    /\ job[c] # Absent
    /\ Stop(c)
    /\ UNCHANGED <<clock, fixtures, rows, writes, troubles>>

(* PruneHistory: scenarios first, then what nothing left depends on.       *)
Obsolete(set, before, key) ==
    LET superseders(r) == {n \in set : Newer(n, r) /\ \A field \in key : n[field] = r[field]} IN
    {r \in set :
       /\ r.at < before
       /\ superseders(r) # {}
       /\ r.complete => \E n \in superseders(r) : n.complete}

ScenarioKey      == {"snap", "kind"}
QualificationKey == {"snap"}

PruneCascade(before) ==          \* slip: what remains may still need the deleted
    /\ scens' = scens \ Obsolete(scens, before, ScenarioKey)
    /\ quals' = quals \ Obsolete(quals, before, QualificationKey)
    /\ syncs' = {r \in syncs : r.at < before => r = LastSuccess}
    /\ UNCHANGED <<clock, fixtures, seq, job, writes, troubles>>

PruneLatestAttempt(before) ==    \* slip: the latest complete run is not kept
    /\ scens' = scens \ Obsolete(scens, before, ScenarioKey)
    /\ quals' = {q \in quals :
          q.at < before /\ (\E n \in quals : n.snap = q.snap /\ Newer(n, q))
             => \E x \in scens' : x.qual = q.id}
    /\ UNCHANGED <<clock, fixtures, syncs, seq, job, writes, troubles>>

Prune(before) ==
    /\ scens' = scens \ Obsolete(scens, before, ScenarioKey)
    /\ quals' = quals \ {q \in Obsolete(quals, before, QualificationKey) :
                            \A x \in scens' : x.qual # q.id}
    /\ syncs' = syncs \ {r \in syncs :
          /\ r.at < before /\ r # LastSuccess
          /\ \A d \in quals' \cup scens' : d.sync # r.id}
    /\ UNCHANGED <<clock, fixtures, seq, job, writes, troubles>>

Tick ==
    /\ clock < MaxClock
    /\ clock' = clock + 1
    /\ UNCHANGED <<fixtures, rows, job, writes, troubles>>

Advance(c) ==
    \/ ReadGames(c)
    \/ LockAndQualify(c) \/ Prove(c) \/ Publish(c, TRUE)
    \/ LookupScenario(c) \/ ReadBaseline(c) \/ PublishScenario(c, TRUE)

Step(c) ==
    \/ \E s \in Snapshots, force \in BOOLEAN : Run(c, s, force)
    \/ \E force \in BOOLEAN : Recalculate(c, force)
    \/ Advance(c)
    \/ Publish(c, FALSE) \/ PublishScenario(c, FALSE)
    \/ ProveFails(c) \/ SearchFails(c) \/ Abandon(c)

Next ==
    \/ \E c \in Callers : Step(c)
    \/ \E s \in Snapshots : SourceJob(s)
    \/ \E before \in 2 .. clock + 1 : Prune(before)
    \/ Tick

Spec == Init /\ [][Next]_vars

(* The scheduler recalculates at every check, before any source request    *)
(* and whatever becomes of those; and a refresh that has begun goes on:    *)
(* its calculations are bounded by their budgets.                          *)
Fairness ==
    /\ \A c \in Scheduled : WF_vars(Recalculate(c, FALSE) \/ Advance(c))
    /\ \A c \in Callers \ Scheduled : WF_vars(Advance(c))

FairSpec == Spec /\ Fairness

-----------------------------------------------------------------------------
Keyed(set) == \A a, b \in set : a.id = b.id => a = b

(* Rows and refreshes are well formed, and ids are keys, also after rows   *)
(* have been pruned.                                                       *)
TypeOK ==
    /\ Keyed(syncs) /\ Keyed(quals) /\ Keyed(scens)
    /\ clock \in Nat
    /\ fixtures \in Snapshots
    /\ seq \in [{"syncs", "quals", "scens"} -> Nat]
    /\ syncs \subseteq SyncRow /\ quals \subseteq QualRow /\ scens \subseteq ScenRow
    /\ job \in [Callers -> Job \cup {Absent}]
    /\ {writes, troubles} \subseteq Nat

(* Every batch was calculated from the fixtures its identity names, even   *)
(* when a source operation commits between the two reads of its inputs.    *)
BatchFromItsSnapshot == \A b \in quals \cup scens : b.from = b.snap

(* No pruning, whenever it runs, cuts lineage: each batch keeps its source *)
(* run, and each scenario batch the qualification run it was proved        *)
(* against, for the same fixtures.                                         *)
LineageIntact ==
    /\ \A b \in quals \cup scens : Exists(syncs, b.sync)
    /\ \A x \in scens : \E q \in quals : q.id = x.qual /\ q.complete /\ q.snap = x.snap

(* A scenario refresh that gets to its baseline finds one: pruning never   *)
(* takes the qualification away between the two passes.                    *)
BaselineThere ==
    \A c \in Callers : At(c, "baseline") => QualificationFor(job[c].snap) # Absent

(* Pruning cuts neither what is stored nor what a refresh is about to use.  *)
PruneSafe == LineageIntact /\ BaselineThere

(* Pruning changes neither the last success nor the qualification that     *)
(* readers of any snapshot are given.                                      *)
PruneKeepsAnswers ==
    [][(\E before \in 2 .. clock + 1 : Prune(before)) =>
          /\ LastSuccess' = LastSuccess
          /\ \A s \in Snapshots : QualificationFor(s)' = QualificationFor(s)]_vars

OneProcess == \A c, d \in Callers : Host[c] = Host[d]

(* Within one process a published batch is at once the one readers are     *)
(* given, so no scenario batch is born stale.                              *)
PublishedIsServed ==
    [][OneProcess =>
          /\ \A q \in quals' \ quals : q.complete => QualificationFor(q.snap)' = q
          /\ \A x \in scens' \ scens : x.complete => ScenarioFor(x.snap, x.kind)' = x]_vars

(* Within one process, only a forced refresh replaces a full qualification *)
(* by one that ran out of budget.                                          *)
NeverDegraded ==
    [][OneProcess =>
          \A s \in Snapshots :
             Full(QualificationFor(s)) =>
                \/ Full(QualificationFor(s))'
                \/ \E c \in Callers : At(c, "publish") /\ job[c].snap = s /\ job[c].force]_vars

(* Whatever the processes did to each other's batches, once the fixtures   *)
(* stay put and refreshes end only where they should, readers are, from    *)
(* some time on, given full batches for them.                              *)
Served(s) ==
    /\ Full(QualificationFor(s))
    /\ \A kind \in Kinds : Applies(kind, s) => Full(ScenarioFor(s, kind))

EventuallyServed ==
    <>[][\A c \in Callers : Abandon(c) => Advance(c)]_vars => <>[](syncs # {} => Served(fixtures))

(* cache/prune.go: PruneHistory "removes superseded operational history":  *)
(* it never takes away the scenario batch readers are given.               *)
PruneKeepsScenarios ==
    [][(\E before \in 2 .. clock + 1 : Prune(before)) =>
          \A s \in Snapshots, kind \in Kinds :
             ScenarioFor(s, kind)' = ScenarioFor(s, kind)]_vars
=============================================================================
