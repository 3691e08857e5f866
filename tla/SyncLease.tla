----------------------------- MODULE SyncLease -----------------------------
(***************************************************************************)
(* The cross-process leases that serialise the writers of one cache file:  *)
(* the scheduler of a server or of a maintenance sweep, which runs one     *)
(* source job at a time (executeJob), and cmd/sync, which runs a whole     *)
(* compatibility sync (Service.Run).  A lease is a row of sync_leases; it  *)
(* is taken when absent or expired, and released by its holder only.       *)
(*                                                                         *)
(* A writer is never told that its lease has run out.  What stops it is    *)
(* the deadline of its own context, because no transaction commits after   *)
(* it: the code is right as long as a lease outlasts that deadline.        *)
(*                                                                         *)
(* Time is one clock for all processes: s.now, time.Now and the context    *)
(* timers are the same machine's.                                          *)
(***************************************************************************)
EXTENDS Integers

CONSTANTS
    Schedulers,  \* processes that run source jobs
    Manuals,     \* processes that run Service.Run
    Scopes,      \* season stages
    ColdKey,     \* coldSweepLeaseKey
    Timeout,     \* config.Timeout of every request
    Grace,       \* the lease of a run whose deadline is already over
    MaxClock,    \* bound on the clock
    Absent       \* no row, no job

VARIABLES
    clock,
    lease,       \* sync_leases, by lock_key
    job,         \* what each process is doing
    stored       \* finish time of the last write to each stage

vars == <<clock, lease, job, stored>>

Workers == Schedulers \cup Manuals
Keys    == Scopes \cup {ColdKey}
Never   == 0

(* A job: its place in the code, its class, its stage, the deadline of its *)
(* context, the time its leases count from, and the FinishedAt of the      *)
(* response it is about to write.                                          *)
Job == [at       : {"begun", "cold", "scope", "held", "write", "release", "releaseCold"},
        class    : {"hot", "cold", "run"},
        scope    : Scopes,
        deadline : Nat,
        stamp    : Nat,
        finish   : Nat]

Holders  == ({"scheduler"} \cup Manuals) \X Nat
LeaseRow == [holder : Holders, expires : Nat]

ASSUME LeaseAssumption ==
    /\ Schedulers \cap Manuals = {} /\ "scheduler" \notin Manuals
    /\ ColdKey \notin Scopes
    /\ Timeout \in Nat \ {0} /\ Grace \in Nat \ {0} /\ MaxClock \in Nat
    /\ Absent \notin LeaseRow /\ Absent \notin Job

-----------------------------------------------------------------------------
(* "scheduler-<nano>" names no process; "<pid>-<nano>" does.               *)
HolderOf(w) == <<IF w \in Manuals THEN w ELSE "scheduler", job[w].stamp>>

ExpiryOf(w) ==
    IF w \in Schedulers THEN job[w].stamp + Timeout
    ELSE IF job[w].deadline > job[w].stamp THEN job[w].deadline
    ELSE job[w].stamp + Grace

RowOf(w) == [holder |-> HolderOf(w), expires |-> ExpiryOf(w)]

(* The WHERE clause of the upsert in TryAcquireSyncLease.                  *)
LeaseFree(k) == lease[k] # Absent => lease[k].expires <= clock

(* The context of w has not run out: without this no transaction commits.  *)
AlwaysAlive(w) == TRUE                   \* slip: the write does not use the job's context

Alive(w) == clock < job[w].deadline

(* ReleaseSyncLease: only a row of this holder.                            *)
ReleasedUnchecked(w, k) == [lease EXCEPT ![k] = Absent]      \* slip: AND holder = ?

Released(w, k) ==
    IF lease[k] # Absent /\ lease[k].holder = HolderOf(w)
    THEN [lease EXCEPT ![k] = Absent]
    ELSE lease

First(c) == IF c = "cold" THEN "cold" ELSE "scope"

Go(w, place) == job' = [job EXCEPT ![w].at = place]
Stop(w) == job' = [job EXCEPT ![w] = Absent]

(* After the stage's lease: a cold job still has the global one.           *)
Leave(w) == IF job[w].class = "cold" THEN Go(w, "releaseCold") ELSE Stop(w)

At(w, place) == job[w] # Absent /\ job[w].at = place

-----------------------------------------------------------------------------
Init ==
    /\ clock = 0
    /\ lease = [k \in Keys |-> Absent]
    /\ job = [w \in Workers |-> Absent]
    /\ stored = [s \in Scopes |-> Never]

(* The request context is created first, with the whole timeout.           *)
Begin(w, c, s) ==
    /\ job[w] = Absent
    /\ c = "run" <=> w \in Manuals
    /\ job' = [job EXCEPT ![w] = [at |-> "begun", class |-> c, scope |-> s,
                                  deadline |-> clock + Timeout,
                                  stamp |-> Never, finish |-> Never]]
    /\ UNCHANGED <<clock, lease, stored>>

(* ... and the time the lease counts from is read later.                   *)
ReadClock(w) ==
    /\ At(w, "begun")
    /\ job' = [job EXCEPT ![w].stamp = clock, ![w].at = First(job[w].class)]
    /\ UNCHANGED <<clock, lease, stored>>

(* TryAcquireSyncLease: taken, or deferred, or failed for want of time.    *)
Take(w, k) ==
    /\ Alive(w)
    /\ LeaseFree(k)
    /\ lease' = [lease EXCEPT ![k] = RowOf(w)]
    /\ UNCHANGED <<clock, stored>>

Refuse(w, k) ==
    /\ Alive(w) => ~LeaseFree(k)
    /\ UNCHANGED <<clock, lease, stored>>

TakeCold(w)    == At(w, "cold") /\ Take(w, ColdKey) /\ Go(w, "scope")
RefuseCold(w)  == At(w, "cold") /\ Refuse(w, ColdKey) /\ Stop(w)
TakeScope(w)   == At(w, "scope") /\ Take(w, job[w].scope) /\ Go(w, "held")
RefuseScope(w) == At(w, "scope") /\ Refuse(w, job[w].scope) /\ Leave(w)

(* A valid response is in memory; FinishedAt is read before the write, and *)
(* kept when the write is retried after a team recovery.                   *)
Receive(w) ==
    /\ At(w, "held")
    /\ job' = [job EXCEPT ![w].finish = clock, ![w].at = "write"]
    /\ UNCHANGED <<clock, lease, stored>>

(* The write commits; a run then goes on to its next operation.            *)
Commit(w) ==
    /\ At(w, "write")
    /\ Alive(w)
    /\ stored' = [stored EXCEPT ![job[w].scope] = job[w].finish]
    /\ job' = [job EXCEPT ![w].finish = Never,
                          ![w].at = IF w \in Manuals THEN "held" ELSE "release"]
    /\ UNCHANGED <<clock, lease>>

(* The request or the write fails; or a run has no operation left, and its *)
(* derived calculations, which write no source table, are over.            *)
GiveUp(w) ==
    /\ At(w, "held") \/ At(w, "write")
    /\ job' = [job EXCEPT ![w].finish = Never, ![w].at = "release"]
    /\ UNCHANGED <<clock, lease, stored>>

(* The deferred releases have five seconds of their own and may fail.      *)
ReleaseScope(w) ==
    /\ At(w, "release")
    /\ lease' \in {lease, Released(w, job[w].scope)}
    /\ Leave(w)
    /\ UNCHANGED <<clock, stored>>

ReleaseCold(w) ==
    /\ At(w, "releaseCold")
    /\ lease' \in {lease, Released(w, ColdKey)}
    /\ Stop(w)
    /\ UNCHANGED <<clock, stored>>

(* The process dies without releasing anything.                            *)
Crash(w) ==
    /\ job[w] # Absent
    /\ Stop(w)
    /\ UNCHANGED <<clock, lease, stored>>

(* deleteExpiredSyncLeases, in the history prune of any process.           *)
Prune ==
    /\ lease' = [k \in Keys |-> IF LeaseFree(k) THEN Absent ELSE lease[k]]
    /\ UNCHANGED <<clock, job, stored>>

Tick ==
    /\ clock < MaxClock
    /\ clock' = clock + 1
    /\ UNCHANGED <<lease, job, stored>>

Step(w) ==
    \/ \E c \in {"hot", "cold", "run"}, s \in Scopes : Begin(w, c, s)
    \/ ReadClock(w)
    \/ TakeCold(w) \/ RefuseCold(w)
    \/ TakeScope(w) \/ RefuseScope(w)
    \/ Receive(w) \/ Commit(w) \/ GiveUp(w)
    \/ ReleaseScope(w) \/ ReleaseCold(w)
    \/ Crash(w)

Next == (\E w \in Workers : Step(w)) \/ Prune \/ Tick

Spec == Init /\ [][Next]_vars

-----------------------------------------------------------------------------
(* Rows and jobs are well formed; only schedulers run jobs, only manual    *)
(* processes run runs, and only cold jobs visit the global lease.          *)
TypeOK ==
    /\ clock \in Nat
    /\ lease \in [Keys -> LeaseRow \cup {Absent}]
    /\ job \in [Workers -> Job \cup {Absent}]
    /\ stored \in [Scopes -> Nat]
    /\ \A w \in Workers : job[w] # Absent =>
          /\ job[w].class = "run" <=> w \in Manuals
          /\ job[w].at \in {"cold", "releaseCold"} => job[w].class = "cold"

(* w has taken key k and not yet given it back.                            *)
Has(w, k) ==
    /\ job[w] # Absent
    /\ \/ k = job[w].scope /\ job[w].at \in {"held", "write", "release"}
       \/ /\ k = ColdKey /\ job[w].class = "cold"
          /\ job[w].at \in {"scope", "held", "write", "release", "releaseCold"}

(* w may still change the source tables of its stage.                      *)
MayWrite(w) == (At(w, "held") \/ At(w, "write")) /\ Alive(w)

(* Two processes never both may write one stage, and at most one archived  *)
(* request is in flight on the whole cache: not after an expiry, a crash,  *)
(* a failed or late release, nor with holders that read the same.          *)
WritersExclude ==
    \A v, w \in Workers :
       v # w /\ MayWrite(v) /\ MayWrite(w) =>
          /\ job[v].scope # job[w].scope
          /\ ~(job[v].class = "cold" /\ job[w].class = "cold")

(* A process that may write still owns the row of its stage, and the row   *)
(* outlasts its context.                                                   *)
WriterHasLease ==
    \A w \in Workers :
       MayWrite(w) =>
          /\ lease[job[w].scope] # Absent
          /\ lease[job[w].scope].holder = HolderOf(w)
          /\ lease[job[w].scope].expires >= job[w].deadline

(* The writes of a stage commit in the order of their finish times: what   *)
(* SourceCache assumes as InOrder.                                         *)
CommitsInOrder ==
    [][\A s \in Scopes : stored[s] <= stored'[s]]_vars

(* A lease that has not expired leaves its key only when a process that    *)
(* has it gives it back.                                                   *)
LiveLeaseKept ==
    [][\A k \in Keys :
          ~LeaseFree(k) /\ lease'[k] # lease[k] =>
             \E w \in Workers :
                Has(w, k) /\ HolderOf(w) = lease[k].holder /\ ~Has(w, k)']_vars
=============================================================================
