--------------------------- MODULE SyncLeaseProofs ---------------------------
(***************************************************************************)
(* Theorems about SyncLease for any number of processes and stages, any    *)
(* timeout and an unbounded clock.                                         *)
(*                                                                         *)
(* The argument: as long as the expiry a process computed for itself lies  *)
(* ahead, the row of every key it has is its own (Backed) and no other     *)
(* process with such an expiry has that key (Alone).  A context ends no    *)
(* later than that expiry (Timing), so a process whose transactions still  *)
(* commit is alone on its stage, and no write of the stage came between    *)
(* its FinishedAt and its own write (Ordered).                             *)
(***************************************************************************)
EXTENDS SyncLease, TLAPS

Timing ==
    \A w \in Workers : job[w] # Absent =>
       /\ job[w].stamp <= clock
       /\ job[w].finish <= clock
       /\ job[w].deadline <= clock + Timeout
       /\ job[w].at # "begun" => job[w].deadline <= job[w].stamp + Timeout

Backed ==
    \A w \in Workers, k \in Keys :
       Has(w, k) /\ clock < ExpiryOf(w) => lease[k] = RowOf(w)

Alone ==
    \A v, w \in Workers, k \in Keys :
       v # w /\ Has(v, k) /\ Has(w, k) => ~(clock < ExpiryOf(v) /\ clock < ExpiryOf(w))

Ordered ==
    /\ \A s \in Scopes : stored[s] <= clock
    /\ \A w \in Workers :
          At(w, "write") /\ clock < ExpiryOf(w) => stored[job[w].scope] <= job[w].finish

-----------------------------------------------------------------------------
LEMMA Facts ==
    /\ Timeout \in Nat \ {0} /\ Grace \in Nat \ {0} /\ MaxClock \in Nat
    /\ Schedulers \cap Manuals = {} /\ "scheduler" \notin Manuals
    /\ ColdKey \notin Scopes /\ ColdKey \in Keys /\ Scopes \subseteq Keys
BY LeaseAssumption DEF LeaseAssumption, Keys

LEMMA AbsentRow == Absent \notin LeaseRow /\ Absent \notin Job
BY LeaseAssumption DEF LeaseAssumption

LEMMA JobType ==
    ASSUME TypeOK, NEW w \in Workers, job[w] # Absent
    PROVE  /\ job[w] \in Job
           /\ job[w].scope \in Scopes /\ job[w].scope \in Keys
           /\ job[w].deadline \in Nat /\ job[w].stamp \in Nat /\ job[w].finish \in Nat
           /\ HolderOf(w) \in Holders
           /\ ExpiryOf(w) \in Nat
           /\ RowOf(w) \in LeaseRow
<1>1. job[w] \in Job
  BY DEF TypeOK
<1>2. /\ job[w].scope \in Scopes /\ job[w].scope \in Keys
      /\ job[w].deadline \in Nat /\ job[w].stamp \in Nat /\ job[w].finish \in Nat
  BY <1>1 DEF Job, Keys
<1>3. HolderOf(w) \in Holders
  BY <1>2 DEF HolderOf, Holders
<1>4. ExpiryOf(w) \in Nat
  BY <1>2, Facts DEF ExpiryOf
<1> QED
  BY <1>1, <1>2, <1>3, <1>4 DEF RowOf, LeaseRow

LEMMA TypeStep == TypeOK /\ [Next]_vars => TypeOK'
<1> SUFFICES ASSUME TypeOK, [Next]_vars PROVE TypeOK'
  OBVIOUS
<1>1. ASSUME NEW w \in Workers, NEW c \in {"hot", "cold", "run"}, NEW s \in Scopes, Begin(w, c, s)
      PROVE  TypeOK'
  <2>1. clock + Timeout \in Nat
    BY Facts DEF TypeOK
  <2> QED
    BY <1>1, <2>1 DEF Begin, TypeOK, Job, Never
<1>2. ASSUME NEW w \in Workers, ReadClock(w) PROVE TypeOK'
  BY <1>2 DEF ReadClock, At, First, TypeOK, Job
<1>3. ASSUME NEW w \in Workers, TakeCold(w) \/ TakeScope(w) PROVE TypeOK'
  <2>1. job[w] # Absent
    BY <1>3 DEF TakeCold, TakeScope, At
  <2>2. lease' \in [Keys -> LeaseRow \cup {Absent}]
    BY <1>3, <2>1, JobType DEF TakeCold, TakeScope, Take, TypeOK
  <2>3. \E place \in {"scope", "held"} : job' = [job EXCEPT ![w].at = place]
    BY <1>3 DEF TakeCold, TakeScope, Go
  <2> QED
    BY <1>3, <2>1, <2>2, <2>3 DEF TakeCold, TakeScope, Take, TypeOK, Job
<1>4. ASSUME NEW w \in Workers, RefuseCold(w) \/ RefuseScope(w) PROVE TypeOK'
  BY <1>4 DEF RefuseCold, RefuseScope, Refuse, Leave, Go, Stop, At, TypeOK, Job
<1>5. ASSUME NEW w \in Workers, Receive(w) PROVE TypeOK'
  BY <1>5 DEF Receive, At, TypeOK, Job
<1>6. ASSUME NEW w \in Workers, Commit(w) PROVE TypeOK'
  BY <1>6, JobType DEF Commit, At, TypeOK, Job, Never
<1>7. ASSUME NEW w \in Workers, GiveUp(w) PROVE TypeOK'
  BY <1>7 DEF GiveUp, At, TypeOK, Job, Never
<1>8. ASSUME NEW w \in Workers, ReleaseScope(w) \/ ReleaseCold(w) PROVE TypeOK'
  <2>1. lease' \in [Keys -> LeaseRow \cup {Absent}]
    BY <1>8 DEF ReleaseScope, ReleaseCold, Released, TypeOK
  <2> QED
    BY <1>8, <2>1 DEF ReleaseScope, ReleaseCold, Leave, Go, Stop, At, TypeOK, Job
<1>9. ASSUME NEW w \in Workers, Crash(w) PROVE TypeOK'
  BY <1>9 DEF Crash, Stop, TypeOK
<1>10. CASE Prune
  BY <1>10 DEF Prune, TypeOK
<1>11. CASE Tick
  BY <1>11 DEF Tick, TypeOK
<1>12. CASE UNCHANGED vars
  BY <1>12 DEF vars, TypeOK
<1> QED
  BY <1>1, <1>2, <1>3, <1>4, <1>5, <1>6, <1>7, <1>8, <1>9, <1>10, <1>11, <1>12
  DEF Next, Step

(* Leases, jobs and times are well formed in every reachable state.        *)
THEOREM LeaseTypeCorrect == Spec => []TypeOK
<1>1. Init => TypeOK
  BY DEF Init, TypeOK, Never
<1> QED
  BY <1>1, TypeStep, PTL DEF Spec

LEMMA TimingStep == TypeOK /\ Timing /\ [Next]_vars => Timing'
<1> SUFFICES ASSUME TypeOK, Timing, [Next]_vars PROVE Timing'
  OBVIOUS
<1> USE Facts
<1>1. ASSUME NEW w \in Workers, NEW c \in {"hot", "cold", "run"}, NEW s \in Scopes, Begin(w, c, s)
      PROVE  Timing'
  BY <1>1 DEF Begin, TypeOK, Timing, Never
<1>2. ASSUME NEW w \in Workers, ReadClock(w) PROVE Timing'
  BY <1>2, JobType DEF ReadClock, At, First, TypeOK, Timing, Job
<1>3. ASSUME NEW w \in Workers, NEW place, job[w] # Absent, job[w].at # "begun", Go(w, place), clock' = clock
      PROVE  Timing'
  BY <1>3 DEF Go, TypeOK, Timing, Job
<1>4. ASSUME NEW w \in Workers, Stop(w), clock' = clock
      PROVE  Timing'
  BY <1>4 DEF Stop, TypeOK, Timing
<1>5. ASSUME NEW w \in Workers,
             TakeCold(w) \/ TakeScope(w) \/ RefuseCold(w) \/ RefuseScope(w) \/ ReleaseScope(w)
               \/ ReleaseCold(w) \/ Crash(w)
      PROVE  Timing'
  <2>1. clock' = clock
    BY <1>5 DEF TakeCold, TakeScope, Take, RefuseCold, RefuseScope, Refuse, ReleaseScope,
             ReleaseCold, Crash
  <2>2. Stop(w) \/ \E place : Go(w, place) /\ job[w] # Absent /\ job[w].at # "begun"
    BY <1>5 DEF TakeCold, TakeScope, RefuseCold, RefuseScope, ReleaseScope, ReleaseCold,
             Crash, Leave, At
  <2> QED
    BY <1>3, <1>4, <2>1, <2>2
<1>6. ASSUME NEW w \in Workers, Receive(w) \/ Commit(w) \/ GiveUp(w) PROVE Timing'
  BY <1>6 DEF Receive, Commit, GiveUp, At, TypeOK, Timing, Job, Never
<1>7. CASE Prune \/ UNCHANGED vars
  BY <1>7 DEF Prune, vars, Timing
<1>8. CASE Tick
  <2>1. clock' = clock + 1 /\ job' = job
    BY <1>8 DEF Tick
  <2>2. \A w \in Workers : job[w] # Absent =>
           job[w].stamp \in Nat /\ job[w].finish \in Nat /\ job[w].deadline \in Nat
    BY JobType
  <2> QED
    BY <2>1, <2>2 DEF TypeOK, Timing
<1> QED
  BY <1>1, <1>2, <1>5, <1>6, <1>7, <1>8 DEF Next, Step

(* A context is over before the leases taken under it are.                 *)
LEMMA DeadlineCovered ==
    ASSUME TypeOK, Timing, NEW w \in Workers, job[w] # Absent, job[w].at # "begun"
    PROVE  job[w].deadline <= ExpiryOf(w)
BY Facts, JobType DEF Timing, ExpiryOf

-----------------------------------------------------------------------------
(* Who has which key.                                                      *)

(* The row of a process that another one could mistake for its own has     *)
(* expired: holders that read the same have the same expiry.               *)
LEMMA NotMistaken ==
    ASSUME TypeOK, Backed, Alone, NEW v \in Workers, NEW w \in Workers, NEW k \in Keys,
           v # w, Has(v, k), Has(w, k), clock < ExpiryOf(v)
    PROVE  lease[k] = RowOf(v) /\ lease[k].holder # HolderOf(w)
<1>1. lease[k] = RowOf(v)
  BY DEF Backed
<1>2. SUFFICES ASSUME HolderOf(v) = HolderOf(w) PROVE FALSE
  BY <1>1 DEF RowOf
<1>3. v \notin Manuals /\ w \notin Manuals
  BY <1>2, Facts DEF HolderOf
<1>4. job[v].stamp = job[w].stamp
  BY <1>2 DEF HolderOf
<1>5. ExpiryOf(v) = ExpiryOf(w)
  BY <1>3, <1>4 DEF ExpiryOf, Workers
<1> QED
  BY <1>5 DEF Alone

(* A step that hands out no key and takes back none keeps both facts.      *)
LEMMA KeysShrink ==
    ASSUME TypeOK, Backed, Alone, clock' \in Nat, clock <= clock', 
           \A w \in Workers, k \in Keys :
              Has(w, k)' => Has(w, k) /\ RowOf(w)' = RowOf(w),
           \A w \in Workers, k \in Keys :
              Has(w, k)' /\ clock < ExpiryOf(w) => lease'[k] = lease[k]
    PROVE  Backed' /\ Alone'
<1>1. \A w \in Workers, k \in Keys :
         Has(w, k)' => /\ ExpiryOf(w)' = ExpiryOf(w)
                       /\ clock' < ExpiryOf(w)' => clock < ExpiryOf(w)
  <2> TAKE w \in Workers, k \in Keys
  <2> HAVE Has(w, k)'
  <2>1. Has(w, k) /\ RowOf(w)' = RowOf(w)
    OBVIOUS
  <2>2. ExpiryOf(w)' = ExpiryOf(w)
    BY <2>1 DEF RowOf
  <2>3. ExpiryOf(w) \in Nat
    BY <2>1, JobType DEF Has
  <2> QED
    BY <2>2, <2>3 DEF TypeOK
<1>2. Backed'
  BY <1>1 DEF Backed
<1>3. Alone'
  BY <1>1 DEF Alone
<1> QED
  BY <1>2, <1>3

(* Taking a free key: whoever had it has let its own expiry pass.          *)
LEMMA KeysTake ==
    ASSUME TypeOK, Backed, Alone, NEW w \in Workers, NEW k \in Keys, NEW place,
           job[w] # Absent, Take(w, k), Go(w, place),
           \A kk \in Keys : Has(w, kk)' => Has(w, kk) \/ kk = k
    PROVE  Backed' /\ Alone'
<1>1. /\ clock' = clock
      /\ lease' = [lease EXCEPT ![k] = RowOf(w)]
      /\ LeaseFree(k)
      /\ job' = [job EXCEPT ![w].at = place]
  BY DEF Take, Go
<1>2. \A v \in Workers : job[v] # Absent => RowOf(v)' = RowOf(v) /\ ExpiryOf(v)' = ExpiryOf(v)
  BY <1>1 DEF RowOf, HolderOf, ExpiryOf, TypeOK, Job
<1>3. \A v \in Workers \ {w}, kk \in Keys : Has(v, kk)' => Has(v, kk)
  BY <1>1 DEF Has, TypeOK
<1>4. \A v \in Workers : Has(v, k) => ~(clock < ExpiryOf(v))
  <2> TAKE v \in Workers
  <2> HAVE Has(v, k)
  <2>1. ExpiryOf(v) \in Nat
    BY JobType DEF Has
  <2>2. clock < ExpiryOf(v) => lease[k] = RowOf(v) /\ lease[k] \in LeaseRow
    BY JobType DEF Backed, Has
  <2>3. clock < ExpiryOf(v) => lease[k] # Absent
    BY <2>2, AbsentRow
  <2> QED
    BY <1>1, <2>1, <2>2, <2>3 DEF LeaseFree, RowOf, TypeOK
<1>5. \A v \in Workers, kk \in Keys : Has(v, kk)' => job[v] # Absent
  BY <1>3 DEF Has
<1>6. Backed'
  <2> SUFFICES ASSUME NEW v \in Workers, NEW kk \in Keys, Has(v, kk)', (clock < ExpiryOf(v))'
               PROVE  (lease[kk] = RowOf(v))'
    BY DEF Backed
  <2>1. RowOf(v)' = RowOf(v) /\ clock < ExpiryOf(v)
    BY <1>1, <1>2, <1>5
  <2>2. CASE v = w
    BY <1>1, <2>1, <2>2 DEF Backed, TypeOK
  <2>3. CASE v # w
    BY <1>1, <1>3, <1>4, <2>1, <2>3 DEF Backed, TypeOK
  <2> QED
    BY <2>2, <2>3
<1>7. Alone'
  <2> SUFFICES ASSUME NEW u \in Workers, NEW v \in Workers, NEW kk \in Keys,
                      u # v, Has(u, kk)', Has(v, kk)',
                      (clock < ExpiryOf(u))', (clock < ExpiryOf(v))'
               PROVE  FALSE
    BY DEF Alone
  <2>1. clock < ExpiryOf(u) /\ clock < ExpiryOf(v)
    BY <1>1, <1>2, <1>5
  <2>2. Has(u, kk) \/ (u = w /\ kk = k)
    BY <1>3
  <2>3. Has(v, kk) \/ (v = w /\ kk = k)
    BY <1>3
  <2> QED
    BY <1>4, <2>1, <2>2, <2>3 DEF Alone
<1> QED
  BY <1>6, <1>7

(* Giving a key back, whether or not the row is really deleted.            *)
LEMMA KeysRelease ==
    ASSUME TypeOK, Backed, Alone, NEW w \in Workers, NEW k \in Keys,
           Has(w, k), ~Has(w, k)', lease' \in {lease, Released(w, k)}, clock' = clock,
           \A v \in Workers, kk \in Keys :
              Has(v, kk)' => Has(v, kk) /\ RowOf(v)' = RowOf(v)
    PROVE  Backed' /\ Alone'
<1>1. \A v \in Workers, kk \in Keys : Has(v, kk)' /\ clock < ExpiryOf(v) => lease'[kk] = lease[kk]
  <2> SUFFICES ASSUME NEW v \in Workers, NEW kk \in Keys, Has(v, kk)', clock < ExpiryOf(v)
               PROVE  lease'[kk] = lease[kk]
    OBVIOUS
  <2>1. CASE kk # k
    BY <2>1 DEF Released, TypeOK
  <2>2. CASE kk = k
    <3>1. v # w
      BY <2>2
    <3>2. lease[k].holder # HolderOf(w)
      BY <2>2, <3>1, NotMistaken
    <3> QED
      BY <2>2, <3>2 DEF Released
  <2> QED
    BY <2>1, <2>2
<1> QED
  BY <1>1, KeysShrink DEF TypeOK

LEMMA KeysStep ==
    TypeOK /\ Backed /\ Alone /\ [Next]_vars => Backed' /\ Alone'
<1> SUFFICES ASSUME TypeOK, Backed, Alone, [Next]_vars PROVE Backed' /\ Alone'
  OBVIOUS
<1> DEFINE Kept == \A v \in Workers, k \in Keys :
                      Has(v, k)' => Has(v, k) /\ RowOf(v)' = RowOf(v)
<1>1. ASSUME lease' = lease, clock' = clock, Kept PROVE Backed' /\ Alone'
  BY <1>1, KeysShrink DEF TypeOK
<1>2. ASSUME NEW w \in Workers, NEW c \in {"hot", "cold", "run"}, NEW s \in Scopes, Begin(w, c, s)
      PROVE  Backed' /\ Alone'
  BY <1>1, <1>2 DEF Begin, Has, RowOf, HolderOf, ExpiryOf, TypeOK
<1>3. ASSUME NEW w \in Workers, ReadClock(w) PROVE Backed' /\ Alone'
  <2>1. Kept
    BY <1>3 DEF ReadClock, At, First, Has, RowOf, HolderOf, ExpiryOf, TypeOK, Job
  <2> QED
    BY <1>1, <1>3, <2>1 DEF ReadClock
<1>4. ASSUME NEW w \in Workers, Stop(w) PROVE Kept /\ \A k \in Keys : ~Has(w, k)'
  BY <1>4 DEF Stop, Has, RowOf, HolderOf, ExpiryOf, TypeOK
<1>5. ASSUME NEW w \in Workers, Leave(w), job[w] # Absent,
             job[w].at \in {"scope", "release"}
      PROVE  Kept /\ \A k \in Keys : k = job[w].scope => ~Has(w, k)'
  <2>1. CASE job[w].class = "cold"
    <3>1. job' = [job EXCEPT ![w].at = "releaseCold"]
      BY <1>5, <2>1 DEF Leave, Go
    <3>2. job[w].scope # ColdKey
      BY <1>5, JobType, Facts
    <3> QED
      BY <1>5, <2>1, <3>1, <3>2 DEF Has, RowOf, HolderOf, ExpiryOf, TypeOK, Job
  <2>2. CASE job[w].class # "cold"
    BY <1>4, <1>5, <2>2, JobType DEF Leave
  <2> QED
    BY <2>1, <2>2
<1>6. ASSUME NEW w \in Workers, RefuseCold(w) \/ RefuseScope(w) \/ Crash(w)
      PROVE  Backed' /\ Alone'
  BY <1>1, <1>4, <1>5, <1>6 DEF RefuseCold, RefuseScope, Refuse, Crash, At
<1>7. ASSUME NEW w \in Workers, Receive(w) \/ Commit(w) \/ GiveUp(w)
      PROVE  Backed' /\ Alone'
  <2>1. \E place \in {"held", "write", "release"} : \E t :
           job' = [job EXCEPT ![w].finish = t, ![w].at = place]
    BY <1>7 DEF Receive, Commit, GiveUp
  <2>2. job[w] # Absent /\ job[w].at \in {"held", "write"}
    BY <1>7 DEF Receive, Commit, GiveUp, At
  <2>3. Kept
    BY <2>1, <2>2 DEF Has, RowOf, HolderOf, ExpiryOf, TypeOK, Job
  <2> QED
    BY <1>1, <1>7, <2>3 DEF Receive, Commit, GiveUp
<1>8. ASSUME NEW w \in Workers, TakeCold(w) PROVE Backed' /\ Alone'
  <2>1. job[w] # Absent /\ job[w].at = "cold" /\ Take(w, ColdKey) /\ Go(w, "scope")
    BY <1>8 DEF TakeCold, At
  <2>2. \A kk \in Keys : Has(w, kk)' => Has(w, kk) \/ kk = ColdKey
    BY <2>1 DEF Go, Has, TypeOK, Job
  <2> QED
    BY <2>1, <2>2, KeysTake, Facts
<1>9. ASSUME NEW w \in Workers, TakeScope(w) PROVE Backed' /\ Alone'
  <2>1. /\ job[w] # Absent /\ job[w].at = "scope"
        /\ Take(w, job[w].scope) /\ Go(w, "held")
    BY <1>9 DEF TakeScope, At
  <2>2. \A kk \in Keys : Has(w, kk)' => Has(w, kk) \/ kk = job[w].scope
    BY <2>1 DEF Go, Has, TypeOK, Job
  <2> QED
    BY <2>1, <2>2, KeysTake, JobType
<1>10. ASSUME NEW w \in Workers, ReleaseScope(w) PROVE Backed' /\ Alone'
  <2>1. /\ job[w] # Absent /\ job[w].at = "release" /\ Leave(w)
        /\ clock' = clock /\ lease' \in {lease, Released(w, job[w].scope)}
    BY <1>10 DEF ReleaseScope, At
  <2>2. PICK k \in Keys : k = job[w].scope
    BY <2>1, JobType
  <2>3. Kept /\ ~Has(w, k)' /\ Has(w, k)
    BY <1>5, <2>1, <2>2 DEF Has
  <2> QED
    BY <2>1, <2>2, <2>3, KeysRelease
<1>11. ASSUME NEW w \in Workers, ReleaseCold(w) PROVE Backed' /\ Alone'
  <2>1. /\ job[w] # Absent /\ job[w].at = "releaseCold" /\ Stop(w)
        /\ clock' = clock /\ lease' \in {lease, Released(w, ColdKey)}
    BY <1>11 DEF ReleaseCold, At
  <2>2. Kept /\ ~Has(w, ColdKey)' /\ Has(w, ColdKey)
    BY <1>4, <2>1, Facts DEF Has, TypeOK
  <2> QED
    BY <2>1, <2>2, KeysRelease, Facts
<1>12. CASE Prune
  <2>1. \A v \in Workers, k \in Keys : Has(v, k) /\ clock < ExpiryOf(v) => lease'[k] = lease[k]
    <3> SUFFICES ASSUME NEW v \in Workers, NEW k \in Keys, Has(v, k), clock < ExpiryOf(v)
                 PROVE  lease'[k] = lease[k]
      OBVIOUS
    <3>1. lease[k] = RowOf(v) /\ RowOf(v) \in LeaseRow /\ ExpiryOf(v) \in Nat
      BY JobType DEF Backed, Has
    <3>2. ~LeaseFree(k)
      BY <3>1, AbsentRow DEF LeaseFree, RowOf, TypeOK
    <3> QED
      BY <1>12, <3>2 DEF Prune
  <2>2. Kept /\ clock' = clock /\ \A v \in Workers, k \in Keys : Has(v, k)' => Has(v, k)
    BY <1>12 DEF Prune, Has, RowOf, HolderOf, ExpiryOf
  <2> QED
    BY <2>1, <2>2, KeysShrink DEF TypeOK
<1>13. CASE Tick
  <2>1. Kept /\ clock' \in Nat /\ clock <= clock' /\ lease' = lease
    BY <1>13 DEF Tick, TypeOK, Has, RowOf, HolderOf, ExpiryOf
  <2> QED
    BY <2>1, KeysShrink
<1>14. CASE UNCHANGED vars
  <2>1. Kept
    BY <1>14 DEF vars, Has, RowOf, HolderOf, ExpiryOf
  <2> QED
    BY <1>1, <1>14, <2>1 DEF vars
<1> QED
  BY <1>2, <1>3, <1>6, <1>7, <1>8, <1>9, <1>10, <1>11, <1>12, <1>13, <1>14 DEF Next, Step

-----------------------------------------------------------------------------
(* The writes of a stage.                                                  *)

LEMMA OrderedStep ==
    TypeOK /\ Timing /\ Alone /\ Ordered /\ [Next]_vars => Ordered'
<1> SUFFICES ASSUME TypeOK, Timing, Alone, Ordered, [Next]_vars PROVE Ordered'
  OBVIOUS
(* Most steps write nothing, start no write and only let time pass.        *)
<1>1. ASSUME stored' = stored, clock' \in Nat, clock <= clock',
             \A v \in Workers : At(v, "write")' => At(v, "write") /\ job'[v] = job[v]
      PROVE  Ordered'
  <2>1. \A s \in Scopes : stored'[s] <= clock'
    BY <1>1 DEF Ordered, TypeOK
  <2>2. ASSUME NEW v \in Workers, At(v, "write")', (clock < ExpiryOf(v))'
        PROVE  (stored[job[v].scope] <= job[v].finish)'
    <3>1. At(v, "write") /\ job'[v] = job[v]
      BY <1>1, <2>2
    <3>2. ExpiryOf(v)' = ExpiryOf(v) /\ ExpiryOf(v) \in Nat
      BY <3>1, JobType DEF ExpiryOf, At
    <3>3. clock < ExpiryOf(v)
      BY <1>1, <2>2, <3>2 DEF TypeOK
    <3> QED
      BY <1>1, <3>1, <3>3 DEF Ordered
  <2> QED
    BY <2>1, <2>2 DEF Ordered
<1>2. ASSUME NEW w \in Workers, NEW c \in {"hot", "cold", "run"}, NEW s \in Scopes, Begin(w, c, s)
      PROVE  Ordered'
  BY <1>1, <1>2 DEF Begin, At, TypeOK
<1>3. ASSUME NEW w \in Workers, ReadClock(w) PROVE Ordered'
  BY <1>1, <1>3 DEF ReadClock, First, At, TypeOK, Job
<1>4. ASSUME NEW w \in Workers,
             TakeCold(w) \/ TakeScope(w) \/ RefuseCold(w) \/ RefuseScope(w) \/ ReleaseScope(w)
               \/ ReleaseCold(w) \/ Crash(w)
      PROVE  Ordered'
  <2>1. clock' = clock /\ stored' = stored
    BY <1>4 DEF TakeCold, TakeScope, Take, RefuseCold, RefuseScope, Refuse, ReleaseScope,
             ReleaseCold, Crash
  <2>2. Stop(w) \/ \E place \in {"scope", "held", "releaseCold"} : Go(w, place)
    BY <1>4 DEF TakeCold, TakeScope, RefuseCold, RefuseScope, ReleaseScope, ReleaseCold,
             Crash, Leave
  <2>3. \A v \in Workers : At(v, "write")' => At(v, "write") /\ job'[v] = job[v]
    <3>1. CASE Stop(w)
      BY <3>1 DEF Stop, At, TypeOK
    <3>2. ASSUME NEW place \in {"scope", "held", "releaseCold"}, Go(w, place)
          PROVE  \A v \in Workers : At(v, "write")' => At(v, "write") /\ job'[v] = job[v]
      <4>1. job'[w] # Absent => job'[w].at # "write"
        BY <1>4, <3>2 DEF Go, TypeOK, Job, TakeCold, TakeScope, RefuseCold, RefuseScope,
                       ReleaseScope, ReleaseCold, Crash, At
      <4> QED
        BY <3>2, <4>1 DEF Go, At, TypeOK
    <3> QED
      BY <2>2, <3>1, <3>2
  <2> QED
    BY <1>1, <2>1, <2>3 DEF TypeOK
<1>5. ASSUME NEW w \in Workers, Receive(w) PROVE Ordered'
  <2>1. /\ job[w] # Absent /\ clock' = clock /\ stored' = stored
        /\ job' = [job EXCEPT ![w].finish = clock, ![w].at = "write"]
    BY <1>5 DEF Receive, At
  <2>2. job'[w].finish = clock /\ job'[w].scope = job[w].scope /\ job[w].scope \in Scopes
    BY <2>1, JobType DEF TypeOK, Job
  <2>3. \A v \in Workers \ {w} : job'[v] = job[v]
    BY <2>1 DEF TypeOK
  <2> QED
    BY <2>1, <2>2, <2>3 DEF Ordered, At, ExpiryOf
<1>6. ASSUME NEW w \in Workers, Commit(w) PROVE Ordered'
  <2>1. /\ job[w] # Absent /\ job[w].at = "write" /\ clock < job[w].deadline
        /\ clock' = clock
        /\ stored' = [stored EXCEPT ![job[w].scope] = job[w].finish]
    BY <1>6 DEF Commit, At, Alive
  <2>2. job[w].finish <= clock /\ job[w].scope \in Scopes
    BY <2>1, JobType DEF Timing
  <2>3. clock < ExpiryOf(w)
    BY <2>1, DeadlineCovered, JobType DEF TypeOK
  <2>4. job'[w] # Absent => job'[w].at # "write"
    BY <1>6, <2>1 DEF Commit, TypeOK, Job
  <2>5. \A v \in Workers \ {w} : job'[v] = job[v]
    BY <1>6 DEF Commit, TypeOK
  <2>6. \A v \in Workers \ {w} :
           At(v, "write") /\ clock < ExpiryOf(v) => job[v].scope # job[w].scope
    BY <2>1, <2>3, JobType DEF Alone, Has, At
  <2>7. ASSUME NEW v \in Workers, At(v, "write")', (clock < ExpiryOf(v))'
        PROVE  (stored[job[v].scope] <= job[v].finish)'
    <3>1. v # w /\ job'[v] = job[v]
      BY <2>4, <2>5, <2>7 DEF At
    <3>2. At(v, "write") /\ clock < ExpiryOf(v)
      BY <2>1, <2>7, <3>1 DEF At, ExpiryOf
    <3>3. job[v].scope # job[w].scope /\ job[v].scope \in Scopes
      BY <2>6, <3>1, <3>2, JobType DEF At
    <3> QED
      BY <2>1, <3>1, <3>2, <3>3 DEF Ordered, TypeOK
  <2>8. \A s \in Scopes : stored'[s] <= clock'
    BY <2>1, <2>2 DEF Ordered, TypeOK
  <2> QED
    BY <2>7, <2>8 DEF Ordered
<1>7. ASSUME NEW w \in Workers, GiveUp(w) PROVE Ordered'
  BY <1>1, <1>7 DEF GiveUp, At, TypeOK, Job
<1>8. CASE Prune \/ UNCHANGED vars
  BY <1>1, <1>8 DEF Prune, vars, At, TypeOK
<1>9. CASE Tick
  BY <1>1, <1>9 DEF Tick, At, TypeOK
<1> QED
  BY <1>2, <1>3, <1>4, <1>5, <1>6, <1>7, <1>8, <1>9 DEF Next, Step

-----------------------------------------------------------------------------
LeaseInvariant == TypeOK /\ Timing /\ Backed /\ Alone /\ Ordered

LEMMA LeaseInvariantHolds == Spec => []LeaseInvariant
<1>1. Init => LeaseInvariant
  BY DEF Init, LeaseInvariant, TypeOK, Timing, Backed, Alone, Ordered, Has, At, Never
<1>2. LeaseInvariant /\ [Next]_vars => LeaseInvariant'
  BY TypeStep, TimingStep, KeysStep, OrderedStep DEF LeaseInvariant
<1> QED
  BY <1>1, <1>2, PTL DEF Spec

(* A process that may write has its stage, and its expiry lies ahead.      *)
LEMMA WriterIsLive ==
    ASSUME TypeOK, Timing, NEW w \in Workers, MayWrite(w)
    PROVE  /\ job[w] # Absent /\ job[w].at \in {"held", "write"}
           /\ job[w].scope \in Keys /\ Has(w, job[w].scope)
           /\ clock < ExpiryOf(w) /\ job[w].deadline <= ExpiryOf(w)
<1>1. job[w] # Absent /\ job[w].at \in {"held", "write"} /\ clock < job[w].deadline
  BY DEF MayWrite, At, Alive
<1>2. job[w].deadline <= ExpiryOf(w) /\ job[w].deadline \in Nat /\ ExpiryOf(w) \in Nat
  BY <1>1, DeadlineCovered, JobType
<1> QED
  BY <1>1, <1>2, JobType DEF Has, TypeOK

(* Mutual exclusion of the writers of a stage, for any number of processes *)
(* and in spite of expiries, crashes and late or failed releases.          *)
THEOREM ExclusionCorrect == Spec => []WritersExclude
<1>1. LeaseInvariant => WritersExclude
  <2> SUFFICES ASSUME LeaseInvariant, NEW v \in Workers, NEW w \in Workers, v # w,
                      MayWrite(v), MayWrite(w)
               PROVE  /\ job[v].scope # job[w].scope
                      /\ ~(job[v].class = "cold" /\ job[w].class = "cold")
    BY DEF WritersExclude
  <2>1. TypeOK /\ Timing /\ Alone
    BY DEF LeaseInvariant
  <2>2. job[v].scope # job[w].scope
    BY <2>1, WriterIsLive DEF Alone
  <2>3. ASSUME job[v].class = "cold", job[w].class = "cold" PROVE FALSE
    <3>1. Has(v, ColdKey) /\ Has(w, ColdKey)
      BY <2>1, <2>3, WriterIsLive DEF Has
    <3> QED
      BY <2>1, <3>1, WriterIsLive, Facts DEF Alone
  <2> QED
    BY <2>2, <2>3
<1> QED
  BY <1>1, LeaseInvariantHolds, PTL

(* A writer's row is its own and outlasts its context.                     *)
THEOREM OwnershipCorrect == Spec => []WriterHasLease
<1>1. LeaseInvariant => WriterHasLease
  <2> SUFFICES ASSUME LeaseInvariant, NEW w \in Workers, MayWrite(w)
               PROVE  /\ lease[job[w].scope] # Absent
                      /\ lease[job[w].scope].holder = HolderOf(w)
                      /\ lease[job[w].scope].expires >= job[w].deadline
    BY DEF WriterHasLease
  <2>1. TypeOK /\ Timing /\ Backed
    BY DEF LeaseInvariant
  <2>2. lease[job[w].scope] = RowOf(w) /\ RowOf(w) \in LeaseRow
    BY <2>1, WriterIsLive, JobType DEF Backed
  <2>3. job[w].deadline <= ExpiryOf(w) /\ job[w].deadline \in Nat /\ ExpiryOf(w) \in Nat
    BY <2>1, WriterIsLive, JobType
  <2> QED
    BY <2>2, <2>3, AbsentRow DEF RowOf
<1> QED
  BY <1>1, LeaseInvariantHolds, PTL

(* The writes of a stage commit in the order of their finish times.        *)
THEOREM OrderCorrect == Spec => CommitsInOrder
<1>1. LeaseInvariant /\ [Next]_vars => [\A s \in Scopes : stored[s] <= stored'[s]]_vars
  <2> SUFFICES ASSUME LeaseInvariant, Next PROVE \A s \in Scopes : stored[s] <= stored'[s]
    OBVIOUS
  <2>1. TypeOK /\ Timing /\ Ordered
    BY DEF LeaseInvariant
  <2>2. ASSUME stored' = stored PROVE \A s \in Scopes : stored[s] <= stored'[s]
    BY <2>1, <2>2 DEF TypeOK
  <2>3. ASSUME NEW w \in Workers, Commit(w) PROVE \A s \in Scopes : stored[s] <= stored'[s]
    <3>1. /\ job[w] # Absent /\ At(w, "write") /\ MayWrite(w)
          /\ stored' = [stored EXCEPT ![job[w].scope] = job[w].finish]
      BY <2>3 DEF Commit, At, MayWrite
    <3>2. stored[job[w].scope] <= job[w].finish
      BY <2>1, <3>1, WriterIsLive DEF Ordered
    <3> QED
      BY <2>1, <3>1, <3>2 DEF TypeOK
  <2>4. ASSUME NEW w \in Workers, Step(w), ~Commit(w) PROVE stored' = stored
    BY <2>4 DEF Step, Begin, ReadClock, TakeCold, RefuseCold, TakeScope, RefuseScope, Take,
       Refuse, Receive, GiveUp, ReleaseScope, ReleaseCold, Crash
  <2>5. Prune \/ Tick => stored' = stored
    BY DEF Prune, Tick
  <2> QED
    BY <2>2, <2>3, <2>4, <2>5 DEF Next
<1> QED
  BY <1>1, LeaseInvariantHolds, PTL DEF Spec, CommitsInOrder

(* A live lease goes only when a process that has it gives it back: a take *)
(* or a prune finds the key free, and a release deletes its holder's row.  *)
THEOREM ReleaseCorrect == Spec => LiveLeaseKept
<1> DEFINE Kept == \A k \in Keys :
                     ~LeaseFree(k) /\ lease'[k] # lease[k] =>
                        \E w \in Workers :
                           Has(w, k) /\ HolderOf(w) = lease[k].holder /\ ~Has(w, k)'
<1>1. ASSUME TypeOK, Next PROVE Kept
  <2>1. ASSUME lease' = lease PROVE Kept
    BY <2>1
  <2>2. ASSUME NEW w \in Workers, NEW k \in Keys, Take(w, k) PROVE Kept
    BY <1>1, <2>2 DEF Take, TypeOK
  <2>3. ASSUME NEW w \in Workers, NEW k \in Keys, Has(w, k), ~Has(w, k)',
               lease' \in {lease, Released(w, k)}
        PROVE  Kept
    BY <1>1, <2>3 DEF Released, TypeOK
  <2>4. ASSUME NEW w \in Workers, TakeCold(w) \/ TakeScope(w) PROVE Kept
    <3>1. \E k \in Keys : Take(w, k)
      BY <1>1, <2>4, Facts, JobType DEF TakeCold, TakeScope, At
    <3> QED
      BY <2>2, <3>1
  <2>5. ASSUME NEW w \in Workers, ReleaseScope(w) PROVE Kept
    <3>1. /\ job[w] # Absent /\ job[w].at = "release" /\ Leave(w)
          /\ lease' \in {lease, Released(w, job[w].scope)}
      BY <2>5 DEF ReleaseScope, At
    <3>2. job[w].scope \in Keys /\ job[w].scope # ColdKey
      BY <1>1, <3>1, JobType, Facts
    <3>3. Has(w, job[w].scope)
      BY <3>1 DEF Has
    <3>4. \A k \in Keys : k = job[w].scope => ~Has(w, k)'
      BY <1>1, <3>1, <3>2 DEF Leave, Go, Stop, Has, TypeOK, Job
    <3>5. PICK k \in Keys : k = job[w].scope
      BY <3>2
    <3> HIDE DEF Kept
    <3> QED
      BY <2>3, <3>1, <3>3, <3>4, <3>5
  <2>6. ASSUME NEW w \in Workers, ReleaseCold(w) PROVE Kept
    <3>1. /\ job[w] # Absent /\ job[w].at = "releaseCold" /\ Stop(w)
          /\ lease' \in {lease, Released(w, ColdKey)}
      BY <2>6 DEF ReleaseCold, At
    <3>2. Has(w, ColdKey) /\ ~Has(w, ColdKey)'
      BY <1>1, <3>1, Facts DEF Has, Stop, TypeOK
    <3> HIDE DEF Kept
    <3> QED
      BY <2>3, <3>1, <3>2, Facts
  <2>7. CASE Prune
    BY <2>7 DEF Prune
  <2>8. CASE Tick
    BY <2>1, <2>8 DEF Tick
  <2>9. ASSUME NEW w \in Workers, Step(w),
               ~(TakeCold(w) \/ TakeScope(w) \/ ReleaseScope(w) \/ ReleaseCold(w))
        PROVE  lease' = lease
    BY <2>9 DEF Step, Begin, ReadClock, RefuseCold, RefuseScope, Refuse, Receive, Commit,
       GiveUp, Crash
  <2> HIDE DEF Kept
  <2> QED
    BY <1>1, <2>1, <2>4, <2>5, <2>6, <2>7, <2>8, <2>9 DEF Next
<1>2. TypeOK /\ [Next]_vars => [Kept]_vars
  BY <1>1
<1> QED
  BY <1>2, LeaseTypeCorrect, PTL DEF Spec, LiveLeaseKept
=============================================================================
