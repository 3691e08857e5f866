-------------------------- MODULE SourceSyncProofs --------------------------
(***************************************************************************)
(* Theorems about SourceScopes and SourceSync: the registry for any        *)
(* catalog, configuration, old cache and sequence of clocks, the syncer    *)
(* for any matches, teams, answers, retries and number of calls.           *)
(***************************************************************************)
EXTENDS SourceScopes, SourceSync, SequenceTheorems, TLAPS

-----------------------------------------------------------------------------
(* The registry.  Everything follows from one fact about the rows: a scope *)
(* that waits as upcoming is of a later year than the last start's, a year *)
(* it can only have been given by a clock that showed less.                *)
Registration == {"catalog", "configured", "provisional", "observed"}
Lifecycle == {"upcoming", "active", "completed"}
Row == [registration : Registration, lifecycle : Lifecycle]

RegistryTypeOK ==
    /\ scopes = [id \in DOMAIN scopes |-> scopes[id]]
    /\ \A id \in DOMAIN scopes : id.season \in Nat /\ scopes[id] \in Row
    /\ seeded.year \in Nat

RegistryInvariant ==
    /\ RegistryTypeOK
    /\ \A id \in DOMAIN scopes : scopes[id].lifecycle = "upcoming" => id.season > seeded.year
    /\ RegistryFollowsYear

(* A start does to one scope one of these things.                          *)
LEMMA SeededRow ==
    ASSUME NEW id, id.season \in Nat, NEW now \in Nat \ {0},
           NEW registration \in Registration
    PROVE  LET row == [registration |-> registration, lifecycle |-> SeedLifecycle(id, now)] IN
           /\ row \in Row
           /\ row.lifecycle = "upcoming" => id.season > now
           /\ Past(id, now) => row.lifecycle = "completed"
BY DEF SeedLifecycle, Past, Future, Row, Lifecycle

LEMMA MergedKeeps ==
    ASSUME NEW id, id.season \in Nat, NEW now \in Nat \ {0}, NEW row \in Row,
           NEW registration \in Registration
    PROVE  /\ MergedRow(row, id, registration, now) \in Row
           /\ MergedRow(row, id, registration, now).lifecycle = "upcoming" => id.season > now
           /\ Past(id, now) => MergedRow(row, id, registration, now).lifecycle = "completed"
           /\ Progress(MergedRow(row, id, registration, now).lifecycle) >= Progress(row.lifecycle)
           /\ Precedence(MergedRow(row, id, registration, now).registration)
                >= Precedence(row.registration)
<1> DEFINE new == MergedRow(row, id, registration, now)
<1>1. /\ new.registration = Stronger(row.registration, registration)
      /\ new.lifecycle = IF Past(id, now) THEN "completed"
                         ELSE IF row.lifecycle = "upcoming" /\ ~Future(id, now) THEN "active"
                         ELSE row.lifecycle
      /\ new = [registration |-> new.registration, lifecycle |-> new.lifecycle]
  BY DEF MergedRow, Merged
<1>2. row.registration \in Registration /\ row.lifecycle \in Lifecycle
  BY DEF Row
<1> HIDE DEF new
<1>3. new.registration \in Registration
      /\ Precedence(new.registration) >= Precedence(row.registration)
  <2>1. \A r \in Registration : Precedence(r) \in Nat
    BY DEF Registration, Precedence
  <2> QED
    BY <1>1, <1>2, <2>1 DEF Stronger
<1>4. /\ new.lifecycle \in Lifecycle
      /\ new.lifecycle = "upcoming" => id.season > now
      /\ Past(id, now) => new.lifecycle = "completed"
  BY <1>1, <1>2 DEF Past, Future, Lifecycle
<1>5. Progress(new.lifecycle) >= Progress(row.lifecycle)
  BY <1>1, <1>2 DEF Progress, Lifecycle
<1> QED
  BY <1>1, <1>3, <1>4, <1>5 DEF Row, new

LEMMA RetainedKeeps ==
    ASSUME NEW id, id.season \in Nat, NEW now \in Nat \ {0}, NEW row \in Row, NEW year \in Nat,
           row.lifecycle = "upcoming" => id.season > year
    PROVE  /\ Retained(row, id, now) \in Row
           /\ Retained(row, id, now).lifecycle = "upcoming" => id.season > now
           /\ Progress(Retained(row, id, now).lifecycle) >= Progress(row.lifecycle)
           /\ Retained(row, id, now).registration = row.registration
<1>1. row.registration \in Registration /\ row.lifecycle \in Lifecycle
  BY DEF Row
<1>2. CASE row.lifecycle = "upcoming" /\ id.season # 0 /\ id.season <= now
  <2> DEFINE life == IF id.season < now THEN "completed" ELSE "active"
  <2>1. Retained(row, id, now) = [row EXCEPT !.lifecycle = life]
    BY <1>2 DEF Retained, Promoted
  <2>2. life \in Lifecycle /\ life # "upcoming" /\ Progress(life) >= Progress(row.lifecycle)
    BY <1>2 DEF Lifecycle, Progress
  <2> HIDE DEF life
  <2> QED
    BY <1>1, <2>1, <2>2 DEF Row
<1>3. CASE ~(row.lifecycle = "upcoming" /\ id.season # 0 /\ id.season <= now)
  <2>1. Retained(row, id, now) = row
    BY <1>3 DEF Retained, Promoted
  <2>2. \A life \in Lifecycle : Progress(life) >= Progress(life)
    BY DEF Progress, Lifecycle
  <2> QED
    BY <1>1, <1>3, <2>1, <2>2
<1> QED
  BY <1>2, <1>3

LEMMA SeedFacts ==
    ASSUME NEW configured \in Configurable, NEW now \in Years
    PROVE  /\ now \in Nat \ {0}
           /\ \A id \in DOMAIN Seeds(configured, now) :
                 id.season \in Nat /\ Seeds(configured, now)[id] \in Registration
<1>1. now \in Nat \ {0}
  BY ScopesAssumption DEF ScopesAssumption
<1>2. \A id \in Provisional(now) : id.season \in Nat
  BY <1>1 DEF Provisional, Scope
<1>3. \A id \in Catalog \cup {configured} : id.season \in Nat
  BY ScopesAssumption DEF ScopesAssumption
<1> QED
  BY <1>1, <1>2, <1>3 DEF Seeds, Registration

(* One start, for one scope.                                               *)
LEMMA StartedRow ==
    ASSUME RegistryInvariant, NEW configured \in Configurable, NEW now \in Years,
           EnsureSourceScopes(configured, now), NEW id \in DOMAIN scopes'
    PROVE  /\ id.season \in Nat /\ scopes'[id] \in Row
           /\ scopes'[id].lifecycle = "upcoming" => id.season > now
           /\ id \in DOMAIN Seeds(configured, now) /\ Past(id, now) =>
                 scopes'[id].lifecycle = "completed"
           /\ id \in DOMAIN scopes =>
                 /\ Progress(scopes'[id].lifecycle) >= Progress(scopes[id].lifecycle)
                 /\ Precedence(scopes'[id].registration) >= Precedence(scopes[id].registration)
<1> DEFINE seeds == Seeds(configured, now)
<1>1. now \in Nat \ {0} /\ \A s \in DOMAIN seeds : s.season \in Nat /\ seeds[s] \in Registration
  BY SeedFacts
<1>2. id \in DOMAIN scopes => /\ id.season \in Nat /\ scopes[id] \in Row
                              /\ scopes[id].lifecycle = "upcoming" => id.season > seeded.year
  BY DEF RegistryInvariant, RegistryTypeOK
<1>3. /\ id \in DOMAIN scopes \cup DOMAIN seeds
      /\ id \notin DOMAIN seeds => scopes'[id] = Retained(scopes[id], id, now)
      /\ id \in DOMAIN seeds /\ id \in DOMAIN scopes =>
            scopes'[id] = MergedRow(scopes[id], id, seeds[id], now)
      /\ id \in DOMAIN seeds /\ id \notin DOMAIN scopes =>
            scopes'[id] = [registration |-> seeds[id], lifecycle |-> SeedLifecycle(id, now)]
  BY DEF EnsureSourceScopes
<1> HIDE DEF seeds
<1>4. CASE id \notin DOMAIN seeds
  <2>1. id \in DOMAIN scopes /\ seeded.year \in Nat
    BY <1>3, <1>4 DEF RegistryInvariant, RegistryTypeOK
  <2>2. Precedence(scopes[id].registration) >= Precedence(scopes[id].registration)
    BY <1>2, <2>1 DEF Precedence, Row, Registration
  <2> QED
    BY <1>1, <1>2, <1>3, <1>4, <2>1, <2>2, RetainedKeeps DEF seeds
<1>5. CASE id \in DOMAIN seeds /\ id \in DOMAIN scopes
  BY <1>1, <1>2, <1>3, <1>5, MergedKeeps DEF seeds
<1>6. CASE id \in DOMAIN seeds /\ id \notin DOMAIN scopes
  BY <1>1, <1>3, <1>6, SeededRow DEF seeds
<1> QED
  BY <1>4, <1>5, <1>6

LEMMA RegistryStep == RegistryInvariant /\ [ScopesNext]_scopeVars => RegistryInvariant'
<1> SUFFICES ASSUME RegistryInvariant, [ScopesNext]_scopeVars PROVE RegistryInvariant'
  OBVIOUS
<1>1. CASE UNCHANGED scopeVars
  BY <1>1 DEF scopeVars, RegistryInvariant, RegistryTypeOK, RegistryFollowsYear
<1>2. ASSUME NEW configured \in Configurable, NEW now \in Years,
             EnsureSourceScopes(configured, now)
      PROVE  RegistryInvariant'
  <2>1. seeded' = [year |-> now, seeds |-> DOMAIN Seeds(configured, now)] /\ now \in Nat \ {0}
    BY <1>2, SeedFacts DEF EnsureSourceScopes
  <2>2. /\ scopes' = [id \in DOMAIN scopes' |-> scopes'[id]]
        /\ DOMAIN scopes' = DOMAIN scopes \cup DOMAIN Seeds(configured, now)
    BY <1>2 DEF EnsureSourceScopes
  <2>3. \A id \in DOMAIN scopes' :
           /\ id.season \in Nat /\ scopes'[id] \in Row
           /\ scopes'[id].lifecycle = "upcoming" => id.season > now
           /\ id \in DOMAIN Seeds(configured, now) /\ Past(id, now) =>
                 scopes'[id].lifecycle = "completed"
    BY <1>2, StartedRow
  <2>4. seeded'.year = now /\ seeded'.seeds = DOMAIN Seeds(configured, now)
    BY <2>1
  <2> QED
    BY <2>1, <2>2, <2>3, <2>4 DEF RegistryInvariant, RegistryTypeOK, RegistryFollowsYear, Future, Past
<1> QED
  BY <1>1, <1>2 DEF ScopesNext

LEMMA RegistryInvariantHolds == ScopesSpec => []RegistryInvariant
<1>1. ScopesInit => RegistryInvariant
  <2> SUFFICES ASSUME ScopesInit PROVE RegistryInvariant
    OBVIOUS
  <2>1. PICK held \in SUBSET Observable :
            scopes = [id \in held |-> [registration |-> "observed", lifecycle |-> "active"]]
    BY DEF ScopesInit
  <2>2. \A id \in held : id.season \in Nat
    BY ScopesAssumption DEF ScopesAssumption
  <2>3. seeded.year = 0
    BY DEF ScopesInit
  <2> QED
    BY <2>1, <2>2, <2>3
    DEF RegistryInvariant, RegistryTypeOK, RegistryFollowsYear, Row, Registration, Lifecycle
<1> QED
  BY <1>1, RegistryStep, PTL DEF ScopesSpec

(* After any start, whatever the clock showed at the earlier ones, no      *)
(* scope waits that should not, and every seeded one of a past year is     *)
(* completed.                                                              *)
THEOREM RegistryCorrect == ScopesSpec => []RegistryFollowsYear
<1>1. RegistryInvariant => RegistryFollowsYear
  BY DEF RegistryInvariant
<1> QED
  BY <1>1, RegistryInvariantHolds, PTL

(* No start forgets, reopens or demotes a scope.                           *)
THEOREM RegistryMonotone == ScopesSpec => RegistryNeverUndone
<1>1. RegistryInvariant /\ [ScopesNext]_scopeVars =>
         [\A id \in DOMAIN scopes :
            /\ id \in DOMAIN scopes'
            /\ Progress(scopes'[id].lifecycle) >= Progress(scopes[id].lifecycle)
            /\ Precedence(scopes'[id].registration) >= Precedence(scopes[id].registration)
         ]_scopeVars
  <2> SUFFICES ASSUME RegistryInvariant, NEW configured \in Configurable, NEW now \in Years,
                      EnsureSourceScopes(configured, now), NEW id \in DOMAIN scopes
               PROVE  /\ id \in DOMAIN scopes'
                      /\ Progress(scopes'[id].lifecycle) >= Progress(scopes[id].lifecycle)
                      /\ Precedence(scopes'[id].registration)
                           >= Precedence(scopes[id].registration)
    BY DEF ScopesNext
  <2>1. id \in DOMAIN scopes'
    BY DEF EnsureSourceScopes
  <2> QED
    BY <2>1, StartedRow
<1> QED
  BY <1>1, RegistryInvariantHolds, PTL DEF ScopesSpec, RegistryNeverUndone

-----------------------------------------------------------------------------
(* The syncer.  The shapes of its records; what an operation was answered  *)
(* and what a call found is left free.                                     *)
IsOperation(o) ==
    o \in [resource : Resources, mode : {"full", "targeted"}, ids : SUBSET Matches,
           at : {"ask", "penalties", "write", "end", "record"}, tries : Nat,
           answer : {o.answer}, splits : {o.splits}, recovered : BOOLEAN, ok : BOOLEAN]

IsRecovery(r) ==
    r \in [at : {"ask", "write", "record"}, tries : Nat, answer : {r.answer}]

IsCall(c) ==
    c \in [kind : {"run", "execute", "recalculate"}, sourceOnly : BOOLEAN,
           at : {"source", "qualification", "scenarios"}, found : {c.found},
           error : BOOLEAN, xgFailed : BOOLEAN, qualFailed : BOOLEAN,
           scenFailed : BOOLEAN, storeFailed : BOOLEAN]

(* A recovery runs inside the write of a games answer, and once; a call is *)
(* at its source operations, or past them.                                 *)
SyncShapes ==
    /\ op # Absent \/ recovery # Absent => IsOperation(op) /\ call.at = "source"
    /\ op # Absent \/ recovery # Absent \/ call # Absent =>
          /\ IsCall(call)
          /\ ~call.error /\ ~call.qualFailed /\ ~call.storeFailed
    /\ recovery # Absent =>
          /\ IsRecovery(recovery)
          /\ op.resource = "games" /\ op.at = "write" /\ op.recovered
    /\ returned # Absent => IsCall(returned)

LEMMA OperationFacts ==
    ASSUME NEW resource \in Resources, NEW mode \in {"full", "targeted"}, NEW ids \in SUBSET Matches
    PROVE  /\ IsOperation(Operation(resource, mode, ids))
           /\ Operation(resource, mode, ids).resource = resource
           /\ Operation(resource, mode, ids).at = "ask"
           /\ Operation(resource, mode, ids).recovered = FALSE
BY DEF IsOperation, Operation

LEMMA LeavesFacts ==
    ASSUME IsOperation(op), NEW step \in {"end", "record"}, NEW ok \in BOOLEAN,
           Leaves(step, ok)
    PROVE  /\ IsOperation(op') /\ op'.resource = op.resource /\ op'.at = step
           /\ op'.recovered = FALSE
<1>1. IsOperation(Operation(op.resource, op.mode, op.ids))
  <2>1. op.resource \in Resources /\ op.mode \in {"full", "targeted"} /\ op.ids \in SUBSET Matches
    BY DEF IsOperation
  <2> QED
    BY <2>1, OperationFacts
<1> DEFINE fresh == Operation(op.resource, op.mode, op.ids)
<1>2. fresh.resource = op.resource /\ fresh.recovered = FALSE
  BY DEF Operation
<1>3. op' = [fresh EXCEPT !.at = step, !.ok = ok]
  BY DEF Leaves
<1> HIDE DEF fresh
<1>4. IsOperation(fresh)
  BY <1>1 DEF fresh
<1> QED
  BY <1>2, <1>3, <1>4 DEF IsOperation

(* The steps inside one operation that write nothing.                      *)
Progresses ==
    \/ AskAgain \/ AskFails \/ TeamsArrive \/ GamesArrive \/ XGArrives
    \/ PenaltiesArrive \/ PenaltiesLost \/ RecoverTeams \/ WriteFails

Recovers == RecoveryAsksAgain \/ RecoveryArrives \/ RecoveryFails

Writes == WriteTeams \/ WriteGames \/ WriteXG

LEMMA ArrivesFacts ==
    ASSUME SyncShapes, NEW answer, Arrives(answer)
    PROVE  /\ op # Absent /\ recovery = Absent /\ IsOperation(op')
           /\ op'.resource = op.resource /\ op'.at \in {"penalties", "write"}
           /\ op'.recovered = op.recovered /\ op'.answer = answer
           /\ op'.splits = [m \in Answered(answer) |-> Absent]
           /\ op.at = "ask"
           /\ UNCHANGED <<store, audits, recovery>> /\ SourceStep
<1>1. op # Absent /\ recovery = Absent /\ op.at = "ask" /\ IsOperation(op)
  BY DEF Arrives, At, SyncShapes
<1> DEFINE next == IF op.resource = "xg" /\ answer # << >> THEN "penalties" ELSE "write"
           none == [m \in Answered(answer) |-> Absent]
<1>2. op' = [op EXCEPT !.tries = 0, !.answer = answer, !.at = next, !.splits = none]
  BY DEF Arrives
<1>3. next \in {"penalties", "write"}
  OBVIOUS
<1> HIDE DEF next, none
<1>4. /\ IsOperation(op')
      /\ op'.resource = op.resource /\ op'.at \in {"penalties", "write"}
      /\ op'.recovered = op.recovered /\ op'.answer = answer /\ op'.splits = none
  BY <1>1, <1>2, <1>3 DEF IsOperation
<1> QED
  BY <1>1, <1>4 DEF Arrives, none

LEMMA ProgressFacts ==
    ASSUME SyncShapes, Progresses
    PROVE  /\ op # Absent /\ recovery = Absent /\ op.at \in {"ask", "penalties", "write"}
           /\ IsOperation(op') /\ op'.resource = op.resource
           /\ op'.at \in {"ask", "penalties", "write", "record"}
           /\ UNCHANGED <<store, audits>> /\ SourceStep
           /\ \/ recovery' = Absent /\ (op'.at = "record" \/ op'.recovered = op.recovered)
              \/ /\ recovery' = TeamsRecovery /\ op.resource = "games" /\ op'.at = "write"
                 /\ op'.recovered /\ ~op.recovered
<1> USE DEF SyncShapes, At
<1>1. CASE AskAgain
  BY <1>1 DEF AskAgain, IsOperation
<1>2. ASSUME AskFails \/ WriteFails
      PROVE  /\ op # Absent /\ recovery = Absent /\ op.at \in {"ask", "write"}
             /\ Leaves("record", FALSE)
             /\ UNCHANGED <<store, audits, recovery>> /\ SourceStep
  BY <1>2 DEF AskFails, WriteFails, Fails
<1>3. CASE AskFails \/ WriteFails
  <2>1. "record" \in {"end", "record"} /\ FALSE \in BOOLEAN
    OBVIOUS
  <2> QED
    BY <1>2, <1>3, <2>1, LeavesFacts
<1>4. CASE TeamsArrive \/ GamesArrive \/ XGArrives
  <2>1. PICK answer : Arrives(answer)
    BY <1>4 DEF TeamsArrive, GamesArrive, XGArrives
  <2> QED
    BY <2>1, ArrivesFacts
<1>5. CASE PenaltiesArrive
  <2>1. PICK splits : op' = [op EXCEPT !.at = "write", !.splits = splits]
    BY <1>5 DEF PenaltiesArrive
  <2>2. op # Absent /\ recovery = Absent /\ op.at = "penalties" /\ recovery' = recovery
        /\ UNCHANGED <<store, audits>> /\ SourceStep
    BY <1>5 DEF PenaltiesArrive
  <2> QED
    BY <2>1, <2>2 DEF IsOperation
<1>6. CASE PenaltiesLost
  BY <1>6 DEF PenaltiesLost, IsOperation
<1>7. CASE RecoverTeams
  BY <1>7 DEF RecoverTeams, IsOperation
<1> QED
  BY <1>1, <1>3, <1>4, <1>5, <1>6, <1>7 DEF Progresses

LEMMA WriteFacts ==
    ASSUME SyncShapes, Writes
    PROVE  /\ op # Absent /\ recovery = Absent /\ op.at = "write"
           /\ IsOperation(op') /\ op'.resource = op.resource /\ op'.at = "end" /\ ~op'.recovered
           /\ audits' = Append(audits, Audit(op.resource, "success"))
           /\ recovery' = Absent /\ SourceStep
<1>1. op # Absent /\ recovery = Absent /\ op.at = "write" /\ Commits
  BY DEF Writes, WriteTeams, WriteGames, WriteXG, At
<1>2. "end" \in {"end", "record"} /\ TRUE \in BOOLEAN
  OBVIOUS
<1> QED
  BY <1>1, <1>2, LeavesFacts DEF Commits, SyncShapes

LEMMA RecoverFacts ==
    ASSUME SyncShapes, Recovers
    PROVE  /\ recovery # Absent /\ IsRecovery(recovery')
           /\ UNCHANGED <<store, audits, op>> /\ SourceStep
<1> USE DEF SyncShapes, RecoveryAt
<1>1. CASE RecoveryAsksAgain
  BY <1>1 DEF RecoveryAsksAgain, IsRecovery
<1>2. CASE RecoveryArrives
  <2>1. PICK found : recovery' = [recovery EXCEPT !.tries = 0, !.at = "write", !.answer = found]
    BY <1>2 DEF RecoveryArrives
  <2> QED
    BY <1>2, <2>1 DEF RecoveryArrives, IsRecovery
<1>3. CASE RecoveryFails
  BY <1>3 DEF RecoveryFails, IsRecovery, TeamsRecovery
<1> QED
  BY <1>1, <1>2, <1>3 DEF Recovers

(* What follows an operation that ended.                                   *)
LEMMA EndFacts ==
    ASSUME SyncShapes, op # Absent, recovery = Absent,
           NEW ok \in BOOLEAN, NEW refused \in BOOLEAN, OperationEnds(ok, refused)
    PROVE  /\ op' # Absent =>
                /\ IsOperation(op') /\ op'.at = "ask" /\ ~op'.recovered
                /\ \/ op.resource = "teams" /\ op'.resource = "games"
                   \/ op.resource = "games" /\ op'.resource = "xg"
                /\ IsCall(call') /\ call'.at = "source"
                /\ ~call'.error /\ ~call'.qualFailed /\ ~call'.storeFailed
                /\ returned' = returned
           /\ op' = Absent =>
                \/ /\ IsCall(call') /\ call'.at = "qualification" /\ returned' = returned
                   /\ ~call'.error /\ ~call'.qualFailed /\ ~call'.storeFailed
                \/ /\ call' = Absent /\ IsCall(returned')
                   /\ returned'.error \/ returned'.sourceOnly
           /\ ended' = ended \cup {[of |-> op.resource, ok |-> ok, refused |-> refused]}
           /\ recovery' = Absent /\ UNCHANGED <<store, derived, context, runs>>
<1>1. IsCall(call) /\ call.at = "source" /\ ~call.error /\ ~call.qualFailed /\ ~call.storeFailed
      /\ IsOperation(op)
  BY DEF SyncShapes
<1> DEFINE found == IF op.resource = "games" /\ ok THEN games ELSE call.found
           error == ~ok /\ (call.kind = "execute" \/ op.resource # "xg")
           xgFailed == ~ok /\ call.kind = "run" /\ op.resource = "xg"
           done == After(ok)
<1>2. done = [call EXCEPT !.found = found, !.error = error, !.xgFailed = xgFailed]
  BY DEF After
<1>3. error \in BOOLEAN /\ xgFailed \in BOOLEAN
  OBVIOUS
<1>4. op' = Following(done)
      /\ ended' = ended \cup {[of |-> op.resource, ok |-> ok, refused |-> refused]}
      /\ recovery' = recovery /\ UNCHANGED <<store, derived, context, runs>>
  BY DEF OperationEnds
<1>5. /\ op' # Absent => call' = done /\ returned' = returned
      /\ op' = Absent =>
            IF done.error \/ call.sourceOnly THEN call' = Absent /\ returned' = done
            ELSE call' = [done EXCEPT !.at = "qualification"] /\ returned' = returned
  BY DEF OperationEnds, Returns
<1> HIDE DEF found, error, xgFailed, done
<1>6. /\ IsCall(done) /\ done.at = "source" /\ ~done.qualFailed /\ ~done.storeFailed
      /\ done.sourceOnly = call.sourceOnly
  BY <1>1, <1>2, <1>3 DEF IsCall
<1>7. op' # Absent =>
         /\ ~done.error
         /\ \/ op.resource = "teams" /\ op' = Operation("games", "full", {})
            \/ op.resource = "games" /\ op' = Operation("xg", "full", {})
  BY <1>4 DEF Following
<1>8. IsCall([done EXCEPT !.at = "qualification"])
      /\ [done EXCEPT !.at = "qualification"].at = "qualification"
      /\ [done EXCEPT !.at = "qualification"].error = done.error
      /\ [done EXCEPT !.at = "qualification"].qualFailed = done.qualFailed
      /\ [done EXCEPT !.at = "qualification"].storeFailed = done.storeFailed
  BY <1>6 DEF IsCall
<1>9. CASE op' # Absent
  <2>1. IsOperation(op') /\ op'.at = "ask" /\ ~op'.recovered
        /\ \/ op.resource = "teams" /\ op'.resource = "games"
           \/ op.resource = "games" /\ op'.resource = "xg"
    <3> DEFINE games1 == Operation("games", "full", {})
               xg1 == Operation("xg", "full", {})
    <3>1. IsOperation(games1) /\ games1.resource = "games" /\ games1.at = "ask"
          /\ games1.recovered = FALSE
      BY DEF IsOperation, Operation, Resources
    <3>2. IsOperation(xg1) /\ xg1.resource = "xg" /\ xg1.at = "ask" /\ xg1.recovered = FALSE
      BY DEF IsOperation, Operation, Resources
    <3> HIDE DEF games1, xg1
    <3>3. \/ op.resource = "teams" /\ op' = games1
          \/ op.resource = "games" /\ op' = xg1
      BY <1>7, <1>9 DEF games1, xg1
    <3> QED
      BY <3>1, <3>2, <3>3
  <2> QED
    BY <1>4, <1>5, <1>6, <1>7, <1>9, <2>1
<1>10. CASE op' = Absent
  BY <1>4, <1>5, <1>6, <1>8, <1>10
<1> QED
  BY <1>9, <1>10

LEMMA BeginFacts ==
    ASSUME NEW c, NEW first, Begin(c, first)
    PROVE  /\ call = Absent /\ call' = c /\ op' = first /\ recovery' = Absent
           /\ audits' = << >> /\ ended' = {} /\ returned' = Absent
           /\ owner = "live" /\ owner' = "live" /\ UNCHANGED <<store, derived>>
BY DEF Begin, NoRecovery

LEMMA CallsFacts ==
    ASSUME SyncCalls
    PROVE  \E c, first :
              /\ Begin(c, first) /\ IsCall(c)
              /\ ~c.error /\ ~c.qualFailed /\ ~c.storeFailed
              /\ \/ c.at = "qualification" /\ first = Absent
                 \/ c.at = "source" /\ IsOperation(first) /\ first.at = "ask" /\ ~first.recovered
<1>1. \A kind \in {"run", "execute", "recalculate"}, only \in BOOLEAN :
         /\ IsCall(Call(kind, only)) /\ Call(kind, only).at = "source"
         /\ ~Call(kind, only).error /\ ~Call(kind, only).qualFailed
         /\ ~Call(kind, only).storeFailed
  BY DEF IsCall, Call
<1>2. CASE \E force, sourceOnly \in BOOLEAN : Run(force, sourceOnly)
  <2>1. PICK force \in BOOLEAN, sourceOnly \in BOOLEAN : Run(force, sourceOnly)
    BY <1>2
  <2> DEFINE resource == IF force THEN "teams" ELSE "games"
  <2>2. resource \in Resources /\ "full" \in {"full", "targeted"} /\ {} \in SUBSET Matches
    BY DEF Resources
  <2>3. Begin(Call("run", sourceOnly), Operation(resource, "full", {}))
    BY <2>1 DEF Run
  <2> DEFINE c == Call("run", sourceOnly)
             first == Operation(resource, "full", {})
  <2> HIDE DEF resource
  <2>4. IsCall(c) /\ c.at = "source" /\ ~c.error /\ ~c.qualFailed /\ ~c.storeFailed
    BY <1>1
  <2>5. IsOperation(first) /\ first.at = "ask" /\ ~first.recovered
    BY <2>2, OperationFacts
  <2> HIDE DEF c, first
  <2>6. Begin(c, first)
    BY <2>3 DEF c, first
  <2> QED
    BY <2>4, <2>5, <2>6
<1>3. CASE \E resource \in Resources, mode \in {"full", "targeted"}, ids \in SUBSET Matches :
              Execute(resource, mode, ids)
  <2>1. PICK resource \in Resources, mode \in {"full", "targeted"}, ids \in SUBSET Matches :
              Execute(resource, mode, ids)
    BY <1>3
  <2>2. Begin(Call("execute", TRUE), Operation(resource, mode, ids))
    BY <2>1 DEF Execute
  <2>6. resource \in Resources /\ mode \in {"full", "targeted"} /\ ids \in SUBSET Matches
    BY <2>1
  <2> DEFINE c == Call("execute", TRUE)
             first == Operation(resource, mode, ids)
  <2>3. IsCall(c) /\ c.at = "source" /\ ~c.error /\ ~c.qualFailed /\ ~c.storeFailed
    BY <1>1
  <2>4. IsOperation(first) /\ first.at = "ask" /\ ~first.recovered
    <3>1. /\ IsOperation(Operation(resource, mode, ids))
          /\ Operation(resource, mode, ids).at = "ask"
          /\ Operation(resource, mode, ids).recovered = FALSE
      BY <2>6 DEF IsOperation, Operation
    <3> HIDE DEF c
    <3> QED
      BY <3>1
  <2> HIDE DEF c, first
  <2>5. Begin(c, first)
    BY <2>2 DEF c, first
  <2> QED
    BY <2>3, <2>4, <2>5
<1>4. CASE Recalculate
  <2> DEFINE base == Call("recalculate", FALSE)
             c == [base EXCEPT !.at = "qualification", !.found = games]
  <2>2. Begin(c, Absent)
    BY <1>4 DEF Recalculate
  <2>3. /\ base.error = FALSE /\ base.qualFailed = FALSE /\ base.storeFailed = FALSE
        /\ base \in [kind : {"run", "execute", "recalculate"}, sourceOnly : BOOLEAN,
                    at : {"source", "qualification", "scenarios"}, found : {Absent},
                    error : BOOLEAN, xgFailed : BOOLEAN, qualFailed : BOOLEAN,
                    scenFailed : BOOLEAN, storeFailed : BOOLEAN]
    BY DEF Call
  <2> HIDE DEF base
  <2>1. IsCall(c) /\ c.at = "qualification" /\ ~c.error /\ ~c.qualFailed /\ ~c.storeFailed
    <3>1. /\ c.found = games /\ c.at = "qualification" /\ c.error = FALSE
          /\ c.qualFailed = FALSE /\ c.storeFailed = FALSE
      BY <2>3
    <3>2. IsCall(c)
      BY <2>3 DEF IsCall
    <3> QED
      BY <3>1, <3>2
  <2> HIDE DEF c
  <2> QED
    BY <2>1, <2>2
<1> QED
  BY <1>2, <1>3, <1>4 DEF SyncCalls

LEMMA QualifyFacts ==
    ASSUME SyncShapes, Qualify
    PROVE  /\ IsCall(call') /\ call'.at = "scenarios"
           /\ op = Absent /\ recovery = Absent
           /\ ~call'.error /\ ~call'.qualFailed /\ ~call'.storeFailed
           /\ call'.found = call.found /\ qualified' = qualified \cup {call.found}
           /\ UNCHANGED <<scenarios, returned>> /\ CalculationStep
BY DEF SyncShapes, Qualify, Calculating, IsCall

(* What a calculation that failed reports.                                 *)
LEMMA ReportFacts ==
    ASSUME NEW c, IsCall(c), ~c.qualFailed, NEW failed \in BOOLEAN
    PROVE  LET qual == [c EXCEPT !.qualFailed = TRUE, !.storeFailed = failed]
               scen == [c EXCEPT !.scenFailed = TRUE, !.storeFailed = failed] IN
           /\ IsCall(qual) /\ qual.qualFailed /\ qual.storeFailed = failed /\ qual.found = c.found
           /\ IsCall(scen) /\ ~scen.qualFailed /\ scen.storeFailed = failed
           /\ scen.found = c.found
BY DEF IsCall

LEMMA ShapesStep == SyncShapes /\ [SyncNext]_syncVars => SyncShapes'
<1> SUFFICES ASSUME SyncShapes, [SyncNext]_syncVars PROVE SyncShapes'
  OBVIOUS
<1>1. CASE SyncCalls
  <2>1. PICK c, first :
              /\ Begin(c, first) /\ IsCall(c)
              /\ ~c.error /\ ~c.qualFailed /\ ~c.storeFailed
              /\ \/ c.at = "qualification" /\ first = Absent
                 \/ c.at = "source" /\ IsOperation(first) /\ first.at = "ask" /\ ~first.recovered
    BY <1>1, CallsFacts
  <2>2. /\ call = Absent /\ call' = c /\ op' = first /\ recovery' = Absent
        /\ returned' = Absent
    BY <2>1, BeginFacts
  <2> QED
    BY <2>1, <2>2 DEF SyncShapes
<1>2. CASE Progresses
  <2>1. UNCHANGED <<call, returned>>
    BY <1>2, ProgressFacts DEF SourceStep, history
  <2>2. recovery' # Absent =>
           IsRecovery(recovery') /\ op'.resource = "games" /\ op'.at = "write" /\ op'.recovered
    BY <1>2, ProgressFacts DEF TeamsRecovery, IsRecovery
  <2> QED
    BY <1>2, <2>1, <2>2, ProgressFacts DEF SyncShapes
<1>3. CASE Writes
  <2>1. UNCHANGED <<call, returned>>
    BY <1>3, WriteFacts DEF SourceStep, history
  <2> QED
    BY <1>3, <2>1, WriteFacts DEF SyncShapes
<1>4. CASE Recovers
  <2>1. UNCHANGED <<call, returned>>
    BY <1>4, RecoverFacts DEF SourceStep, history
  <2> QED
    BY <1>4, <2>1, RecoverFacts DEF SyncShapes
<1>5. CASE RecoveryWrites
  BY <1>5 DEF RecoveryWrites, SyncShapes
<1>6. CASE RecoveryEnds
  <2>1. IsOperation(op) /\ Leaves("record", FALSE) /\ recovery' = Absent
        /\ UNCHANGED <<call, returned>> /\ recovery # Absent
    BY <1>6 DEF RecoveryEnds, Fails, RecoveryAt, SyncShapes
  <2>2. "record" \in {"end", "record"} /\ FALSE \in BOOLEAN
    OBVIOUS
  <2> QED
    BY <2>1, <2>2, LeavesFacts DEF SyncShapes
<1>7. CASE OperationSucceeds \/ OperationFails
  <2>1. PICK ok \in BOOLEAN, refused \in BOOLEAN : OperationEnds(ok, refused)
    BY <1>7 DEF OperationSucceeds, OperationFails
  <2>2. op # Absent /\ recovery = Absent
    BY <1>7 DEF OperationSucceeds, OperationFails, At
  <2> QED
    BY <2>1, <2>2, EndFacts DEF SyncShapes
<1>8. CASE Qualify
  BY <1>8, QualifyFacts DEF SyncShapes, CalculationStep
<1>9. CASE QualifyFails \/ ExplainFails
  <2>1. call # Absent /\ op = Absent /\ recovery = Absent
        /\ CalculationStep /\ call' = Absent
    BY <1>9 DEF QualifyFails, ExplainFails, Calculating, Returns, SyncShapes
  <2>2. PICK failed \in BOOLEAN :
           \/ returned' = [call EXCEPT !.qualFailed = TRUE, !.storeFailed = failed]
           \/ returned' = [call EXCEPT !.scenFailed = TRUE, !.storeFailed = failed]
    BY <1>9 DEF QualifyFails, ExplainFails, Returns
  <2>3. IsCall(call) /\ ~call.qualFailed
    BY <2>1 DEF SyncShapes
  <2>4. IsCall(returned')
    BY <2>2, <2>3 DEF IsCall
  <2> QED
    BY <2>1, <2>4 DEF SyncShapes, CalculationStep
<1>10. CASE Explain
  BY <1>10 DEF Explain, Calculating, CalculationStep, Returns, SyncShapes
<1>11. CASE DeadlinePasses \/ Shutdown \/ UNCHANGED syncVars
  BY <1>11 DEF DeadlinePasses, Shutdown, SyncShapes, syncVars, history
<1>12. CASE Restart
  BY <1>12 DEF Restart, SyncShapes
<1> QED
  BY <1>1, <1>2, <1>3, <1>4, <1>5, <1>6, <1>7, <1>8, <1>9, <1>10, <1>11, <1>12
  DEF SyncNext, Progresses, Writes, Recovers

(* A call past its status batch has it, so that whatever it returns then   *)
(* it has; that is all RunCalculates needs beside the shapes.              *)
Calculated ==
    /\ op = Absent /\ call # Absent /\ call.at = "scenarios" => call.found \in qualified
    /\ RunCalculates

LEMMA CalculatedStep == SyncShapes /\ Calculated /\ [SyncNext]_syncVars => Calculated'
<1> SUFFICES ASSUME SyncShapes, Calculated, [SyncNext]_syncVars PROVE Calculated'
  OBVIOUS
<1>1. CASE SyncCalls
  <2>1. PICK c, first : Begin(c, first) /\ (c.at = "qualification" \/ c.at = "source")
    BY <1>1, CallsFacts
  <2> QED
    BY <2>1, BeginFacts DEF Calculated, RunCalculates
<1>2. CASE Progresses \/ Writes \/ Recovers
  <2>1. SourceStep /\ (op # Absent \/ recovery # Absent)
    BY <1>2, ProgressFacts, WriteFacts, RecoverFacts DEF SyncShapes
  <2>2. call.at = "source"
    BY <2>1 DEF SyncShapes
  <2> QED
    BY <2>1, <2>2 DEF SourceStep, Calculated, RunCalculates, derived, context, history
<1>3. CASE RecoveryWrites \/ RecoveryEnds
  <2>1. UNCHANGED <<derived, context, call, returned>> /\ recovery # Absent
    BY <1>3 DEF RecoveryWrites, RecoveryEnds, RecoveryAt, SyncShapes
  <2>2. call.at = "source"
    BY <2>1 DEF SyncShapes
  <2> QED
    BY <2>1, <2>2 DEF Calculated, RunCalculates, derived, context
<1>4. CASE OperationSucceeds \/ OperationFails
  <2>1. PICK ok \in BOOLEAN, refused \in BOOLEAN : OperationEnds(ok, refused)
    BY <1>4 DEF OperationSucceeds, OperationFails
  <2>2. op # Absent /\ recovery = Absent
    BY <1>4 DEF OperationSucceeds, OperationFails, At
  <2>3. UNCHANGED <<derived, context>>
    BY <2>1, <2>2, EndFacts
  <2>4. (op' = Absent /\ call' # Absent => call'.at = "qualification")
    BY <2>1, <2>2, EndFacts
  <2>5. returned' = returned \/ returned'.error \/ returned'.sourceOnly
    BY <2>1, <2>2, EndFacts
  <2> QED
    BY <2>3, <2>4, <2>5 DEF Calculated, RunCalculates, derived, context
<1>5. CASE Qualify
  BY <1>5, QualifyFacts DEF Calculated, RunCalculates, CalculationStep, context
<1>6. CASE QualifyFails
  <2>1. /\ call # Absent /\ op = Absent /\ call' = Absent
        /\ UNCHANGED <<derived, context>>
    BY <1>6 DEF QualifyFails, Calculating, Returns, CalculationStep
  <2>2. PICK storeFails \in BOOLEAN :
           /\ storeFails \/ ~MayCalculate \/ \A m \in Matches : call.found[m] = Absent
           /\ returned' = [call EXCEPT !.qualFailed = TRUE, !.storeFailed = storeFails]
    BY <1>6 DEF QualifyFails, Returns
  <2>3. returned'.qualFailed /\ returned'.storeFailed = storeFails /\ returned'.found = call.found
    BY <2>1, <2>2, ReportFacts DEF SyncShapes
  <2> QED
    BY <2>1, <2>2, <2>3 DEF Calculated, RunCalculates, derived, context, MayCalculate, Detached
<1>7. CASE Explain
  <2>1. /\ call # Absent /\ op = Absent /\ call.at = "scenarios" /\ call' = Absent
        /\ returned' = call /\ qualified' = qualified /\ scenarios' = scenarios \cup {call.found}
    BY <1>7 DEF Explain, Calculating, Returns
  <2>2. call.found \in qualified
    BY <2>1 DEF Calculated
  <2> QED
    BY <2>1, <2>2 DEF Calculated, RunCalculates
<1>8. CASE ExplainFails
  <2>1. /\ call # Absent /\ op = Absent /\ call.at = "scenarios" /\ call' = Absent
        /\ UNCHANGED <<derived, context>>
    BY <1>8 DEF ExplainFails, Calculating, Returns, CalculationStep
  <2>2. PICK storeFails \in BOOLEAN :
           /\ storeFails \/ ~MayCalculate
           /\ returned' = [call EXCEPT !.scenFailed = TRUE, !.storeFailed = storeFails]
    BY <1>8 DEF ExplainFails, Returns
  <2>3. returned'.storeFailed = storeFails /\ returned'.found = call.found
    BY <2>1, <2>2, ReportFacts DEF SyncShapes
  <2>4. call.found \in qualified
    BY <2>1 DEF Calculated
  <2> QED
    BY <2>1, <2>2, <2>3, <2>4
    DEF Calculated, RunCalculates, derived, context, MayCalculate, Detached
<1>9. CASE DeadlinePasses \/ Shutdown \/ UNCHANGED syncVars
  BY <1>9 DEF DeadlinePasses, Shutdown, Calculated, RunCalculates, syncVars, derived, context,
              history
<1>10. CASE Restart
  BY <1>10 DEF Restart, Calculated, RunCalculates
<1> QED
  BY <1>1, <1>2, <1>3, <1>4, <1>5, <1>6, <1>7, <1>8, <1>9, <1>10
  DEF SyncNext, Progresses, Writes, Recovers

(* A split that waits to be written is within the xG it came with.         *)
SplitsBounded ==
    op # Absent /\ op.resource = "xg" /\ op.at \in {"penalties", "write"} =>
       \A m \in DOMAIN op.answer :
          \/ op.splits[m] = Absent
          \/ op.at = "write" /\ op.splits[m] <= op.answer[m]

LEMMA SplitsStep == SyncShapes /\ SplitsBounded /\ [SyncNext]_syncVars => SplitsBounded'
<1> SUFFICES ASSUME SyncShapes, SplitsBounded, [SyncNext]_syncVars PROVE SplitsBounded'
  OBVIOUS
<1>1. CASE SyncCalls
  <2>1. PICK c, first : Begin(c, first) /\ (first = Absent \/ first.at = "ask")
    BY <1>1, CallsFacts
  <2> QED
    BY <2>1, BeginFacts DEF SplitsBounded
<1>2. CASE AskAgain
  BY <1>2 DEF AskAgain, At, SplitsBounded, SyncShapes, IsOperation
<1>3. CASE AskFails \/ WriteFails \/ Writes \/ RecoveryEnds
  <2>1. IsOperation(op) /\ \E step \in {"end", "record"}, ok \in BOOLEAN : Leaves(step, ok)
    <3>1. "end" \in {"end", "record"} /\ "record" \in {"end", "record"}
          /\ TRUE \in BOOLEAN /\ FALSE \in BOOLEAN
      OBVIOUS
    <3>2. IsOperation(op)
      BY <1>3 DEF AskFails, WriteFails, Writes, WriteTeams, WriteGames, WriteXG, RecoveryEnds,
                  RecoveryAt, At, SyncShapes
    <3>3. Leaves("end", TRUE) \/ Leaves("record", FALSE)
      BY <1>3 DEF AskFails, WriteFails, Writes, WriteTeams, WriteGames, WriteXG, RecoveryEnds,
                  Fails, Commits
    <3> QED
      BY <3>1, <3>2, <3>3
  <2>2. op'.at \in {"end", "record"}
    BY <2>1, LeavesFacts
  <2> QED
    BY <2>2 DEF SplitsBounded
<1>4. CASE TeamsArrive \/ GamesArrive \/ XGArrives
  <2>1. PICK answer : Arrives(answer)
    BY <1>4 DEF TeamsArrive, GamesArrive, XGArrives
  <2>2. op'.answer = answer /\ op'.splits = [m \in Answered(answer) |-> Absent]
    BY <2>1, ArrivesFacts
  <2> QED
    BY <2>2 DEF SplitsBounded, Answered
<1>5. CASE PenaltiesArrive
  <2>1. PICK rows \in [Answered(op.answer) -> PenaltyRows] :
           op' = [op EXCEPT !.at = "write",
                            !.splits = [m \in Answered(op.answer) |->
                                           Split(rows[m], op.answer[m])]]
    BY <1>5 DEF PenaltiesArrive
  <2>2. IsOperation(op)
    BY <1>5 DEF PenaltiesArrive, At, SyncShapes
  <2>3. op'.at = "write" /\ op'.answer = op.answer
        /\ op'.splits = [m \in Answered(op.answer) |-> Split(rows[m], op.answer[m])]
    BY <2>1, <2>2 DEF IsOperation
  <2>4. \A m \in DOMAIN op.answer :
           op'.splits[m] = Absent \/ op'.splits[m] <= op.answer[m]
    BY <2>3 DEF Answered, Split, AcceptedSplit
  <2> QED
    BY <2>3, <2>4 DEF SplitsBounded
<1>6. CASE PenaltiesLost
  <2>1. IsOperation(op) /\ op # Absent /\ op.at = "penalties"
    BY <1>6 DEF PenaltiesLost, At, SyncShapes
  <2>2. op'.resource = op.resource /\ op'.answer = op.answer /\ op'.splits = op.splits
        /\ op'.at = "write"
    BY <1>6, <2>1 DEF PenaltiesLost, IsOperation
  <2> QED
    BY <2>1, <2>2 DEF SplitsBounded
<1>7. CASE RecoverTeams
  BY <1>7 DEF RecoverTeams, At, SplitsBounded, SyncShapes, IsOperation
<1>8. CASE OperationSucceeds \/ OperationFails
  <2>1. PICK ok \in BOOLEAN, refused \in BOOLEAN : OperationEnds(ok, refused)
    BY <1>8 DEF OperationSucceeds, OperationFails
  <2>2. op # Absent /\ recovery = Absent
    BY <1>8 DEF OperationSucceeds, OperationFails, At
  <2> QED
    BY <2>1, <2>2, EndFacts DEF SplitsBounded
<1>9. CASE \/ Recovers \/ RecoveryWrites \/ Qualify \/ QualifyFails \/ Explain \/ ExplainFails
           \/ DeadlinePasses \/ Shutdown \/ UNCHANGED syncVars
  <2>1. op' = op
    BY <1>9 DEF Recovers, RecoveryAsksAgain, RecoveryArrives, RecoveryFails, RecoveryWrites, Qualify,
       QualifyFails, Explain, ExplainFails, CalculationStep, DeadlinePasses, Shutdown, syncVars
  <2> QED
    BY <2>1 DEF SplitsBounded
<1>10. CASE Restart
  BY <1>10 DEF Restart, SplitsBounded
<1> QED
  BY <1>1, <1>2, <1>3, <1>4, <1>5, <1>6, <1>7, <1>8, <1>9, <1>10
  DEF SyncNext, Writes, Recovers

(* The one step that writes xG, for one match.                             *)
LEMMA SplitWritten ==
    ASSUME SyncShapes, SplitsBounded, WriteXG, NEW m \in Matches,
           xg[m] # Absent, xg'[m] # Absent, xg'[m].split # xg[m].split
    PROVE  xg'[m].split # Absent /\ xg'[m].split <= xg'[m].value
<1>1. /\ op # Absent /\ op.resource = "xg" /\ op.at = "write"
      /\ xg' = XGAfter(op.mode, op.ids, op.answer, op.splits)
  BY DEF WriteXG, At
<1>2. \A k \in DOMAIN op.answer : op.splits[k] = Absent \/ op.splits[k] <= op.answer[k]
  BY <1>1 DEF SplitsBounded
<1>3. xg'[m] # xg[m]
  OBVIOUS
<1>4. /\ m \in DOMAIN op.answer
      /\ xg'[m] = [value |-> op.answer[m], split |-> WrittenSplit(xg[m], op.splits[m])]
  BY <1>1, <1>3 DEF XGAfter, Answered
<1>5. /\ xg'[m].value = op.answer[m]
      /\ xg'[m].split = WrittenSplit(xg[m], op.splits[m])
  BY <1>4
<1>6. op.splits[m] # Absent /\ xg'[m].split = op.splits[m]
  BY <1>5 DEF WrittenSplit
<1> QED
  BY <1>2, <1>4, <1>5, <1>6

LEMMA OthersKeepSplits ==
    ASSUME SyncShapes, [SyncNext]_syncVars, ~WriteXG, NEW m \in Matches, xg'[m] # Absent
    PROVE  xg'[m] = xg[m]
<1>1. CASE SyncCalls
  BY <1>1, CallsFacts, BeginFacts DEF store
<1>2. CASE Progresses \/ Recovers
  BY <1>2, ProgressFacts, RecoverFacts DEF store
<1>3. CASE WriteGames
  BY <1>3 DEF WriteGames, Orphaned
<1>4. CASE WriteTeams \/ RecoveryWrites \/ RecoveryEnds \/ Restart
  BY <1>4 DEF WriteTeams, RecoveryWrites, RecoveryEnds, Restart, store
<1>5. CASE OperationSucceeds \/ OperationFails
  BY <1>5 DEF OperationSucceeds, OperationFails, OperationEnds, store
<1>6. CASE Qualify \/ QualifyFails \/ Explain \/ ExplainFails
  BY <1>6 DEF Qualify, QualifyFails, Explain, ExplainFails, CalculationStep, store
<1>7. CASE DeadlinePasses \/ Shutdown \/ UNCHANGED syncVars
  BY <1>7 DEF DeadlinePasses, Shutdown, syncVars, store
<1> QED
  BY <1>1, <1>2, <1>3, <1>4, <1>5, <1>6, <1>7 DEF SyncNext, Progresses, Recovers

(* The audits of one kind of operation, and what they must say.            *)
Kinds == Resources \cup {"recovery"}
AuditRow == [of : Kinds, outcome : {"success", "failure"}]
EndedRow == [of : Kinds, ok : BOOLEAN, refused : BOOLEAN]

Own(trail, of) == {i \in DOMAIN trail : trail[i].of = of}

Says(trail, of, result) == \E i \in DOMAIN trail : Own(trail, of) = {i} /\ trail[i].outcome = result

Told(trail, e) ==
    IF e.refused THEN Own(trail, e.of) = {}
    ELSE Says(trail, e.of, IF e.ok THEN "success" ELSE "failure")

Untouched(of) == Own(audits, of) = {} /\ \A e \in ended : e.of # of

(* An operation in progress has no audit before its transaction, nor have  *)
(* the operations that may still follow it in this call.                   *)
Trail ==
    /\ audits \in Seq(AuditRow) /\ ended \subseteq EndedRow
    /\ \A e \in ended : Told(audits, e)
    /\ op # Absent \/ recovery # Absent =>
          /\ \A e \in ended : e.of # op.resource
          /\ op.at # "end" => Untouched(op.resource)
          /\ op.at = "end" => Says(audits, op.resource, "success")
          /\ op.resource = "teams" => Untouched("games") /\ Untouched("recovery")
          /\ op.resource # "xg" => Untouched("xg")
          /\ op.resource = "games" /\ op.at \notin {"end", "record"} /\ ~op.recovered =>
                Untouched("recovery")
    /\ recovery # Absent => Untouched("recovery")

LEMMA AppendOwn ==
    ASSUME NEW trail \in Seq(AuditRow), NEW row \in AuditRow
    PROVE  /\ Append(trail, row) \in Seq(AuditRow)
           /\ \A of : of # row.of => Own(Append(trail, row), of) = Own(trail, of)
           /\ \A of, result : of # row.of /\ Says(trail, of, result) =>
                 Says(Append(trail, row), of, result)
           /\ Own(trail, row.of) = {} => Says(Append(trail, row), row.of, row.outcome)
<1> DEFINE longer == Append(trail, row)
           last == Len(trail) + 1
<1>1. /\ longer \in Seq(AuditRow) /\ Len(trail) \in Nat
      /\ DOMAIN longer = DOMAIN trail \cup {last} /\ last \notin DOMAIN trail
      /\ longer[last] = row
      /\ \A i \in DOMAIN trail : longer[i] = trail[i]
  OBVIOUS
<1> HIDE DEF longer, last
<1>2. \A of : of # row.of => Own(longer, of) = Own(trail, of)
  BY <1>1 DEF Own
<1>3. \A of, result : of # row.of /\ Says(trail, of, result) => Says(longer, of, result)
  BY <1>1, <1>2 DEF Says
<1>4. Own(trail, row.of) = {} => Own(longer, row.of) = {last}
  BY <1>1 DEF Own
<1>5. Own(trail, row.of) = {} => Says(longer, row.of, row.outcome)
  BY <1>1, <1>4 DEF Says
<1> QED
  BY <1>1, <1>2, <1>3, <1>5 DEF longer

LEMMA AuditFacts ==
    ASSUME NEW of \in Kinds, NEW result \in {"success", "failure"}
    PROVE  /\ Audit(of, result) \in AuditRow
           /\ Audit(of, result).of = of /\ Audit(of, result).outcome = result
BY DEF Audit, AuditRow

(* An audit of a kind nothing has ended of leaves what is told of others,  *)
(* and no kind touched but its own.                                        *)
LEMMA TrailGrows ==
    ASSUME audits \in Seq(AuditRow), ended \subseteq EndedRow, \A e \in ended : Told(audits, e),
           NEW of \in Kinds, NEW result \in {"success", "failure"}, Untouched(of),
           audits' = Append(audits, Audit(of, result))
    PROVE  /\ audits' \in Seq(AuditRow)
           /\ \A e \in ended : Told(audits', e) /\ e.of # of
           /\ Says(audits', of, result)
           /\ \A other : other # of => Own(audits', other) = Own(audits, other)
           /\ \A other, r : other # of /\ Says(audits, other, r) => Says(audits', other, r)
<1> DEFINE row == Audit(of, result)
<1>1. row \in AuditRow /\ row.of = of /\ row.outcome = result
  BY AuditFacts
<1> HIDE DEF row
<1>2. audits' = Append(audits, row)
  BY DEF row
<1>3. /\ audits' \in Seq(AuditRow)
      /\ \A other : other # of => Own(audits', other) = Own(audits, other)
      /\ \A other, r : other # of /\ Says(audits, other, r) => Says(audits', other, r)
      /\ Own(audits, of) = {} => Says(audits', of, result)
  BY <1>1, <1>2, AppendOwn
<1>4. Own(audits, of) = {} /\ \A e \in ended : e.of # of
  BY DEF Untouched
<1>5. ASSUME NEW e \in ended PROVE Told(audits', e)
  BY <1>3, <1>4, <1>5 DEF Told
<1> QED
  BY <1>3, <1>4, <1>5

(* The end of an operation of a kind nothing has ended of before: its own  *)
(* failure audit, or none where the store refuses it.                      *)
LEMMA FailureTold ==
    ASSUME audits \in Seq(AuditRow), ended \subseteq EndedRow, \A e \in ended : Told(audits, e),
           NEW of \in Kinds, NEW refused \in BOOLEAN, Untouched(of), Recorded(of, refused),
           ended' = ended \cup {[of |-> of, ok |-> FALSE, refused |-> refused]}
    PROVE  /\ audits' \in Seq(AuditRow) /\ ended' \subseteq EndedRow
           /\ \A e \in ended' : Told(audits', e)
           /\ \A other : other # of /\ Untouched(other) => Untouched(other)'
<1> DEFINE own == [of |-> of, ok |-> FALSE, refused |-> refused]
<1>1. own \in EndedRow /\ own.of = of /\ own.ok = FALSE /\ own.refused = refused
      /\ ended' = ended \cup {own}
  BY DEF EndedRow
<1> HIDE DEF own
<1>2. CASE refused
  <2>1. audits' = audits
    BY <1>2 DEF Recorded
  <2>2. own.refused
    BY <1>1, <1>2
  <2>3. Told(audits, own)
    BY <1>1, <2>2 DEF Told, Untouched
  <2> QED
    BY <1>1, <2>1, <2>3 DEF Untouched
<1>3. CASE ~refused
  <2>1. audits' = Append(audits, Audit(of, "failure"))
    BY <1>3 DEF Recorded, Recording, MayRecord
  <2>2. /\ audits' \in Seq(AuditRow) /\ Says(audits', of, "failure")
        /\ \A e \in ended : Told(audits', e) /\ e.of # of
        /\ \A other : other # of => Own(audits', other) = Own(audits, other)
    BY <2>1, TrailGrows
  <2>3. ~own.refused /\ ~own.ok
    BY <1>1, <1>3
  <2>4. Told(audits', own)
    BY <1>1, <2>2, <2>3 DEF Told
  <2> QED
    BY <1>1, <2>2, <2>4 DEF Untouched
<1> QED
  BY <1>2, <1>3

LEMMA TrailStep == SyncShapes /\ Trail /\ [SyncNext]_syncVars => Trail'
<1> SUFFICES ASSUME SyncShapes, Trail, [SyncNext]_syncVars PROVE Trail'
  OBVIOUS
<1>t. audits \in Seq(AuditRow) /\ ended \subseteq EndedRow /\ \A e \in ended : Told(audits, e)
  BY DEF Trail
<1>k. /\ "recovery" \in Kinds /\ "games" \in Kinds
      /\ op # Absent \/ recovery # Absent => op.resource \in Resources /\ op.resource \in Kinds
      /\ "recovery" \notin Resources
  BY DEF Kinds, Resources, SyncShapes, IsOperation
<1>1. CASE SyncCalls
  <2>1. PICK c, first : Begin(c, first) /\ (first = Absent \/ first.at = "ask")
    BY <1>1, CallsFacts
  <2>2. audits' = << >> /\ ended' = {} /\ op' = first /\ recovery' = Absent
    BY <2>1, BeginFacts
  <2>3. audits' \in Seq(AuditRow) /\ DOMAIN audits' = {}
    BY <2>2
  <2>4. \A of : Untouched(of)'
    BY <2>2, <2>3 DEF Untouched, Own
  <2> QED
    BY <2>1, <2>2, <2>3, <2>4 DEF Trail
<1>2. CASE Progresses
  <2>1. /\ op # Absent /\ recovery = Absent /\ op.at \in {"ask", "penalties", "write"}
        /\ audits' = audits /\ ended' = ended
        /\ op'.resource = op.resource /\ op'.at \in {"ask", "penalties", "write", "record"}
        /\ \/ recovery' = Absent /\ (op'.at = "record" \/ op'.recovered = op.recovered)
           \/ op.resource = "games" /\ ~op.recovered /\ op'.recovered
    BY <1>2, ProgressFacts DEF SourceStep, history
  <2>2. \A of : Untouched(of) => Untouched(of)'
    BY <2>1 DEF Untouched
  <2> QED
    BY <2>1, <2>2 DEF Trail
<1>3. CASE Writes
  <2>1. /\ op # Absent /\ recovery = Absent /\ op.at = "write"
        /\ op'.resource = op.resource /\ op'.at = "end" /\ ended' = ended
        /\ audits' = Append(audits, Audit(op.resource, "success")) /\ recovery' = Absent
    BY <1>3, WriteFacts DEF SourceStep, history
  <2>2. Untouched(op.resource) /\ op.resource \in Kinds /\ "success" \in {"success", "failure"}
    BY <1>k, <2>1 DEF Trail
  <2>3. /\ audits' \in Seq(AuditRow) /\ Says(audits', op.resource, "success")
        /\ \A e \in ended : Told(audits', e) /\ e.of # op.resource
        /\ \A other : other # op.resource => Own(audits', other) = Own(audits, other)
    BY <1>t, <2>1, <2>2, TrailGrows
  <2>4. \A other : other # op.resource /\ Untouched(other) => Untouched(other)'
    BY <2>1, <2>3 DEF Untouched
  <2>5. op.resource \in Resources /\ "recovery" \notin Resources
    BY <1>k, <2>1
  <2> QED
    BY <1>t, <2>1, <2>3, <2>4, <2>5 DEF Trail
<1>4. CASE Recovers
  <2>1. recovery # Absent /\ UNCHANGED <<audits, ended, op>>
    BY <1>4, RecoverFacts DEF SourceStep, history
  <2>2. \A of : Untouched(of) => Untouched(of)'
    BY <2>1 DEF Untouched
  <2> QED
    BY <2>1, <2>2 DEF Trail
<1>5. CASE RecoveryWrites
  <2> DEFINE own == [of |-> "recovery", ok |-> TRUE, refused |-> FALSE]
  <2>1. /\ recovery # Absent /\ recovery' = Absent /\ op' = op
        /\ audits' = Append(audits, Audit("recovery", "success")) /\ ended' = ended \cup {own}
        /\ op.resource = "games" /\ op.at = "write" /\ op.recovered
    BY <1>5 DEF RecoveryWrites, RecoveryAt, SyncShapes
  <2>2. Untouched("recovery") /\ "success" \in {"success", "failure"}
    BY <2>1 DEF Trail
  <2>3. /\ audits' \in Seq(AuditRow) /\ Says(audits', "recovery", "success")
        /\ \A e \in ended : Told(audits', e) /\ e.of # "recovery"
        /\ \A other : other # "recovery" => Own(audits', other) = Own(audits, other)
    BY <1>k, <1>t, <2>1, <2>2, TrailGrows
  <2>4. own \in EndedRow /\ own.of = "recovery" /\ own.ok /\ ~own.refused
    BY DEF EndedRow, Kinds
  <2> HIDE DEF own
  <2>5. Told(audits', own)
    BY <2>3, <2>4 DEF Told
  <2>6. \A other : other # "recovery" /\ Untouched(other) => Untouched(other)'
    BY <2>1, <2>3, <2>4 DEF Untouched
  <2>7. /\ \A e \in ended' : Told(audits', e) /\ e.of # op.resource
        /\ ended' \subseteq EndedRow
    BY <1>t, <2>1, <2>3, <2>4, <2>5 DEF Trail
  <2> QED
    BY <2>1, <2>3, <2>6, <2>7 DEF Trail
<1>6. CASE RecoveryEnds
  <2>1. PICK refused \in BOOLEAN :
           /\ Recorded("recovery", refused)
           /\ ended' = ended \cup {[of |-> "recovery", ok |-> FALSE, refused |-> refused]}
    BY <1>6 DEF RecoveryEnds
  <2>2. /\ recovery # Absent /\ recovery' = Absent /\ Leaves("record", FALSE) /\ IsOperation(op)
        /\ op.resource = "games" /\ op.at = "write"
    BY <1>6 DEF RecoveryEnds, RecoveryAt, Fails, SyncShapes
  <2>3. op'.resource = "games" /\ op'.at = "record"
    <3>1. "record" \in {"end", "record"} /\ FALSE \in BOOLEAN
      OBVIOUS
    <3> QED
      BY <2>2, <3>1, LeavesFacts
  <2>4. Untouched("recovery") /\ Untouched("games") /\ Untouched("xg")
    BY <2>2 DEF Trail
  <2>5. /\ audits' \in Seq(AuditRow) /\ ended' \subseteq EndedRow
        /\ \A e \in ended' : Told(audits', e)
        /\ \A other : other # "recovery" /\ Untouched(other) => Untouched(other)'
    BY <1>k, <1>t, <2>1, <2>4, FailureTold
  <2>6. Untouched("games")' /\ Untouched("xg")'
    BY <2>4, <2>5
  <2> QED
    BY <2>2, <2>3, <2>5, <2>6 DEF Trail, Untouched
<1>7. CASE OperationSucceeds
  <2> DEFINE own == [of |-> op.resource, ok |-> TRUE, refused |-> FALSE]
  <2>1. op # Absent /\ recovery = Absent /\ op.at = "end" /\ audits' = audits
        /\ OperationEnds(TRUE, FALSE)
    BY <1>7 DEF OperationSucceeds, At
  <2>2. TRUE \in BOOLEAN /\ FALSE \in BOOLEAN
    OBVIOUS
  <2>3. /\ ended' = ended \cup {own} /\ recovery' = Absent
        /\ op' # Absent => op'.at = "ask" /\ ~op'.recovered
        /\ op' # Absent => \/ op.resource = "teams" /\ op'.resource = "games"
                           \/ op.resource = "games" /\ op'.resource = "xg"
    BY <2>1, <2>2, EndFacts
  <2>4. own \in EndedRow /\ own.of = op.resource /\ own.ok /\ ~own.refused
    BY <1>k, <2>1 DEF EndedRow
  <2> HIDE DEF own
  <2>5. Says(audits, op.resource, "success")
    BY <2>1 DEF Trail
  <2>6. Told(audits', own)
    BY <2>1, <2>4, <2>5 DEF Told
  <2>7. \A other : other # op.resource /\ Untouched(other) => Untouched(other)'
    BY <2>1, <2>3, <2>4 DEF Untouched
  <2>8. op.resource = "teams" =>
           Untouched("games")' /\ Untouched("recovery")' /\ Untouched("xg")'
    BY <2>1, <2>7 DEF Trail
  <2>9. op.resource = "games" => Untouched("xg")'
    BY <2>1, <2>7 DEF Trail
  <2>10. audits' \in Seq(AuditRow) /\ ended' \subseteq EndedRow
         /\ \A e \in ended' : Told(audits', e)
    BY <1>t, <2>1, <2>3, <2>4, <2>6
  <2> QED
    BY <2>3, <2>8, <2>9, <2>10 DEF Trail, Untouched
<1>8. CASE OperationFails
  <2>1. PICK refused \in BOOLEAN :
           Recorded(op.resource, refused) /\ OperationEnds(FALSE, refused)
    BY <1>8 DEF OperationFails
  <2>2. op # Absent /\ recovery = Absent /\ op.at = "record" /\ FALSE \in BOOLEAN
    BY <1>8 DEF OperationFails, At
  <2>3. /\ ended' = ended \cup {[of |-> op.resource, ok |-> FALSE, refused |-> refused]}
        /\ recovery' = Absent
        /\ op' # Absent => op'.at = "ask" /\ ~op'.recovered
        /\ op' # Absent => \/ op.resource = "teams" /\ op'.resource = "games"
                           \/ op.resource = "games" /\ op'.resource = "xg"
    BY <2>1, <2>2, EndFacts
  <2>4. Untouched(op.resource) /\ op.resource \in Kinds
    BY <1>k, <2>2 DEF Trail
  <2>5. /\ audits' \in Seq(AuditRow) /\ ended' \subseteq EndedRow
        /\ \A e \in ended' : Told(audits', e)
        /\ \A other : other # op.resource /\ Untouched(other) => Untouched(other)'
    BY <1>t, <2>1, <2>3, <2>4, FailureTold
  <2>6. op.resource = "teams" =>
           Untouched("games")' /\ Untouched("recovery")' /\ Untouched("xg")'
    BY <2>2, <2>5 DEF Trail
  <2>7. op.resource = "games" => Untouched("xg")'
    BY <2>2, <2>5 DEF Trail
  <2> QED
    BY <2>3, <2>5, <2>6, <2>7 DEF Trail, Untouched
<1>9. CASE \/ Qualify \/ QualifyFails \/ Explain \/ ExplainFails
           \/ DeadlinePasses \/ Shutdown \/ UNCHANGED syncVars
  <2>1. UNCHANGED <<audits, ended, op, recovery>>
    BY <1>9 DEF Qualify, QualifyFails, Explain, ExplainFails, CalculationStep, DeadlinePasses,
                Shutdown, syncVars, history
  <2>2. \A of : Untouched(of) => Untouched(of)'
    BY <2>1 DEF Untouched
  <2> QED
    BY <2>1, <2>2 DEF Trail
<1>10. CASE Restart
  <2>1. audits' = << >> /\ ended' = {} /\ op' = Absent /\ recovery' = Absent
    BY <1>10 DEF Restart
  <2>2. audits' \in Seq(AuditRow)
    BY <2>1
  <2> QED
    BY <2>1, <2>2 DEF Trail
<1> QED
  BY <1>1, <1>2, <1>3, <1>4, <1>5, <1>6, <1>7, <1>8, <1>9, <1>10
  DEF SyncNext, Progresses, Writes, Recovers

SyncInvariant == SyncShapes /\ Calculated /\ SplitsBounded /\ Trail

LEMMA SyncInvariantHolds == SyncSpec => []SyncInvariant
<1>1. SyncInit => SyncInvariant
  <2> SUFFICES ASSUME SyncInit PROVE SyncInvariant
    OBVIOUS
  <2>1. SyncShapes /\ Calculated /\ SplitsBounded
    BY DEF SyncInit, NoRecovery, SyncShapes, Calculated, RunCalculates, SplitsBounded
  <2>2. Trail
    BY DEF SyncInit, NoRecovery, Trail
  <2> QED
    BY <2>1, <2>2 DEF SyncInvariant
<1>2. SyncInvariant /\ [SyncNext]_syncVars => SyncInvariant'
  BY ShapesStep, CalculatedStep, SplitsStep, TrailStep DEF SyncInvariant
<1> QED
  BY <1>1, <1>2, PTL DEF SyncSpec

(* Whatever failed and wherever, every operation that ended has left its   *)
(* one audit, and the audit tells the truth.                               *)
THEOREM AuditsCorrect == SyncSpec => []AuditsTell
<1>1. SyncInvariant => AuditsTell
  BY DEF SyncInvariant, Trail, AuditsTell, Told, Says, Own
<1> QED
  BY <1>1, SyncInvariantHolds, PTL

(* No call returns without its batches unless it says why.                 *)
THEOREM CalculationCorrect == SyncSpec => []RunCalculates
<1>1. SyncInvariant => RunCalculates
  BY DEF SyncInvariant, Calculated
<1> QED
  BY <1>1, SyncInvariantHolds, PTL

(* A stored penalty split is only replaced by an accepted one.             *)
THEOREM SplitsCorrect == SyncSpec => SplitsKept
<1>1. SyncInvariant /\ [SyncNext]_syncVars =>
         [\A m \in Matches :
             xg[m] # Absent /\ xg'[m] # Absent /\ xg'[m].split # xg[m].split =>
                /\ xg'[m].split # Absent
                /\ xg'[m].split <= xg'[m].value
         ]_syncVars
  <2> SUFFICES ASSUME SyncInvariant, [SyncNext]_syncVars, NEW m \in Matches,
                      xg[m] # Absent, xg'[m] # Absent, xg'[m].split # xg[m].split
               PROVE  xg'[m].split # Absent /\ xg'[m].split <= xg'[m].value
    OBVIOUS
  <2>1. xg'[m] # xg[m]
    OBVIOUS
  <2>2. WriteXG
    BY <2>1, OthersKeepSplits DEF SyncInvariant
  <2> QED
    BY <2>2, SplitWritten DEF SyncInvariant
<1> QED
  BY <1>1, SyncInvariantHolds, PTL DEF SyncSpec, SplitsKept
=============================================================================
