----------------------------- MODULE SourceSync -----------------------------
(***************************************************************************)
(* The syncer (src/internal/syncer): one source operation after another,   *)
(* each one request to ASA, a validation, one transaction and one audit;   *)
(* the compatibility run of cmd/sync, which strings teams, games and xG    *)
(* together and calculates what follows from them; and the recalculation   *)
(* from the cache.  Anything may fail: ASA, the store, the recording of    *)
(* the failure; the caller's deadline may pass and the owner of the        *)
(* process may shut it down at any step.                                   *)
(*                                                                         *)
(* The stores are those of SourceCache, cut down to what an operation      *)
(* decides by: one stage, whose matches have fixed teams; observations     *)
(* here finish in the order of the operations.                             *)
(***************************************************************************)
EXTENDS Integers, FiniteSets, Sequences

CONSTANTS
    Matches, Teams,
    Sides,         \* the two teams of each match
    Values,        \* xG a side may have, naturals
    Catalogs,      \* answers to a teams request: nonempty sets of teams
    Inventories,   \* answers to a games request: functions from matches to statuses
    PenaltyRows,   \* answers to a penalty request, for one match
    Attempts,      \* 1 + the retry delays of the ASA client
    Verified,      \* is a verified inventory of the stage known?
    Rooted,        \* does the process have an owner that may shut it down?
    MaxRuns,       \* bound on the calls of the service
    Absent

VARIABLES
    catalog, games, xg,   \* the store: teams, matches (published with every change), xG
    qualified, scenarios,          \* inventories with a complete batch
    audits,        \* source_refresh_audits of the current call, in order
    caller, owner, \* the contexts: live or over
    call,          \* the service call in progress, with what it will return
    op,            \* the source operation in progress
    recovery,      \* the teams operation inside a games operation
    returned,       \* what the last call returned
    ended,         \* the operations the current call has ended
    runs           \* counter of the bound

store   == <<catalog, games, xg>>
derived == <<qualified, scenarios>>
context == <<caller, owner>>
history == <<returned, ended, runs>>
syncVars == <<store, derived, audits, context, call, op, recovery, history>>

Resources == {"teams", "games", "xg"}

ASSUME SyncAssumption ==
    /\ \A m \in Matches : Sides[m] \subseteq Teams /\ Cardinality(Sides[m]) = 2
    /\ Catalogs \subseteq SUBSET Teams /\ {} \notin Catalogs
    /\ Attempts \in Nat \ {0}
    /\ MaxRuns \in Nat
    /\ {Verified, Rooted} \subseteq BOOLEAN

Live == caller = "live" /\ owner = "live"
Cached == {m \in Matches : games[m] # Absent}
Answered(a) == DOMAIN a

-----------------------------------------------------------------------------
(* What a validated response does to the store.                            *)

(* preferIncomingGame, for rows that differ in their status only.          *)
Preferred(old, new) == IF old = "FullTime" THEN old ELSE new

Replaced(answer) ==                    \* ReplaceGameInventory
    [m \in Matches |-> IF m \in Answered(answer) THEN Preferred(games[m], answer[m])
                       ELSE Absent]

Patched(answer) ==                     \* UpsertCheckedGames
    [m \in Matches |-> IF m \in Answered(answer) THEN Preferred(games[m], answer[m])
                       ELSE games[m]]

Written(mode, answer) == IF mode = "full" THEN Replaced(answer) ELSE Patched(answer)

KnownTeams(answer) == \A m \in Answered(answer) : Sides[m] \subseteq catalog

(* The rejections of the cache other than unknown teams.                   *)
GamesRefused(mode, ids, answer) ==
    \/ mode = "full" /\ Answered(answer) = {} /\ Cached # {}
    \/ mode = "full" /\ Verified /\ Answered(answer) \notin {{}, Matches}
    \/ mode = "targeted" /\ ~(ids \subseteq Cached /\ Answered(answer) \subseteq ids)

XGRefused(mode, ids, answer) ==
    \/ \E m \in Answered(answer) : games[m] # "FullTime"
    \/ mode = "targeted" /\ ~(\A m \in ids : games[m] = "FullTime")
    \/ mode = "targeted" /\ ~(Answered(answer) \subseteq ids)

(* validatePenaltyGame: both rows, mirrored, within the match's xG.        *)
SplitUnbounded(rows, value) ==          \* slip: the last condition is missing
    IF rows.count = 2 /\ rows.mirrored THEN rows.xg ELSE Absent

AcceptedSplit(rows, value) ==
    IF rows.count = 2 /\ rows.mirrored /\ rows.xg <= value THEN rows.xg ELSE Absent

Split(rows, value) == AcceptedSplit(rows, value)

(* An omitted match keeps its value, or gets the unavailable marker; a     *)
(* split that was not observed keeps the stored one.                       *)
WrittenSplit(old, new) == IF new = Absent /\ old # Absent THEN old.split ELSE new

Marker == [value |-> Absent, split |-> Absent]

XGAfter(mode, ids, answer, splits) ==
    LET Row(m) ==
          IF m \in Answered(answer)
          THEN [value |-> answer[m], split |-> WrittenSplit(xg[m], splits[m])]
          ELSE IF xg[m] = Absent THEN Marker ELSE xg[m]
        checked == IF mode = "full" THEN {m \in Matches : games[m] = "FullTime"} ELSE ids IN
    [m \in Matches |-> IF m \in checked THEN Row(m) ELSE xg[m]]

(* xG rows go with their match (foreign key).                              *)
Orphaned(table) == [m \in Matches |-> IF table[m] = Absent THEN Absent ELSE xg[m]]

-----------------------------------------------------------------------------
(* Calls and operations.                                                   *)

Operation(resource, mode, ids) ==
    [resource |-> resource, mode |-> mode, ids |-> ids, at |-> "ask", tries |-> 0,
     answer |-> Absent, splits |-> Absent, recovered |-> FALSE, ok |-> FALSE]

NoRecovery == Absent
TeamsRecovery == [at |-> "ask", tries |-> 0, answer |-> Absent]

Call(kind, sourceOnly) ==
    [kind |-> kind, sourceOnly |-> sourceOnly, at |-> "source",
     found |-> Absent, error |-> FALSE, xgFailed |-> FALSE, qualFailed |-> FALSE,
     scenFailed |-> FALSE, storeFailed |-> FALSE]

SyncInit ==
    /\ catalog = {}
    /\ games = [m \in Matches |-> Absent]
    /\ xg = [m \in Matches |-> Absent]
    /\ qualified = {} /\ scenarios = {}
    /\ audits = << >> /\ ended = {}
    /\ caller = "live" /\ owner = "live"
    /\ call = Absent /\ op = Absent /\ recovery = NoRecovery
    /\ returned = Absent /\ runs = 0

Begin(c, first) ==
    /\ call = Absent /\ owner = "live"
    /\ runs < MaxRuns /\ runs' = runs + 1
    /\ caller' = "live"
    /\ call' = c /\ op' = first /\ recovery' = NoRecovery
    /\ audits' = << >> /\ ended' = {} /\ returned' = Absent
    /\ UNCHANGED <<store, derived, owner>>

(* cmd/sync: force asks for the teams first.                               *)
Run(force, sourceOnly) ==
    Begin(Call("run", sourceOnly),
          Operation(IF force THEN "teams" ELSE "games", "full", {}))

(* A job of the scheduler; normalizeOperation refuses any other form.      *)
Execute(resource, mode, ids) ==
    /\ resource = "teams" => mode = "full"
    /\ ids = {} <=> mode = "full"
    /\ Begin(Call("execute", TRUE), Operation(resource, mode, ids))

(* Recalculate: ClinchingInputs loads the last publication and its matches *)
(* in one transaction; without a publication the call only fails.  Force   *)
(* computes again what is there already.                                   *)
Recalculate ==
    /\ Cached # {}
    /\ Begin([Call("recalculate", FALSE) EXCEPT !.at = "qualification", !.found = games],
             Absent)

-----------------------------------------------------------------------------
(* The request.  A transient failure is tried again, at most Attempts      *)
(* times in all and never once the context is over.                        *)

MayAsk(tries) == Live /\ tries < Attempts

At(step) == op # Absent /\ recovery = Absent /\ op.at = step
RecoveryAt(step) == recovery # Absent /\ recovery.at = step

(* The answer is dropped with the request it came from.                    *)
Leaves(step, ok) == op' = [Operation(op.resource, op.mode, op.ids) EXCEPT !.at = step, !.ok = ok]
Fails == Leaves("record", FALSE)

SourceStep == UNCHANGED <<derived, context, call, history>>

AskAgain ==
    /\ At("ask") /\ MayAsk(op.tries)
    /\ op' = [op EXCEPT !.tries = @ + 1]
    /\ UNCHANGED <<store, audits, recovery>> /\ SourceStep

(* Refused for good, undecodable, invalid rows, retries used up, context   *)
(* over.                                                                   *)
AskFails ==
    /\ At("ask") /\ Fails
    /\ UNCHANGED <<store, audits, recovery>> /\ SourceStep

Arrives(answer) ==
    /\ At("ask") /\ MayAsk(op.tries)
    /\ op' = [op EXCEPT !.tries = 0, !.answer = answer,
                        !.at = IF op.resource = "xg" /\ answer # << >>
                               THEN "penalties" ELSE "write",
                        !.splits = [m \in Answered(answer) |-> Absent]]
    /\ UNCHANGED <<store, audits, recovery>> /\ SourceStep

TeamsArrive == /\ At("ask") /\ op.resource = "teams"
               /\ \E found \in Catalogs : Arrives([t \in found |-> t])
GamesArrive == /\ At("ask") /\ op.resource = "games"
               /\ \E answer \in Inventories :
                     /\ op.mode = "targeted" => Answered(answer) \subseteq op.ids
                     /\ Arrives(answer)
XGArrives   == /\ At("ask") /\ op.resource = "xg"
               /\ \E rated \in SUBSET Matches : \E value \in [rated -> Values] :
                     Arrives(value)

(* The one penalty request of an xG operation: whatever goes wrong with it *)
(* is absorbed.                                                            *)
PenaltiesArrive ==
    /\ At("penalties") /\ Live
    /\ \E rows \in [Answered(op.answer) -> PenaltyRows] :
          op' = [op EXCEPT !.at = "write",
                           !.splits = [m \in Answered(op.answer) |->
                                          Split(rows[m], op.answer[m])]]
    /\ UNCHANGED <<store, audits, recovery>> /\ SourceStep

PenaltiesLost ==
    /\ At("penalties")
    /\ op' = [op EXCEPT !.at = "write"]
    /\ UNCHANGED <<store, audits, recovery>> /\ SourceStep

-----------------------------------------------------------------------------
(* The write: one transaction with its success audit, or nothing at all.   *)
Audit(of, result) == [of |-> of, outcome |-> result]

Commits == /\ Leaves("end", TRUE)
           /\ audits' = Append(audits, Audit(op.resource, "success"))
           /\ UNCHANGED recovery /\ SourceStep

WriteTeams ==
    /\ At("write") /\ op.resource = "teams" /\ Live
    /\ catalog' = catalog \cup Answered(op.answer)
    /\ Commits /\ UNCHANGED <<games, xg>>

(* A recovered answer meets the same check again.                          *)
WriteGames ==
    /\ At("write") /\ op.resource = "games" /\ Live
    /\ ~GamesRefused(op.mode, op.ids, op.answer)
    /\ KnownTeams(op.answer)
    /\ games' = Written(op.mode, op.answer)
    /\ xg' = Orphaned(games')
    /\ Commits /\ UNCHANGED catalog

WriteXG ==
    /\ At("write") /\ op.resource = "xg" /\ Live
    /\ ~XGRefused(op.mode, op.ids, op.answer)
    /\ xg' = XGAfter(op.mode, op.ids, op.answer, op.splits)
    /\ Commits /\ UNCHANGED <<catalog, games>>

(* Unknown teams: the answer stays in memory while the catalog is asked    *)
(* for, once; then the same write again, without another games request.    *)
RecoverTeams ==
    /\ At("write") /\ op.resource = "games" /\ Live
    /\ ~GamesRefused(op.mode, op.ids, op.answer)
    /\ ~KnownTeams(op.answer) /\ ~op.recovered
    /\ op' = [op EXCEPT !.recovered = TRUE]
    /\ recovery' = TeamsRecovery
    /\ UNCHANGED <<store, audits>> /\ SourceStep

(* The cache refuses the answer, the store fails, or the context is over.  *)
WriteFails ==
    /\ At("write") /\ Fails
    /\ UNCHANGED <<store, audits, recovery>> /\ SourceStep

-----------------------------------------------------------------------------
(* The recovery is an operation of its own, with its own audit; when it    *)
(* fails, the games operation around it fails too.                         *)
RecoveryAsksAgain ==
    /\ RecoveryAt("ask") /\ MayAsk(recovery.tries)
    /\ recovery' = [recovery EXCEPT !.tries = @ + 1]
    /\ UNCHANGED <<store, audits, op>> /\ SourceStep

RecoveryArrives ==
    /\ RecoveryAt("ask") /\ MayAsk(recovery.tries)
    /\ \E found \in Catalogs :
          recovery' = [recovery EXCEPT !.tries = 0, !.at = "write", !.answer = found]
    /\ UNCHANGED <<store, audits, op>> /\ SourceStep

RecoveryWrites ==
    /\ RecoveryAt("write") /\ Live
    /\ catalog' = catalog \cup recovery.answer
    /\ audits' = Append(audits, Audit("recovery", "success"))
    /\ recovery' = Absent
    /\ ended' = ended \cup {[of |-> "recovery", ok |-> TRUE, refused |-> FALSE]}
    /\ UNCHANGED <<games, xg, op, derived, context, call, returned, runs>>

RecoveryFails ==
    /\ RecoveryAt("ask") \/ RecoveryAt("write")
    /\ recovery' = [TeamsRecovery EXCEPT !.at = "record"]
    /\ UNCHANGED <<store, audits, op>> /\ SourceStep

-----------------------------------------------------------------------------
(* The end of an operation: a failure is recorded under the caller's       *)
(* context, or under a fresh one when that is over.                        *)
MayRecord == TRUE
MayRecordLive == Live              \* slip: the dead context is used

Recording == MayRecord

Recorded(of, refused) ==
    IF refused \/ ~Recording THEN UNCHANGED audits
    ELSE audits' = Append(audits, Audit(of, "failure"))

Returns(c) == call' = Absent /\ returned' = c

After(ok) ==
    [call EXCEPT !.found = IF op.resource = "games" /\ ok THEN games ELSE @,
                 !.error = ~ok /\ (call.kind = "execute" \/ op.resource # "xg"),
                 !.xgFailed = ~ok /\ call.kind = "run" /\ op.resource = "xg"]

(* Run: teams when forced, then games, then xG if something is published.  *)
Following(c) ==
    IF c.kind = "execute" \/ c.error THEN Absent
    ELSE IF op.resource = "teams" THEN Operation("games", "full", {})
    ELSE IF op.resource = "games" /\ Cached # {} THEN Operation("xg", "full", {})
    ELSE Absent

OperationEnds(ok, refused) ==
    /\ ended' = ended \cup {[of |-> op.resource, ok |-> ok, refused |-> refused]}
    /\ op' = Following(After(ok))
    /\ IF op' # Absent THEN call' = After(ok) /\ UNCHANGED returned
       ELSE IF After(ok).error \/ call.sourceOnly THEN Returns(After(ok))
       ELSE call' = [After(ok) EXCEPT !.at = "qualification"] /\ UNCHANGED returned
    /\ UNCHANGED <<store, derived, context, recovery, runs>>

OperationSucceeds == At("end") /\ OperationEnds(TRUE, FALSE) /\ UNCHANGED audits

OperationFails ==
    /\ At("record")
    /\ \E refused \in BOOLEAN :
          Recorded(op.resource, refused) /\ OperationEnds(FALSE, refused)

RecoveryEnds ==
    /\ RecoveryAt("record")
    /\ \E refused \in BOOLEAN :
          /\ Recorded("recovery", refused)
          /\ ended' = ended \cup {[of |-> "recovery", ok |-> FALSE, refused |-> refused]}
    /\ recovery' = Absent
    /\ Fails
    /\ UNCHANGED <<store, derived, context, call, returned, runs>>

-----------------------------------------------------------------------------
(* What follows from the matches: the status batch, then the scenarios,    *)
(* each under its own budget, cut off from the caller's deadline but not   *)
(* from the owner of the process.  An exhausted budget still publishes.    *)
Detached == owner = "live"
Inherited == Live                  \* slip: the caller's deadline counts

MayCalculate == Detached

Calculating(stage) == call # Absent /\ call.at = stage /\ op = Absent

CalculationStep == UNCHANGED <<store, context, audits, op, recovery, ended, runs>>

Qualify ==                         \* computed, or found current
    /\ Calculating("qualification") /\ MayCalculate
    /\ \E m \in Matches : call.found[m] # Absent
    /\ qualified' = qualified \cup {call.found}
    /\ call' = [call EXCEPT !.at = "scenarios"]
    /\ UNCHANGED <<scenarios, returned>> /\ CalculationStep

(* The store fails, the owner is gone, or the discovery was empty: there   *)
(* is no snapshot to calculate for.                                        *)
QualifyFails ==
    /\ Calculating("qualification")
    /\ \E storeFails \in BOOLEAN :
          /\ storeFails \/ ~MayCalculate \/ \A m \in Matches : call.found[m] = Absent
          /\ Returns([call EXCEPT !.qualFailed = TRUE, !.storeFailed = storeFails])
    /\ UNCHANGED derived /\ CalculationStep

Explain ==
    /\ Calculating("scenarios") /\ MayCalculate
    /\ scenarios' = scenarios \cup {call.found}
    /\ Returns(call)
    /\ UNCHANGED qualified /\ CalculationStep

ExplainFails ==
    /\ Calculating("scenarios")
    /\ \E storeFails \in BOOLEAN :
          /\ storeFails \/ ~MayCalculate
          /\ Returns([call EXCEPT !.scenFailed = TRUE, !.storeFailed = storeFails])
    /\ UNCHANGED derived /\ CalculationStep

-----------------------------------------------------------------------------
DeadlinePasses ==
    /\ call # Absent /\ caller = "live" /\ caller' = "over"
    /\ UNCHANGED <<store, derived, audits, owner, call, op, recovery, history>>

Shutdown ==
    /\ Rooted /\ owner = "live" /\ owner' = "over"
    /\ UNCHANGED <<store, derived, audits, caller, call, op, recovery, history>>

(* The process ends, wherever it was, and the next one starts.             *)
Restart ==
    /\ call # Absent \/ owner = "over"
    /\ call' = Absent /\ op' = Absent /\ recovery' = Absent
    /\ owner' = "live" /\ caller' = "live" /\ returned' = Absent
    /\ audits' = << >> /\ ended' = {}
    /\ UNCHANGED <<store, derived, runs>>

SyncCalls ==
    \/ \E force, sourceOnly \in BOOLEAN : Run(force, sourceOnly)
    \/ \E resource \in Resources, mode \in {"full", "targeted"}, ids \in SUBSET Matches :
          Execute(resource, mode, ids)
    \/ Recalculate

SyncNext ==
    \/ SyncCalls
    \/ AskAgain \/ AskFails \/ TeamsArrive \/ GamesArrive \/ XGArrives
    \/ PenaltiesArrive \/ PenaltiesLost
    \/ WriteTeams \/ WriteGames \/ WriteXG \/ RecoverTeams \/ WriteFails
    \/ RecoveryAsksAgain \/ RecoveryArrives \/ RecoveryWrites \/ RecoveryFails
    \/ RecoveryEnds \/ OperationSucceeds \/ OperationFails
    \/ Qualify \/ QualifyFails \/ Explain \/ ExplainFails
    \/ DeadlinePasses \/ Shutdown \/ Restart

SyncSpec == SyncInit /\ [][SyncNext]_syncVars

-----------------------------------------------------------------------------
(* The audits tell what happened: whatever went wrong, and wherever, each  *)
(* operation that ended, the team recovery inside a games operation too,   *)
(* left exactly one audit and it says whether the store was written; only  *)
(* a store that refuses the failure audit itself loses one                 *)
(* (operations.go, the deferred operationFailure).                         *)
AuditsTell ==
    \A e \in ended :
       LET own == {i \in DOMAIN audits : audits[i].of = e.of} IN
       IF e.refused THEN own = {}
       ELSE \E i \in DOMAIN audits :
               own = {i} /\ audits[i].outcome = IF e.ok THEN "success" ELSE "failure"

(* A call that returns without reporting a failure has calculated: after a *)
(* run or a recalculation the matches it found have their status batch and *)
(* their scenarios, also when they were unchanged and an earlier call left *)
(* the batches missing, when xG failed, or when the caller's deadline      *)
(* passed; and only a failing store or the end of the process excuses it   *)
(* (refreshCalculations, lifetime.Detach).                                 *)
RunCalculates ==
    returned # Absent =>
       LET asked == ~returned.sourceOnly /\ ~returned.error
                    /\ \E m \in Matches : returned.found[m] # Absent IN
       /\ asked /\ ~returned.storeFailed /\ owner = "live" =>
             returned.found \in qualified \cap scenarios
       /\ asked /\ ~returned.qualFailed => returned.found \in qualified

(* Penalty splits: a stored split is replaced only by an accepted one,     *)
(* never above the xG it came with, and never lost while its match stays   *)
(* (attachPenaltySplits, the "not observed" split of the cache).           *)
SplitsKept ==
    [][\A m \in Matches :
          xg[m] # Absent /\ xg'[m] # Absent /\ xg'[m].split # xg[m].split =>
             /\ xg'[m].split # Absent
             /\ xg'[m].split <= xg'[m].value
      ]_syncVars
=============================================================================
