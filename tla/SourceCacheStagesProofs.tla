----------------------- MODULE SourceCacheStagesProofs -----------------------
(***************************************************************************)
(* The two stages of SourceCacheStages.  A behaviour of the cup is a       *)
(* behaviour of SourceCache, whose facts carry over.  The bracket is       *)
(* another instance; all its wake-up needs is that times are numbers and   *)
(* that game writes commit in order.                                       *)
(***************************************************************************)
EXTENDS SourceCacheStages, SourceCacheProofs

CupInvariant == stage = "cup" => TypeOK /\ InventoryComplete

(* What the cup stores always meets its expectation, whatever responses    *)
(* are merged into it row by row.                                          *)
THEOREM CupCorrect == StagesSpec => []CupComplete
<1>1. StagesInit => CupInvariant
  <2>1. Init => TypeOK
    BY DEF Init, TypeOK
  <2>2. ASSUME Init PROVE DOMAIN PairOf(games) = {}
    BY <2>2 DEF Init, PairOf, Cached
  <2> QED
    BY <2>1, <2>2 DEF StagesInit, CupInvariant, InventoryComplete, MeetsExpectation
<1>2. CupInvariant /\ [StagesNext]_<<stage, vars>> => CupInvariant'
  <2> SUFFICES ASSUME CupInvariant, [StagesNext]_<<stage, vars>>, stage' = "cup"
               PROVE  TypeOK' /\ InventoryComplete'
    BY DEF CupInvariant
  <2>1. stage = "cup" /\ [Next]_vars
    BY DEF StagesNext
  <2> QED
    BY <2>1, TypeStep, CompleteStep DEF CupInvariant
<1>3. CupInvariant => CupComplete
  BY DEF CupInvariant, CupComplete
<1> QED
  BY <1>1, <1>2, <1>3, PTL DEF StagesSpec

-----------------------------------------------------------------------------
(* The bracket.                                                            *)
BracketTimes ==
    /\ lastRun # Absent => lastRun.at \in Nat
    /\ "games" \in DOMAIN scope
    /\ scope["games"] # Absent => scope["games"].success \in Nat

LEMMA BracketLast ==
    ASSUME InOrder, BracketTimes, NEW at \in Bracket!Finish
    PROVE  /\ at \in Nat \ {0}
           /\ \A table : Bracket!RunAfter(at, table) = [at |-> at, snapshot |-> Bracket!SnapshotID(table)]
           /\ scope["games"] # Absent => scope["games"].success <= at
<1> DEFINE run == IF lastRun = Absent THEN 0 ELSE lastRun.at
           full == IF scope["games"] = Absent THEN 0 ELSE scope["games"].success
<1>1. run \in Nat /\ full \in Nat
  BY DEF BracketTimes
<1>2. at \in Nat \ {0}
  BY ConstantFacts DEF Bracket!Finish, Bracket!Times
<1>3. at >= (IF run < full THEN full ELSE run)
  BY DEF Bracket!Finish, Bracket!LatestGames, Bracket!Later, Bracket!Never
<1> HIDE DEF run, full
<1>4. run <= at /\ full <= at
  BY <1>1, <1>2, <1>3
<1>5. /\ lastRun # Absent => at >= lastRun.at
      /\ scope["games"] # Absent => scope["games"].success <= at
  <2>1. lastRun # Absent => at >= lastRun.at
    BY <1>1, <1>2, <1>4 DEF run
  <2>2. scope["games"] # Absent => scope["games"].success <= at
    BY <1>4 DEF full
  <2> QED
    BY <2>1, <2>2
<1> QED
  BY <1>2, <1>5 DEF Bracket!RunAfter

(* A full refresh: it is at most as old as the run, and only moves on.     *)
LEMMA BracketRefreshed ==
    ASSUME NEW old, NEW at \in Nat \ {0}, NEW due, NEW changed, NEW few,
           old # Absent => old.success \in Nat /\ old.success <= at
    PROVE  /\ Woken(old, Bracket!Refreshed(old, at, due), changed, few, at)
           /\ LET new == Bracket!Refreshed(old, at, due)
              IN  /\ new # Absent => new.success \in Nat
                  /\ old # Absent => new = old \/ new.success > old.success
<1>1. CASE old = Absent
  BY <1>1 DEF Bracket!Refreshed, Woken
<1>2. CASE old # Absent /\ at > old.success
  BY <1>2 DEF Bracket!Refreshed, Woken
<1>3. CASE old # Absent /\ ~(at > old.success)
  <2>1. old.success = at
    BY <1>3
  <2> QED
    BY <1>3, <2>1 DEF Bracket!Refreshed, Woken
<1> QED
  BY <1>1, <1>2, <1>3

LEMMA BracketPolled ==
    ASSUME NEW old, NEW at \in Nat \ {0}, NEW table,
           old # Absent => old.success \in Nat
    PROVE  /\ Woken(old, Bracket!Accelerated(old, at, table),
                    Bracket!SnapshotID(games) # Bracket!SnapshotID(table),
                    Bracket!Cardinality(Bracket!Cached(table)) < 2, at)
           /\ LET new == Bracket!Accelerated(old, at, table)
              IN  new # Absent => new.success \in Nat
<1> DEFINE changed == Bracket!SnapshotID(games) # Bracket!SnapshotID(table)
           few == Bracket!Cardinality(Bracket!Cached(table)) < 2
<1>1. CASE changed /\ few
  <2>1. Bracket!Accelerated(old, at, table)
          = [success |-> IF old = Absent THEN 0 ELSE old.success, due |-> at]
    BY <1>1 DEF Bracket!Accelerated, Bracket!Never
  <2> HIDE DEF changed, few
  <2>2. Woken(old, [success |-> IF old = Absent THEN 0 ELSE old.success, due |-> at], changed, few, at)
    BY <1>1 DEF Woken, Never
  <2> QED
    BY <2>1, <2>2 DEF changed, few
<1>2. CASE ~(changed /\ few)
  <2>1. Bracket!Accelerated(old, at, table) = old
    BY <1>2 DEF Bracket!Accelerated
  <2> HIDE DEF changed, few
  <2>2. Woken(old, old, changed, few, at)
    BY <1>2 DEF Woken
  <2> QED
    BY <2>1, <2>2 DEF changed, few
<1> QED
  BY <1>1, <1>2

BracketFacts == BracketTimes' /\ Bracket!Revisited

LEMMA BracketSame ==
    ASSUME BracketTimes, UNCHANGED <<games, lastRun>>, "games" \in DOMAIN scope',
           scope'["games"] = scope["games"]
    PROVE  BracketFacts
BY DEF BracketTimes, BracketFacts, Bracket!Revisited, Bracket!SnapshotID

LEMMA BracketDiscovery ==
    ASSUME InOrder, BracketTimes, NEW at \in Bracket!Finish, NEW due, Bracket!EmptyDiscovery(at, due)
    PROVE  BracketFacts
<1> DEFINE old == scope["games"]
<1>1. /\ scope' = [scope EXCEPT !["games"] = Bracket!Refreshed(@, at, due)]
      /\ UNCHANGED <<games, lastRun>>
  BY DEF Bracket!EmptyDiscovery
<1>2. scope'["games"] = Bracket!Refreshed(old, at, due) /\ "games" \in DOMAIN scope'
  BY <1>1 DEF BracketTimes
<1>3. /\ scope'["games"] # Absent => scope'["games"].success \in Nat
      /\ old # Absent => scope'["games"] = old \/ scope'["games"].success > old.success
  BY <1>2, BracketLast, BracketRefreshed DEF BracketTimes
<1>4. Bracket!SnapshotID(games) = Bracket!SnapshotID(games')
  BY <1>1 DEF Bracket!SnapshotID
<1> QED
  BY <1>1, <1>2, <1>3, <1>4 DEF BracketTimes, BracketFacts, Bracket!Revisited

LEMMA BracketWritten ==
    ASSUME BracketTimes, NEW at \in Nat \ {0}, NEW table, games' = table, lastRun'.at = at,
           "games" \in DOMAIN scope', scope'["games"] # Absent => scope'["games"].success \in Nat,
           Woken(scope["games"], scope'["games"], Bracket!SnapshotID(games) # Bracket!SnapshotID(table),
                 Bracket!Cardinality(Bracket!Cached(table)) < 2, at)
    PROVE  BracketFacts
<1>1. BracketTimes'
  BY DEF BracketTimes
<1>2. Woken(scope["games"], scope'["games"], Bracket!SnapshotID(games) # Bracket!SnapshotID(games'),
            Bracket!Cardinality(Bracket!Cached(games')) < 2, lastRun'.at)
  OBVIOUS
<1>3. Bracket!Revisited
  BY <1>2 DEF Woken, Bracket!Revisited, Bracket!Never, Never
<1> QED
  BY <1>1, <1>3 DEF BracketFacts

LEMMA BracketInventory ==
    ASSUME InOrder, BracketTimes, NEW resp, NEW at \in Bracket!Finish, NEW due,
           Bracket!ReplaceGameInventory(resp, at, due)
    PROVE  BracketFacts
<1> DEFINE table == Bracket!Inventory(resp)
<1>1. /\ games' = table /\ lastRun' = Bracket!RunAfter(at, table)
      /\ scope' = [scope EXCEPT !["games"] = Bracket!Refreshed(@, at, due)]
  BY DEF Bracket!ReplaceGameInventory
<1>2. /\ scope'["games"] = Bracket!Refreshed(scope["games"], at, due)
      /\ "games" \in DOMAIN scope'
  BY <1>1 DEF BracketTimes
<1> HIDE DEF table
<1>3. lastRun'.at = at /\ at \in Nat \ {0}
  BY <1>1, BracketLast
<1>4. scope["games"] # Absent => scope["games"].success \in Nat /\ scope["games"].success <= at
  BY BracketLast DEF BracketTimes
<1> QED
  BY <1>1, <1>2, <1>3, <1>4, BracketRefreshed, BracketWritten

LEMMA BracketPoll ==
    ASSUME InOrder, BracketTimes, NEW req, NEW resp, NEW at \in Bracket!Finish, NEW due, NEW materialDue,
           Bracket!UpsertCheckedGames(req, resp, at, due, materialDue)
    PROVE  BracketFacts
<1> DEFINE table == Bracket!TargetedTable(resp)
<1>1. /\ games' = table /\ lastRun' = Bracket!RunAfter(at, table)
      /\ scope' = [scope EXCEPT !["games"] = Bracket!Accelerated(@, at, table)]
  BY DEF Bracket!UpsertCheckedGames
<1>2. /\ scope'["games"] = Bracket!Accelerated(scope["games"], at, table)
      /\ "games" \in DOMAIN scope'
  BY <1>1 DEF BracketTimes
<1> HIDE DEF table
<1>3. lastRun'.at = at /\ at \in Nat \ {0}
  BY <1>1, BracketLast
<1>4. scope["games"] # Absent => scope["games"].success \in Nat
  BY DEF BracketTimes
<1> QED
  BY <1>1, <1>2, <1>3, <1>4, BracketPolled, BracketWritten

LEMMA BracketStep == InOrder /\ BracketTimes /\ Bracket!Next => BracketFacts
<1> SUFFICES ASSUME InOrder, BracketTimes, Bracket!Next PROVE BracketFacts
  OBVIOUS
<1>1. ASSUME NEW batch, NEW at, NEW due, Bracket!UpsertTeams(batch, at, due) PROVE BracketFacts
  <2>1. UNCHANGED <<games, lastRun>> /\ "games" \in DOMAIN scope' /\ scope'["games"] = scope["games"]
    BY <1>1 DEF Bracket!UpsertTeams, BracketTimes
  <2> QED
    BY <2>1, BracketSame
<1>2. ASSUME NEW resp, NEW at, NEW due, Bracket!ReplaceStageXG(resp, at, due) PROVE BracketFacts
  <2>1. UNCHANGED <<games, lastRun>> /\ "games" \in DOMAIN scope' /\ scope'["games"] = scope["games"]
    BY <1>2 DEF Bracket!ReplaceStageXG, BracketTimes
  <2> QED
    BY <2>1, BracketSame
<1>3. ASSUME NEW req, NEW resp, NEW at, NEW due, NEW materialDue,
             Bracket!UpsertCheckedXG(req, resp, at, due, materialDue)
      PROVE  BracketFacts
  <2>1. UNCHANGED <<games, lastRun, scope>>
    BY <1>3 DEF Bracket!UpsertCheckedXG
  <2> QED
    BY <2>1, BracketSame DEF BracketTimes
<1> QED
  BY <1>1, <1>2, <1>3, BracketDiscovery, BracketInventory, BracketPoll DEF Bracket!Next

(* While the bracket lacks matches, a run that changes its fixtures leaves *)
(* full discovery due at once, and only a later success takes that back.   *)
THEOREM WakeCorrect == InOrder => (StagesSpec => BracketWoken)
<1> SUFFICES ASSUME InOrder PROVE StagesSpec => BracketWoken
  OBVIOUS
<1> DEFINE Sound == stage = "bracket" => BracketTimes
<1>1. StagesInit => Sound
  BY DEF StagesInit, Init, BracketTimes, Resources
<1>2. Sound /\ [StagesNext]_<<stage, vars>> => Sound' /\ [stage = "bracket" => Bracket!Revisited]_<<stage, vars>>
  <2> SUFFICES ASSUME Sound, [StagesNext]_<<stage, vars>>, stage = "bracket" \/ stage' = "bracket"
               PROVE  /\ BracketTimes'
                      /\ [stage = "bracket" => Bracket!Revisited]_<<stage, vars>>
    BY DEF StagesNext
  <2>1. CASE UNCHANGED <<stage, vars>>
    BY <2>1 DEF vars, BracketTimes
  <2>2. CASE StagesNext
    <3>1. stage = "bracket" /\ Bracket!Next
      BY <2>2 DEF StagesNext
    <3> QED
      BY <3>1, BracketStep DEF BracketFacts
  <2> QED
    BY <2>1, <2>2
<1> HIDE DEF Sound
<1> QED
  BY <1>1, <1>2, PTL DEF StagesSpec, BracketWoken
=============================================================================
