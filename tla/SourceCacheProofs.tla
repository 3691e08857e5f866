-------------------------- MODULE SourceCacheProofs --------------------------
(***************************************************************************)
(* Theorems about SourceCache for every set of matches, teams, values and  *)
(* times.  The inductive invariant is TypeOK, the foreign-key facts the    *)
(* database enforces by cascading deletes, and the venue facts; then the   *)
(* ledgers of observations, what readers are given, the refinement of      *)
(* StageLedger, and the wake-up of an incomplete bracket.                  *)
(***************************************************************************)
EXTENDS SourceCache, TLAPS

-----------------------------------------------------------------------------
(* Types of the operators.                                                 *)

LEMMA ConstantFacts ==
    /\ MaxTime \in Nat \ {0}
    /\ Deadlines \subseteq Nat
    /\ Absent \notin GameRow /\ Absent \notin CheckRow /\ Absent \notin XGRow
    /\ Absent \notin ScopeRow /\ Absent \notin VenueRow /\ Absent \notin RunRow
    /\ Absent \notin Fixture /\ Absent \notin Values /\ Absent \notin Splits
    /\ \A batch \in TeamBatches : batch \subseteq Teams
    /\ \A p \in Pairs : p[1] \in Teams /\ p[2] \in Teams
BY ConstantsAssumption DEF ConstantsAssumption

LEMMA TimeTypes ==
    /\ Times \subseteq Moments
    /\ Moments \subseteq Dues
    /\ Never \in Moments
    /\ Times \subseteq Nat \ {0}
    /\ Moments \subseteq Nat
    /\ Dues \subseteq Nat
BY ConstantFacts DEF Times, Moments, Dues, Never

LEMMA LaterType ==
    ASSUME NEW x \in Moments, NEW y \in Moments
    PROVE  /\ Later(x, y) \in Moments
           /\ x \in Times \/ y \in Times => Later(x, y) \in Times
           /\ Later(x, y) >= x
           /\ Later(x, y) >= y
BY TimeTypes DEF Later, Times, Moments

LEMMA EarliestType ==
    ASSUME NEW x \in Moments, NEW y \in Times
    PROVE  /\ Earliest(x, y) \in Times
           /\ Earliest(x, y) <= y
BY TimeTypes DEF Earliest, Times, Moments, Never

(* A response names known matches and carries rows of the right shape.     *)
LEMMA ResponseType ==
    ASSUME NEW rows, NEW resp \in Responses(rows)
    PROVE  /\ DOMAIN resp \subseteq Games
           /\ \A g \in DOMAIN resp : resp[g] \in rows
BY DEF Responses

LEMMA CheckedType ==
    ASSUME NEW old \in CheckRow \cup {Absent}, NEW at \in Times, NEW due \in Dues,
           NEW preserve \in BOOLEAN, NEW seen \in BOOLEAN, NEW material \in BOOLEAN
    PROVE  Checked(old, at, due, preserve, seen, material) \in CheckRow
<1>1. CASE old = Absent
  BY <1>1, TimeTypes DEF Checked, CheckRow
<1>2. CASE old # Absent
  <2>1. old \in CheckRow
    BY <1>2
  <2>2. /\ Later(old.checked, at) \in Times
        /\ Earliest(old.first, at) \in Moments
        /\ Later(old.changed, at) \in Moments
    <3>1. /\ old.checked \in Times /\ old.checked \in Moments
          /\ old.first \in Moments /\ old.changed \in Moments
          /\ at \in Moments
      BY <2>1, TimeTypes DEF CheckRow
    <3>2. Earliest(old.first, at) \in Moments
      BY <3>1, EarliestType, TimeTypes
    <3> QED
      BY <3>1, <3>2, LaterType
  <2> QED
    BY <1>2, <2>1, <2>2 DEF Checked, CheckRow
<1> QED
  BY <1>1, <1>2

LEMMA RefreshedType ==
    ASSUME NEW old \in ScopeRow \cup {Absent}, NEW at \in Times, NEW due \in Dues
    PROVE  Refreshed(old, at, due) \in ScopeRow
BY TimeTypes DEF Refreshed, ScopeRow

LEMMA FixtureType ==
    ASSUME NEW row \in GameRow
    PROVE  FixtureOf(row) \in Fixture
BY DEF GameRow, Fixture, FixtureOf

LEMMA RunType ==
    ASSUME NEW table \in [Games -> GameRow \cup {Absent}], NEW at \in Times,
           lastRun \in RunRow \cup {Absent}
    PROVE  RunAfter(at, table) \in RunRow
<1>1. SnapshotID(table) \in [Games -> Fixture \cup {Absent}]
  BY FixtureType DEF SnapshotID
<1> QED
  BY <1>1 DEF RunAfter, RunRow

LEMMA VenueGamesType ==
    ASSUME NEW table \in [Games -> GameRow \cup {Absent}],
           NEW values \in [Games -> XGRow \cup {Absent}],
           NEW invalid \in BOOLEAN, venue \in VenueRow \cup {Absent}
    PROVE  /\ Results(table) \subseteq Games \X {Goals[d] : d \in Details}
           /\ Rated(table, values) \subseteq Games \X Values
           /\ Summary \in VenueRow
           /\ VenueAfterGames(table, values, invalid) \in VenueRow
<1>1. Results(table) \subseteq Games \X {Goals[d] : d \in Details}
  <2>1. \A g \in {h \in Games : FullTime(table[h])} : table[g].detail \in Details
    BY DEF FullTime, GameRow
  <2> QED
    BY <2>1 DEF Results
<1>2. Rated(table, values) \subseteq Games \X Values
  BY DEF Rated, Available, XGRow
<1>3. Summary \in VenueRow
  BY DEF Summary, EmptyVenue, VenueRow
<1>4. VenueAfterGames(table, values, invalid) \in VenueRow
  BY <1>1, <1>2, <1>3 DEF VenueAfterGames, VenueRow
<1> QED
  BY <1>1, <1>2, <1>3, <1>4

(* A row holding an available value meets the table's CHECK constraint.    *)
LEMMA AvailableRow ==
    ASSUME NEW p \in Pairs, NEW v \in Values, NEW s \in Splits \cup {Absent},
           NEW first \in Times, NEW checked \in Times
    PROVE  [available |-> TRUE, pair |-> p, value |-> v, split |-> s,
            first |-> first, checked |-> checked] \in XGRow
BY ConstantFacts, TimeTypes DEF XGRow, Never

LEMMA WrittenType ==
    ASSUME TypeOK, NEW g \in Games, games[g] # Absent, NEW v \in XGValue, NEW at \in Times
    PROVE  WriteAvailable(g, v, at) \in XGRow
<1>1. games[g].pair \in Pairs
  BY DEF TypeOK, GameRow
<1>2. v.value \in Values /\ v.value # Absent /\ v.split \in Splits \cup {Absent}
  BY ConstantFacts DEF XGValue
<1>3. CASE ~XGAccepted(xg[g], at)
  BY <1>3 DEF WriteAvailable, XGAccepted, Available, TypeOK
<1>4. CASE xg[g] = Absent
  <2>1. WriteAvailable(g, v, at)
          = [available |-> TRUE, pair |-> games[g].pair, value |-> v.value,
             split |-> v.split, first |-> at, checked |-> at]
    BY <1>4 DEF WriteAvailable, XGAccepted, Available, XGWritten
  <2> QED
    BY <1>1, <1>2, <2>1, AvailableRow
<1>5. CASE XGAccepted(xg[g], at) /\ xg[g] # Absent
  <2> DEFINE split == IF v.split = Absent /\ Available(xg[g]) THEN xg[g].split ELSE v.split
             first == IF Available(xg[g]) THEN xg[g].first ELSE at
  <2>1. xg[g] \in XGRow
    BY <1>5 DEF TypeOK
  <2>2. /\ xg[g].checked \in Moments /\ at \in Moments /\ xg[g].first \in Moments
        /\ xg[g].split \in Splits \cup {Absent}
        /\ xg[g].available => xg[g].first # Never
    BY <2>1, TimeTypes DEF XGRow
  <2>3. Later(xg[g].checked, at) \in Times
    BY <2>2, LaterType
  <2>4. split \in Splits \cup {Absent}
    BY <1>2, <2>2
  <2>5. first \in Times
    BY <2>2 DEF Available, Moments, Times, Never
  <2>6. WriteAvailable(g, v, at)
          = [available |-> TRUE, pair |-> games[g].pair, value |-> v.value,
             split |-> split, first |-> first, checked |-> Later(xg[g].checked, at)]
    BY <1>5 DEF WriteAvailable, XGWritten
  <2> HIDE DEF split, first
  <2> QED
    BY <1>1, <1>2, <2>3, <2>4, <2>5, <2>6, AvailableRow
<1> QED
  BY <1>3, <1>4, <1>5

LEMMA UnavailableType ==
    ASSUME TypeOK, NEW g \in Games, games[g] # Absent, NEW at \in Times
    PROVE  WriteUnavailable(g, at) \in XGRow
<1>1. games[g].pair \in Pairs
  BY DEF TypeOK, GameRow
<1>2. CASE xg[g] = Absent
  BY <1>1, <1>2, TimeTypes DEF WriteUnavailable, XGRow
<1>3. CASE xg[g] # Absent
  <2>1. xg[g] \in XGRow
    BY <1>3 DEF TypeOK
  <2>2. xg[g].checked \in Moments /\ at \in Moments
    BY <2>1, TimeTypes DEF XGRow
  <2>3. Later(xg[g].checked, at) \in Times
    BY <2>2, LaterType
  <2> QED
    BY <1>3, <2>1, <2>3 DEF WriteUnavailable, XGRow
<1> QED
  BY <1>2, <1>3

-----------------------------------------------------------------------------
(* Type correctness, one lemma per operation.                              *)

LEMMA DueType == \A at \in Times : DueAfter(at) \subseteq Dues
BY TimeTypes DEF DueAfter, Dues, Never

LEMMA TablesOfGames ==
    ASSUME TypeOK, NEW resp \in Responses(GameRow)
    PROVE  /\ Inventory(resp) \in [Games -> GameRow \cup {Absent}]
           /\ TargetedTable(resp) \in [Games -> GameRow \cup {Absent}]
BY ResponseType DEF Inventory, TargetedTable, TypeOK

LEMMA CoverageType == ASSUME NEW table PROVE CoverageInvalid(table) \in BOOLEAN
BY DEF CoverageInvalid

LEMMA TypeTeams ==
    ASSUME TypeOK, NEW batch \in TeamBatches, NEW at \in Times, NEW due \in DueAfter(at),
           UpsertTeams(batch, at, due)
    PROVE  TypeOK'
<1>1. teams' \subseteq Teams
  BY ConstantFacts DEF UpsertTeams, TypeOK
<1>2. scope' \in [Resources -> ScopeRow \cup {Absent}]
  BY RefreshedType, DueType DEF UpsertTeams, TypeOK, Resources
<1> QED
  BY <1>1, <1>2 DEF UpsertTeams, TypeOK

LEMMA TypeEmpty ==
    ASSUME TypeOK, NEW at \in Times, NEW due \in DueAfter(at), EmptyDiscovery(at, due)
    PROVE  TypeOK'
<1>1. scope' \in [Resources -> ScopeRow \cup {Absent}]
  BY RefreshedType, DueType DEF EmptyDiscovery, TypeOK, Resources
<1> QED
  BY <1>1 DEF EmptyDiscovery, TypeOK

LEMMA TypeInventory ==
    ASSUME TypeOK, NEW resp \in Responses(GameRow), NEW at \in Times, NEW due \in DueAfter(at),
           ReplaceGameInventory(resp, at, due)
    PROVE  TypeOK'
<1> DEFINE table == Inventory(resp)
           values == [g \in Games |-> IF g \in Dropped(table) THEN Absent ELSE xg[g]]
<1>1. table \in [Games -> GameRow \cup {Absent}]
  BY TablesOfGames
<1>2. values \in [Games -> XGRow \cup {Absent}]
  BY DEF TypeOK
<1>3. resultCheck' \in [Games -> CheckRow \cup {Absent}]
  <2>1. \A g \in Games : Checked(resultCheck[g], at, Never, TRUE, Terminal(resp[g]), MaterialRow(resp, g))
                           \in CheckRow
    BY CheckedType, TimeTypes DEF TypeOK, Terminal, MaterialRow
  <2> QED
    BY <2>1 DEF ReplaceGameInventory
<1>4. xgCheck' \in [Games -> CheckRow \cup {Absent}]
  BY DEF ReplaceGameInventory, TypeOK
<1>5. scope' \in [Resources -> ScopeRow \cup {Absent}]
  BY RefreshedType, DueType DEF ReplaceGameInventory, TypeOK, Resources
<1>6. venue' \in VenueRow \cup {Absent}
  <2>1. VenueAfterGames(table, values, CoverageInvalid(table)) \in VenueRow
    BY <1>1, <1>2, CoverageType, VenueGamesType DEF TypeOK
  <2> QED
    BY <2>1 DEF ReplaceGameInventory, TypeOK
<1>7. lastRun' \in RunRow \cup {Absent}
  BY <1>1, RunType DEF ReplaceGameInventory, TypeOK
<1>8. games' = table /\ xg' = values /\ teams' = teams
  BY DEF ReplaceGameInventory
<1> QED
  BY <1>1, <1>2, <1>3, <1>4, <1>5, <1>6, <1>7, <1>8 DEF TypeOK

LEMMA TypeCheckedGames ==
    ASSUME TypeOK, NEW req \in SUBSET Games, NEW resp \in Responses(GameRow),
           NEW at \in Times, NEW due \in DueAfter(at), NEW materialDue \in DueAfter(at),
           UpsertCheckedGames(req, resp, at, due, materialDue)
    PROVE  TypeOK'
<1> DEFINE table == TargetedTable(resp)
           material(g) == ~SameFixture(games[g], table[g])
<1>1. table \in [Games -> GameRow \cup {Absent}]
  BY TablesOfGames
<1>2. resultCheck' \in [Games -> CheckRow \cup {Absent}]
  <2>1. \A g \in Games :
          Checked(resultCheck[g], at,
                  IF material(g) /\ materialDue # Never THEN materialDue ELSE due,
                  FALSE, g \in DOMAIN resp /\ Terminal(resp[g]), material(g)) \in CheckRow
    BY CheckedType, DueType DEF TypeOK, Terminal, SameFixture
  <2> QED
    BY <2>1 DEF UpsertCheckedGames, TypeOK
<1>3. scope' \in [Resources -> ScopeRow \cup {Absent}]
  <2>1. Accelerated(scope["games"], at, table) \in ScopeRow \cup {Absent}
    BY TimeTypes DEF Accelerated, ScopeRow, TypeOK, Resources
  <2> QED
    BY <2>1 DEF UpsertCheckedGames, TypeOK, Resources
<1>4. venue' \in VenueRow \cup {Absent}
  <2>1. VenueAfterGames(table, xg, CoverageInvalid(table)) \in VenueRow
    BY <1>1, CoverageType, VenueGamesType DEF TypeOK
  <2> QED
    BY <2>1 DEF UpsertCheckedGames, TypeOK
<1>5. lastRun' \in RunRow \cup {Absent}
  BY <1>1, RunType DEF UpsertCheckedGames, TypeOK
<1>6. games' = table /\ UNCHANGED <<teams, xg, xgCheck>>
  BY DEF UpsertCheckedGames
<1> QED
  BY <1>1, <1>2, <1>3, <1>4, <1>5, <1>6 DEF TypeOK

LEMMA MaterialType ==
    ASSUME NEW resp, NEW g, NEW at
    PROVE  (IF g \in DOMAIN resp THEN MaterialXG(g, resp[g], at) ELSE FALSE) \in BOOLEAN
BY DEF MaterialXG, XGAccepted

LEMMA StageXGTables ==
    ASSUME TypeOK, NEW resp \in Responses(XGValue), NEW at \in Times,
           DOMAIN resp \subseteq Completed
    PROVE  /\ [g \in Games |-> IF g \in DOMAIN resp THEN WriteAvailable(g, resp[g], at)
                                ELSE IF g \in Completed THEN WriteUnavailable(g, at)
                                ELSE xg[g]] \in [Games -> XGRow \cup {Absent}]
           /\ [g \in Games |-> IF g \in DOMAIN resp THEN WriteAvailable(g, resp[g], at)
                                ELSE xg[g]] \in [Games -> XGRow \cup {Absent}]
<1>1. \A g \in Completed : games[g] # Absent
  BY DEF Completed, FullTime
<1>2. \A g \in DOMAIN resp : WriteAvailable(g, resp[g], at) \in XGRow
  BY <1>1, ResponseType, WrittenType
<1>3. \A g \in Completed : WriteUnavailable(g, at) \in XGRow
  BY <1>1, UnavailableType DEF Completed
<1> QED
  BY <1>2, <1>3 DEF TypeOK

LEMMA TypeStageXG ==
    ASSUME TypeOK, NEW resp \in Responses(XGValue), NEW at \in Times, NEW due \in DueAfter(at),
           ReplaceStageXG(resp, at, due)
    PROVE  TypeOK'
<1>1. xg' \in [Games -> XGRow \cup {Absent}]
  BY StageXGTables DEF ReplaceStageXG
<1>2. xgCheck' \in [Games -> CheckRow \cup {Absent}]
  <2>1. \A g \in Games : Checked(xgCheck[g], at, Never, TRUE, g \in DOMAIN resp,
                                  IF g \in DOMAIN resp THEN MaterialXG(g, resp[g], at) ELSE FALSE)
                          \in CheckRow
    <3> TAKE g \in Games
    <3>1. (IF g \in DOMAIN resp THEN MaterialXG(g, resp[g], at) ELSE FALSE) \in BOOLEAN
      BY MaterialType
    <3>2. xgCheck[g] \in CheckRow \cup {Absent} /\ Never \in Dues
      BY TimeTypes DEF TypeOK
    <3>3. (g \in DOMAIN resp) \in BOOLEAN
      OBVIOUS
    <3> QED
      BY <3>1, <3>2, <3>3, CheckedType, Zenon
  <2> QED
    BY <2>1 DEF ReplaceStageXG, TypeOK
<1>3. venue' \in VenueRow
  <2>1. Rated(games, xg') \subseteq Games \X Values /\ Summary \in VenueRow
    BY <1>1, VenueGamesType DEF TypeOK
  <2>2. venue' = VenueAfterStageXG(xg')
    BY DEF ReplaceStageXG
  <2> QED
    BY <2>1, <2>2 DEF VenueAfterStageXG, VenueRow
<1>4. scope' \in [Resources -> ScopeRow \cup {Absent}]
  BY RefreshedType, DueType DEF ReplaceStageXG, TypeOK, Resources
<1> QED
  BY <1>1, <1>2, <1>3, <1>4 DEF ReplaceStageXG, TypeOK

LEMMA TypeCheckedXG ==
    ASSUME TypeOK, NEW req \in SUBSET Games, NEW resp \in Responses(XGValue),
           NEW at \in Times, NEW due \in DueAfter(at), NEW materialDue \in DueAfter(at),
           UpsertCheckedXG(req, resp, at, due, materialDue)
    PROVE  TypeOK'
<1> DEFINE material(g) == IF g \in DOMAIN resp THEN MaterialXG(g, resp[g], at) ELSE FALSE
<1>1. xg' \in [Games -> XGRow \cup {Absent}]
  BY StageXGTables DEF UpsertCheckedXG
<1>2. xgCheck' \in [Games -> CheckRow \cup {Absent}]
  <2>1. \A g \in Games :
          Checked(xgCheck[g], at,
                  IF material(g) /\ materialDue # Never THEN materialDue ELSE due,
                  FALSE, g \in DOMAIN resp, material(g)) \in CheckRow
    <3> TAKE g \in Games
    <3>1. material(g) \in BOOLEAN
      BY MaterialType
    <3> HIDE DEF material
    <3>2. (IF material(g) /\ materialDue # Never THEN materialDue ELSE due) \in Dues
      BY DueType
    <3>3. xgCheck[g] \in CheckRow \cup {Absent}
      BY DEF TypeOK
    <3>4. (g \in DOMAIN resp) \in BOOLEAN
      OBVIOUS
    <3> QED
      BY <3>1, <3>2, <3>3, <3>4, CheckedType, Zenon
  <2> QED
    BY <2>1 DEF UpsertCheckedXG, TypeOK
<1>3. venue' \in VenueRow \cup {Absent}
  <2>1. Rated(games, xg') \subseteq Games \X Values /\ Summary \in VenueRow
    BY <1>1, VenueGamesType DEF TypeOK
  <2>2. VenueAfterTargetedXG(xg') \in VenueRow
    BY <2>1 DEF VenueAfterTargetedXG, VenueRow
  <2>3. venue' \in {VenueAfterTargetedXG(xg'), venue}
    BY DEF UpsertCheckedXG
  <2> QED
    BY <2>2, <2>3 DEF TypeOK
<1> QED
  BY <1>1, <1>2, <1>3 DEF UpsertCheckedXG, TypeOK

LEMMA TypeStep == TypeOK /\ [Next]_vars => TypeOK'
<1> SUFFICES ASSUME TypeOK, [Next]_vars PROVE TypeOK'
  OBVIOUS
<1>0. Finish \subseteq Times
  BY DEF Finish
<1>1. CASE UNCHANGED vars
  BY <1>1 DEF vars, TypeOK
<1>2. CASE Next
  BY <1>0, <1>2, TypeTeams, TypeEmpty, TypeInventory, TypeCheckedGames, TypeStageXG,
     TypeCheckedXG DEF Next
<1> QED
  BY <1>1, <1>2

(* Every reachable cache holds rows of its schema.                         *)
THEOREM TypeCorrect == Spec => []TypeOK
<1>1. Init => TypeOK
  BY DEF Init, TypeOK
<1> QED
  BY <1>1, TypeStep, PTL DEF Spec

-----------------------------------------------------------------------------
(* The xG tables follow the match row: the part of the inductive invariant *)
(* the cascading deletes and the re-pairing rule maintain.                 *)

LEMMA BelongsInventory ==
    ASSUME TypeOK, XGBelongsToPairing,
           NEW resp \in Responses(GameRow), NEW at \in Times, NEW due \in DueAfter(at),
           ReplaceGameInventory(resp, at, due)
    PROVE  XGBelongsToPairing'
<1> DEFINE table == Inventory(resp)
<1>1. /\ games' = table
      /\ xg' = [g \in Games |-> IF g \in Dropped(table) THEN Absent ELSE xg[g]]
      /\ xgCheck' = [g \in Games |-> IF g \in Dropped(table) THEN Absent ELSE xgCheck[g]]
  BY DEF ReplaceGameInventory
<1> HIDE DEF table
<1> QED
  BY <1>1 DEF XGBelongsToPairing, Dropped, Repaired

LEMMA BelongsCheckedGames ==
    ASSUME TypeOK, XGBelongsToPairing,
           NEW req \in SUBSET Games, NEW resp \in Responses(GameRow),
           NEW at \in Times, NEW due \in DueAfter(at), NEW materialDue \in DueAfter(at),
           UpsertCheckedGames(req, resp, at, due, materialDue)
    PROVE  XGBelongsToPairing'
<1>1. \A g \in Games : /\ games'[g] = Absent <=> games[g] = Absent
                       /\ games[g] # Absent => games'[g].pair = games[g].pair
  <2>1. \A g \in DOMAIN resp : games[g] # Absent /\ resp[g] # Absent /\ resp[g].pair = games[g].pair
    BY ResponseType, ConstantFacts DEF UpsertCheckedGames, Cached
  <2> QED
    BY <2>1 DEF UpsertCheckedGames, TargetedTable
<1>2. xg' = xg /\ xgCheck' = xgCheck
  BY DEF UpsertCheckedGames
<1> QED
  BY <1>1, <1>2 DEF XGBelongsToPairing

LEMMA WritesKeepPairing ==
    ASSUME TypeOK, XGBelongsToPairing, NEW g \in Completed, NEW at \in Times
    PROVE  /\ WriteUnavailable(g, at).pair = games[g].pair
           /\ WriteUnavailable(g, at) # Absent
           /\ \A v \in XGValue : /\ WriteAvailable(g, v, at).pair = games[g].pair
                                 /\ WriteAvailable(g, v, at) # Absent
<1>1. g \in Games /\ games[g] # Absent
  BY DEF Completed, FullTime
<1>2. /\ WriteUnavailable(g, at) # Absent
      /\ \A v \in XGValue : WriteAvailable(g, v, at) # Absent
  BY <1>1, UnavailableType, WrittenType, ConstantFacts
<1>3. xg[g] # Absent => xg[g].pair = games[g].pair /\ xg[g] \in XGRow
  BY <1>1 DEF XGBelongsToPairing, TypeOK
<1>4. WriteUnavailable(g, at).pair = games[g].pair
  BY <1>1, <1>3 DEF WriteUnavailable, XGRow
<1>5. \A v \in XGValue : WriteAvailable(g, v, at).pair = games[g].pair
  BY <1>1, <1>3 DEF WriteAvailable, XGAccepted, Available, XGWritten
<1> QED
  BY <1>2, <1>4, <1>5

LEMMA BelongsStageXG ==
    ASSUME TypeOK, XGBelongsToPairing,
           NEW resp \in Responses(XGValue), NEW at \in Times, NEW due \in DueAfter(at),
           ReplaceStageXG(resp, at, due)
    PROVE  XGBelongsToPairing'
<1>1. \A g \in Completed : games[g] # Absent /\ g \in Games
  BY DEF Completed, FullTime
<1>2. \A g \in Games \ Completed : xg'[g] = xg[g] /\ xgCheck'[g] = xgCheck[g]
  BY DEF ReplaceStageXG
<1>3. \A g \in Completed : xg'[g].pair = games[g].pair
  BY <1>1, WritesKeepPairing, ResponseType DEF ReplaceStageXG
<1>4. games' = games
  BY DEF ReplaceStageXG
<1> QED
  BY <1>1, <1>2, <1>3, <1>4 DEF XGBelongsToPairing

LEMMA BelongsCheckedXG ==
    ASSUME TypeOK, XGBelongsToPairing,
           NEW req \in SUBSET Games, NEW resp \in Responses(XGValue),
           NEW at \in Times, NEW due \in DueAfter(at), NEW materialDue \in DueAfter(at),
           UpsertCheckedXG(req, resp, at, due, materialDue)
    PROVE  XGBelongsToPairing'
<1>1. \A g \in Completed : games[g] # Absent /\ g \in Games
  BY DEF Completed, FullTime
<1>2. \A g \in Games \ req : xg'[g] = xg[g] /\ xgCheck'[g] = xgCheck[g]
  BY DEF UpsertCheckedXG
<1>3. \A g \in req : xg'[g] # Absent => xg'[g].pair = games[g].pair
  BY <1>1, WritesKeepPairing, ResponseType DEF UpsertCheckedXG, XGBelongsToPairing
<1>4. games' = games /\ req \subseteq Completed
  BY DEF UpsertCheckedXG
<1> QED
  BY <1>1, <1>2, <1>3, <1>4 DEF XGBelongsToPairing

LEMMA BelongsStep == TypeOK /\ XGBelongsToPairing /\ [Next]_vars => XGBelongsToPairing'
<1> SUFFICES ASSUME TypeOK, XGBelongsToPairing, [Next]_vars PROVE XGBelongsToPairing'
  OBVIOUS
<1>0. Finish \subseteq Times
  BY DEF Finish
<1>1. CASE UNCHANGED <<games, xg, xgCheck>>
  BY <1>1 DEF XGBelongsToPairing
<1>2. UNCHANGED vars => UNCHANGED <<games, xg, xgCheck>>
  BY DEF vars
<1>3. ASSUME NEW batch, NEW at, NEW due,
             UpsertTeams(batch, at, due) \/ EmptyDiscovery(at, due)
      PROVE  UNCHANGED <<games, xg, xgCheck>>
  BY <1>3 DEF UpsertTeams, EmptyDiscovery
<1> QED
  BY <1>0, <1>1, <1>2, <1>3, BelongsInventory, BelongsCheckedGames, BelongsStageXG,
     BelongsCheckedXG DEF Next

(* Whatever inventories, polls and xG responses do, in any order, an xG    *)
(* row belongs to a cached match and names its current participants.       *)
THEOREM PairingCorrect == Spec => []XGBelongsToPairing
<1>1. Init => XGBelongsToPairing
  BY DEF Init, XGBelongsToPairing
<1> QED
  BY <1>1, TypeCorrect, BelongsStep, PTL DEF Spec

-----------------------------------------------------------------------------
(* The venue summary.  The invariant speaks of Summary, so that it also    *)
(* says what an absent row stands for: no rated match yet.                 *)

SummaryCorrect ==
    /\ Summary.xgReady => \A g \in Completed : xg[g] # Absent
    /\ Summary.fixtureReady => Summary.results = Results(games)
    /\ Summary.rated = Rated(games, xg)

LEMMA SummaryShape ==
    ASSUME TypeOK
    PROVE  /\ Summary \in VenueRow
           /\ venue # Absent => Summary = venue
BY DEF TypeOK, Summary, EmptyVenue, VenueRow

(* Equal snapshots show the same matches, pairings and results.            *)
LEMMA SnapshotSame ==
    ASSUME NEW old \in [Games -> GameRow \cup {Absent}],
           NEW new \in [Games -> GameRow \cup {Absent}],
           SnapshotID(old) = SnapshotID(new), NEW g \in Games
    PROVE  /\ old[g] = Absent <=> new[g] = Absent
           /\ old[g] # Absent => /\ old[g].status = new[g].status
                                 /\ old[g].pair = new[g].pair
                                 /\ old[g].detail = new[g].detail
<1>1. (IF old[g] = Absent THEN Absent ELSE FixtureOf(old[g]))
        = (IF new[g] = Absent THEN Absent ELSE FixtureOf(new[g]))
  BY DEF SnapshotID
<1>2. /\ old[g] # Absent => FixtureOf(old[g]) # Absent
      /\ new[g] # Absent => FixtureOf(new[g]) # Absent
  BY FixtureType, ConstantFacts
<1> QED
  BY <1>1, <1>2 DEF FixtureOf

(* Only rows of FullTime matches with an available value are rated.        *)
LEMMA RatedSame ==
    ASSUME NEW table, NEW values, NEW newTable, NEW newValues,
           \A g \in Games : FullTime(newTable[g]) <=> FullTime(table[g]),
           \A g \in Games : FullTime(table[g]) =>
               /\ Available(newValues[g]) <=> Available(values[g])
               /\ Available(values[g]) => newValues[g].value = values[g].value
    PROVE  Rated(newTable, newValues) = Rated(table, values)
<1>1. {h \in Games : FullTime(newTable[h]) /\ Available(newValues[h])}
        = {h \in Games : FullTime(table[h]) /\ Available(values[h])}
  OBVIOUS
<1> QED
  BY <1>1 DEF Rated

LEMMA SummaryGames ==
    ASSUME TypeOK, XGBelongsToPairing, SummaryCorrect,
           NEW table \in [Games -> GameRow \cup {Absent}],
           NEW values \in [Games -> XGRow \cup {Absent}],
           \A g \in Games : values[g] = xg[g] \/ (values[g] = Absent /\ g \in Dropped(table)),
           games' = table, xg' = values,
           venue' = IF SnapshotID(games) = SnapshotID(table) THEN venue
                    ELSE VenueAfterGames(table, values, CoverageInvalid(table))
    PROVE  SummaryCorrect'
<1> DEFINE invalid == CoverageInvalid(table)
<1>1. ASSUME \A g \in Games : FullTime(table[g]) <=> FullTime(games[g]),
             \A g \in Games : FullTime(table[g]) => values[g] = xg[g]
      PROVE  /\ Rated(table, values) = Rated(games, xg)
             /\ Completed' = Completed
             /\ \A g \in Completed : xg'[g] = xg[g]
  <2>1. Rated(table, values) = Rated(games, xg)
    BY <1>1, RatedSame
  <2> QED
    BY <1>1, <2>1 DEF Completed
<1>2. CASE SnapshotID(games) = SnapshotID(table)
  <2>1. \A g \in Games : /\ games[g] = Absent <=> table[g] = Absent
                         /\ games[g] # Absent => /\ games[g].status = table[g].status
                                                 /\ games[g].pair = table[g].pair
                                                 /\ games[g].detail = table[g].detail
    BY <1>2, SnapshotSame DEF TypeOK
  <2>2. \A g \in Games : FullTime(table[g]) <=> FullTime(games[g])
    BY <2>1 DEF FullTime
  <2>3. \A g \in Games : FullTime(table[g]) => values[g] = xg[g]
    BY <2>1 DEF FullTime, Dropped, Repaired
  <2>4. Results(table) = Results(games)
    <3>1. \A g \in {h \in Games : FullTime(table[h])} : table[g].detail = games[g].detail
      BY <2>1 DEF FullTime
    <3>2. {h \in Games : FullTime(table[h])} = {h \in Games : FullTime(games[h])}
      BY <2>2
    <3> QED
      BY <3>1, <3>2 DEF Results
  <2>5. Summary' = Summary
    BY <1>2 DEF Summary, EmptyVenue
  <2> QED
    BY <1>1, <2>2, <2>3, <2>4, <2>5 DEF SummaryCorrect
<1>3. CASE SnapshotID(games) # SnapshotID(table)
  <2>1. VenueAfterGames(table, values, invalid) \in VenueRow /\ Summary \in VenueRow
    BY CoverageType, VenueGamesType DEF TypeOK
  <2>2. Summary' = VenueAfterGames(table, values, invalid)
    <3>1. venue' # Absent
      BY <1>3, <2>1, ConstantFacts
    <3> QED
      BY <1>3, <3>1 DEF Summary
  <2>3. /\ Summary'.results = Results(table)
        /\ Summary'.xgReady = (Summary.xgReady /\ ~invalid)
        /\ Summary'.rated = IF invalid THEN Rated(table, values) ELSE Summary.rated
    BY <2>1, <2>2 DEF VenueAfterGames, VenueRow
  <2>4. CASE invalid
    BY <2>3, <2>4 DEF SummaryCorrect
  <2>5. CASE ~invalid
    <3>1. \A g \in Games : FullTime(table[g]) <=> FullTime(games[g])
      BY <2>5 DEF CoverageInvalid, FullTime
    <3>2. \A g \in Games : FullTime(table[g]) => values[g] = xg[g]
      BY <2>5 DEF CoverageInvalid, FullTime, Dropped
    <3> HIDE DEF invalid
    <3> QED
      BY <1>1, <2>3, <2>5, <3>1, <3>2 DEF SummaryCorrect
  <2> QED
    BY <2>4, <2>5
<1> QED
  BY <1>2, <1>3

LEMMA SummaryInventory ==
    ASSUME TypeOK, XGBelongsToPairing, SummaryCorrect,
           NEW resp \in Responses(GameRow), NEW at \in Times, NEW due \in DueAfter(at),
           ReplaceGameInventory(resp, at, due)
    PROVE  SummaryCorrect'
<1> DEFINE table == Inventory(resp)
           values == [g \in Games |-> IF g \in Dropped(table) THEN Absent ELSE xg[g]]
<1>1. table \in [Games -> GameRow \cup {Absent}]
  BY TablesOfGames
<1>2. values \in [Games -> XGRow \cup {Absent}]
  BY DEF TypeOK
<1>3. \A g \in Games : values[g] = xg[g] \/ (values[g] = Absent /\ g \in Dropped(table))
  OBVIOUS
<1>4. /\ games' = table
      /\ xg' = values
      /\ venue' = IF SnapshotID(games) = SnapshotID(table) THEN venue
                  ELSE VenueAfterGames(table, values, CoverageInvalid(table))
  BY DEF ReplaceGameInventory
<1> HIDE DEF table, values
<1> QED
  BY <1>1, <1>2, <1>3, <1>4, SummaryGames

LEMMA SummaryCheckedGames ==
    ASSUME TypeOK, XGBelongsToPairing, SummaryCorrect,
           NEW req \in SUBSET Games, NEW resp \in Responses(GameRow),
           NEW at \in Times, NEW due \in DueAfter(at), NEW materialDue \in DueAfter(at),
           UpsertCheckedGames(req, resp, at, due, materialDue)
    PROVE  SummaryCorrect'
<1> DEFINE table == TargetedTable(resp)
<1>1. table \in [Games -> GameRow \cup {Absent}] /\ xg \in [Games -> XGRow \cup {Absent}]
  BY TablesOfGames DEF TypeOK
<1>2. /\ games' = table
      /\ xg' = xg
      /\ venue' = IF SnapshotID(games) = SnapshotID(table) THEN venue
                  ELSE VenueAfterGames(table, xg, CoverageInvalid(table))
  BY DEF UpsertCheckedGames
<1> HIDE DEF table
<1> QED
  BY <1>1, <1>2, SummaryGames

LEMMA SummaryStageXG ==
    ASSUME TypeOK, XGBelongsToPairing, SummaryCorrect,
           NEW resp \in Responses(XGValue), NEW at \in Times, NEW due \in DueAfter(at),
           ReplaceStageXG(resp, at, due)
    PROVE  SummaryCorrect'
<1>1. games' = games /\ Completed' = Completed
  BY DEF ReplaceStageXG, Completed
<1>2. \A g \in Completed : xg'[g] # Absent
  BY WritesKeepPairing, ResponseType DEF ReplaceStageXG, Completed
<1>3. venue' = VenueAfterStageXG(xg')
  BY DEF ReplaceStageXG
<1>4. Rated(games, xg') \subseteq Games \X Values /\ Summary \in VenueRow
  <2>1. xg' \in [Games -> XGRow \cup {Absent}]
    BY StageXGTables DEF ReplaceStageXG
  <2> QED
    BY <2>1, VenueGamesType DEF TypeOK
<1>5. VenueAfterStageXG(xg') \in VenueRow
  BY <1>4 DEF VenueAfterStageXG, VenueRow
<1>6. Summary' = VenueAfterStageXG(xg')
  BY <1>3, <1>5, ConstantFacts DEF Summary
<1>7. /\ Summary'.rated = Rated(games, xg')
      /\ Summary'.fixtureReady = Summary.fixtureReady
      /\ Summary'.results = Summary.results
  BY <1>4, <1>6 DEF VenueAfterStageXG, VenueRow
<1> QED
  BY <1>1, <1>2, <1>7 DEF SummaryCorrect

(* A response that is not material leaves a rated value as it is.          *)
LEMMA NotMaterial ==
    ASSUME TypeOK, NEW g \in Completed, NEW v \in XGValue, NEW at \in Times,
           ~MaterialXG(g, v, at)
    PROVE  /\ Available(xg[g]) /\ Available(WriteAvailable(g, v, at))
           /\ WriteAvailable(g, v, at).value = xg[g].value
<1>1. WriteAvailable(g, v, at) # Absent
  BY WrittenType, ConstantFacts DEF Completed, FullTime
<1>2. CASE XGAccepted(xg[g], at)
  BY <1>1, <1>2 DEF MaterialXG, WriteAvailable, XGWritten, Available
<1>3. CASE ~XGAccepted(xg[g], at)
  BY <1>3 DEF WriteAvailable, XGAccepted
<1> QED
  BY <1>2, <1>3

LEMMA SummaryCheckedXG ==
    ASSUME TypeOK, XGBelongsToPairing, SummaryCorrect,
           NEW req \in SUBSET Games, NEW resp \in Responses(XGValue),
           NEW at \in Times, NEW due \in DueAfter(at), NEW materialDue \in DueAfter(at),
           UpsertCheckedXG(req, resp, at, due, materialDue)
    PROVE  SummaryCorrect'
<1> DEFINE material(g) == IF g \in DOMAIN resp THEN MaterialXG(g, resp[g], at) ELSE FALSE
<1>1. /\ games' = games /\ Completed' = Completed
      /\ DOMAIN resp \subseteq req /\ req \subseteq Completed
      /\ xg' = [g \in Games |-> IF g \in DOMAIN resp THEN WriteAvailable(g, resp[g], at)
                                ELSE xg[g]]
      /\ venue' = IF \E g \in req : material(g) THEN VenueAfterTargetedXG(xg') ELSE venue
  BY DEF UpsertCheckedXG, Completed
<1>2. \A g \in Completed : xg[g] # Absent => xg'[g] # Absent
  BY <1>1, WritesKeepPairing, ResponseType DEF Completed
<1>3. Rated(games, xg') \subseteq Games \X Values /\ Summary \in VenueRow
  <2>1. xg' \in [Games -> XGRow \cup {Absent}]
    BY <1>1, StageXGTables
  <2> QED
    BY <2>1, VenueGamesType DEF TypeOK
<1>4. CASE \E g \in req : material(g)
  <2>1. VenueAfterTargetedXG(xg') \in VenueRow
    BY <1>3 DEF VenueAfterTargetedXG, VenueRow
  <2>2. Summary' = VenueAfterTargetedXG(xg')
    BY <1>1, <1>4, <2>1, ConstantFacts DEF Summary
  <2>3. /\ Summary'.rated = Rated(games, xg')
        /\ Summary'.fixtureReady = Summary.fixtureReady
        /\ Summary'.xgReady = Summary.xgReady
        /\ Summary'.results = Summary.results
    BY <1>3, <2>2 DEF VenueAfterTargetedXG, VenueRow
  <2> QED
    BY <1>1, <1>2, <2>3 DEF SummaryCorrect
<1>5. CASE ~\E g \in req : material(g)
  <2>1. Summary' = Summary
    BY <1>1, <1>5 DEF Summary, EmptyVenue
  <2>2. \A g \in Games : /\ Available(xg'[g]) <=> Available(xg[g])
                         /\ Available(xg[g]) => xg'[g].value = xg[g].value
    <3> TAKE g \in Games
    <3>1. CASE g \in DOMAIN resp
      <4>1. /\ Available(xg[g]) /\ Available(WriteAvailable(g, resp[g], at))
            /\ WriteAvailable(g, resp[g], at).value = xg[g].value
        BY <1>1, <1>5, <3>1, NotMaterial, ResponseType
      <4> QED
        BY <1>1, <3>1, <4>1
    <3>2. CASE g \notin DOMAIN resp
      BY <1>1, <3>2
    <3> QED
      BY <3>1, <3>2
  <2>3. Rated(games, xg') = Rated(games, xg)
    BY <2>2, RatedSame
  <2> QED
    BY <1>1, <1>2, <2>1, <2>3 DEF SummaryCorrect
<1> QED
  BY <1>4, <1>5

LEMMA SummaryStep ==
    TypeOK /\ XGBelongsToPairing /\ SummaryCorrect /\ [Next]_vars => SummaryCorrect'
<1> SUFFICES ASSUME TypeOK, XGBelongsToPairing, SummaryCorrect, [Next]_vars
             PROVE  SummaryCorrect'
  OBVIOUS
<1>0. Finish \subseteq Times
  BY DEF Finish
<1>1. CASE UNCHANGED <<games, xg, venue>>
  BY <1>1 DEF SummaryCorrect, Summary, EmptyVenue, Completed
<1>2. UNCHANGED vars => UNCHANGED <<games, xg, venue>>
  BY DEF vars
<1>3. ASSUME NEW batch, NEW at, NEW due,
             UpsertTeams(batch, at, due) \/ EmptyDiscovery(at, due)
      PROVE  UNCHANGED <<games, xg, venue>>
  BY <1>3 DEF UpsertTeams, EmptyDiscovery
<1> QED
  BY <1>0, <1>1, <1>2, <1>3, SummaryInventory, SummaryCheckedGames, SummaryStageXG,
     SummaryCheckedXG DEF Next

LEMMA SummaryInvariant == Spec => []SummaryCorrect
<1>1. Init => SummaryCorrect
  BY DEF Init, SummaryCorrect, Summary, EmptyVenue, Rated, Available
<1> QED
  BY <1>1, TypeCorrect, PairingCorrect, SummaryStep, PTL DEF Spec

(* A summary announced as xG-ready covers every completed match.           *)
THEOREM CoverageCorrect == Spec => []XGReadyCoverage
<1>1. TypeOK /\ SummaryCorrect => XGReadyCoverage
  BY SummaryShape DEF SummaryCorrect, XGReadyCoverage
<1> QED
  BY <1>1, TypeCorrect, SummaryInvariant, PTL

(* The persisted venue sums are the sums over the current tables.          *)
THEOREM VenueCorrect == Spec => []VenueSumsCurrent
<1>1. TypeOK /\ SummaryCorrect => VenueSumsCurrent
  BY SummaryShape DEF SummaryCorrect, VenueSumsCurrent
<1> QED
  BY <1>1, TypeCorrect, SummaryInvariant, PTL

-----------------------------------------------------------------------------
(* The two observation ledgers, in whatever order observations arrive, and *)
(* what the readers see.  The latter needs the stage lease of SyncLease:   *)
(* game writes commit in the order of their finish times (InOrder), so the *)
(* run just inserted is the one LastSuccess selects.                       *)

(* One row of a ledger: what recording an observation does to its times.   *)
InOrderRow(row) == row # Absent => row.first <= row.checked /\ row.changed <= row.checked

Recorded(old, at, seen, new) ==
    /\ new.first <= new.checked /\ new.changed <= new.checked
    /\ at <= new.checked
    /\ old # Absent => old.checked <= new.checked
    /\ new.first # Never <=> seen \/ (old # Absent /\ old.first # Never)
    /\ seen => new.first <= at
    /\ seen /\ old # Absent /\ old.first # Never => new.first <= old.first
    /\ ~seen /\ old # Absent => new.first = old.first

LEMMA CheckedTimes ==
    ASSUME NEW old \in CheckRow \cup {Absent}, NEW at \in Times, NEW due \in Dues,
           NEW preserve \in BOOLEAN, NEW seen \in BOOLEAN, NEW material \in BOOLEAN,
           InOrderRow(old)
    PROVE  Recorded(old, at, seen, Checked(old, at, due, preserve, seen, material))
<1> DEFINE new == Checked(old, at, due, preserve, seen, material)
<1> SUFFICES Recorded(old, at, seen, new)
  OBVIOUS
<1>0. old # Absent => old.first <= old.checked /\ old.changed <= old.checked
  BY DEF InOrderRow
<1>5. /\ old = Absent => new = [checked |-> at, first |-> IF seen THEN at ELSE Never,
                                changed |-> IF material THEN at ELSE Never, due |-> due]
      /\ old # Absent =>
           /\ new.checked = Later(old.checked, at)
           /\ new.first = IF seen THEN Earliest(old.first, at) ELSE old.first
           /\ new.changed = IF material THEN Later(old.changed, at) ELSE old.changed
  BY DEF Checked
<1> HIDE DEF new
<1>1. at \in Nat \ {0} /\ at \in Moments
  BY TimeTypes
<1>2. CASE old = Absent
  BY <1>1, <1>2, <1>5 DEF Recorded, Never
<1>3. CASE old # Absent
  <2>1. /\ old.checked \in Nat \ {0} /\ old.first \in Nat /\ old.changed \in Nat
    BY <1>3, TimeTypes DEF CheckRow
  <2>2. /\ new.checked = Later(old.checked, at)
        /\ new.first = IF seen THEN Earliest(old.first, at) ELSE old.first
        /\ new.changed = IF material THEN Later(old.changed, at) ELSE old.changed
    BY <1>3, <1>5
  <2>3. /\ old.checked <= new.checked /\ at <= new.checked /\ new.checked \in Nat
    BY <1>1, <2>1, <2>2 DEF Later
  <2>4. new.changed <= new.checked
    BY <1>0, <1>1, <1>3, <2>1, <2>2, <2>3 DEF Later
  <2>5. CASE seen
    <3>1. new.first = IF old.first = Never \/ at < old.first THEN at ELSE old.first
      BY <2>2, <2>5 DEF Earliest
    <3>2. /\ new.first <= at /\ new.first # Never /\ new.first <= new.checked
          /\ old.first # Never => new.first <= old.first
      <4>1. new.first = at \/ (new.first = old.first /\ old.first # Never /\ old.first <= at)
        BY <1>1, <2>1, <3>1
      <4>2. old.first # Never => new.first <= old.first
        BY <1>1, <2>1, <3>1
      <4> QED
        BY <1>1, <2>1, <2>3, <4>1, <4>2 DEF Never
    <3> QED
      BY <1>3, <2>3, <2>4, <2>5, <3>2 DEF Recorded
  <2>6. CASE ~seen
    BY <1>0, <1>3, <2>1, <2>2, <2>3, <2>4, <2>6 DEF Recorded, Never
  <2> QED
    BY <2>5, <2>6
<1> QED
  BY <1>2, <1>3

(* What a response does to a row that is cached already.                   *)
LEMMA MergedRow ==
    ASSUME TypeOK, NEW g \in Games, games[g] # Absent, NEW new \in GameRow
    PROVE  /\ PreferIncoming(games[g], new) /\ Terminal(games[g]) => Terminal(new)
           /\ ~PreferIncoming(games[g], new) /\ Terminal(new) => Terminal(games[g])
<1>1. new # Absent
  BY ConstantFacts
<1> QED
  BY <1>1 DEF PreferIncoming, Terminal

LEMMA InventoryRow ==
    ASSUME TypeOK, NEW resp \in Responses(GameRow), NEW g \in Games
    PROVE  /\ g \notin DOMAIN resp => Inventory(resp)[g] = Absent
           /\ g \in DOMAIN resp =>
                 /\ Inventory(resp)[g] \in GameRow /\ Inventory(resp)[g] # Absent
                 /\ Terminal(games[g]) => Terminal(Inventory(resp)[g])
                 /\ Terminal(Inventory(resp)[g]) <=> Terminal(resp[g]) \/ Terminal(games[g])
<1>1. CASE g \notin DOMAIN resp
  BY <1>1 DEF Inventory
<1>2. CASE g \in DOMAIN resp
  <2>1. resp[g] \in GameRow /\ resp[g] # Absent
    BY <1>2, ResponseType, ConstantFacts
  <2>2. CASE games[g] = Absent
    BY <1>2, <2>1, <2>2 DEF Inventory, Accepted, Terminal
  <2>3. CASE games[g] # Absent /\ PreferIncoming(games[g], resp[g])
    <3>1. Inventory(resp)[g] = resp[g]
      BY <1>2, <2>3 DEF Inventory, Accepted
    <3> QED
      BY <1>2, <2>1, <2>3, <3>1, MergedRow
  <2>4. CASE games[g] # Absent /\ ~PreferIncoming(games[g], resp[g])
    <3>1. Inventory(resp)[g] = games[g]
      BY <1>2, <2>4 DEF Inventory, Accepted
    <3>2. games[g] \in GameRow
      BY <2>4 DEF TypeOK
    <3> QED
      BY <1>2, <2>1, <2>4, <3>1, <3>2, MergedRow
  <2> QED
    BY <2>2, <2>3, <2>4
<1> QED
  BY <1>1, <1>2

LEMMA TargetedRow ==
    ASSUME TypeOK, NEW resp \in Responses(GameRow), NEW g \in Games,
           g \in DOMAIN resp => games[g] # Absent /\ resp[g].pair = games[g].pair
    PROVE  /\ TargetedTable(resp)[g] = Absent <=> games[g] = Absent
           /\ g \notin DOMAIN resp => TargetedTable(resp)[g] = games[g]
           /\ games[g] # Absent => TargetedTable(resp)[g].pair = games[g].pair
           /\ Terminal(games[g]) => Terminal(TargetedTable(resp)[g])
           /\ Terminal(TargetedTable(resp)[g])
                 <=> (g \in DOMAIN resp /\ Terminal(resp[g])) \/ Terminal(games[g])
<1>1. CASE g \notin DOMAIN resp
  BY <1>1 DEF TargetedTable
<1>2. CASE g \in DOMAIN resp
  <2>1. resp[g] \in GameRow /\ resp[g] # Absent
    BY <1>2, ResponseType, ConstantFacts
  <2>2. CASE PreferIncoming(games[g], resp[g])
    <3>1. TargetedTable(resp)[g] = resp[g]
      BY <1>2, <2>2 DEF TargetedTable
    <3> QED
      BY <1>2, <2>1, <2>2, <3>1, MergedRow
  <2>3. CASE ~PreferIncoming(games[g], resp[g])
    <3>1. TargetedTable(resp)[g] = games[g]
      BY <1>2, <2>3 DEF TargetedTable
    <3> QED
      BY <1>2, <2>1, <2>3, <3>1, MergedRow
  <2> QED
    BY <2>2, <2>3
<1> QED
  BY <1>1, <1>2

(* The poll names cached matches only, in their cached pairing.            *)
LEMMA PolledRows ==
    ASSUME NEW req, NEW resp, NEW at, NEW due, NEW materialDue,
           UpsertCheckedGames(req, resp, at, due, materialDue)
    PROVE  /\ \A g \in req : games[g] # Absent /\ g \in Games
           /\ \A g \in DOMAIN resp : games[g] # Absent /\ resp[g].pair = games[g].pair
           /\ games' = TargetedTable(resp)
BY DEF UpsertCheckedGames, Cached

-----------------------------------------------------------------------------
(* The result ledger, one lemma per operation that touches it.             *)
LEMMA CheckRowType ==
    ASSUME TypeOK, NEW g \in Games
    PROVE  /\ resultCheck[g] \in CheckRow \cup {Absent}
           /\ xgCheck[g] \in CheckRow \cup {Absent}
           /\ xg[g] \in XGRow \cup {Absent}
           /\ games[g] \in GameRow \cup {Absent}
BY DEF TypeOK

LEMMA ResultsInventory ==
    ASSUME TypeOK, ResultLedgerAgrees,
           NEW resp \in Responses(GameRow), NEW at \in Times, NEW due \in DueAfter(at),
           ReplaceGameInventory(resp, at, due)
    PROVE  ResultLedgerAgrees'
<1> SUFFICES ASSUME NEW g \in Games
             PROVE  /\ games'[g] = Absent <=> resultCheck'[g] = Absent
                    /\ games'[g] # Absent =>
                          /\ Terminal(games'[g]) <=> resultCheck'[g].first # Never
                          /\ resultCheck'[g].first <= resultCheck'[g].checked
                          /\ resultCheck'[g].changed <= resultCheck'[g].checked
  BY DEF ResultLedgerAgrees
<1>1. games'[g] = Inventory(resp)[g]
  BY DEF ReplaceGameInventory
<1>2. CASE g \notin DOMAIN resp
  <2>1. resultCheck'[g] = Absent
    BY <1>2 DEF ReplaceGameInventory
  <2> QED
    BY <1>1, <1>2, <2>1, InventoryRow
<1>3. CASE g \in DOMAIN resp
  <2> DEFINE seen == Terminal(resp[g])
             material == MaterialRow(resp, g)
  <2>1. resultCheck'[g] = Checked(resultCheck[g], at, Never, TRUE, seen, material)
    BY <1>3 DEF ReplaceGameInventory
  <2>2. seen \in BOOLEAN /\ material \in BOOLEAN /\ Never \in Dues
    BY TimeTypes DEF Terminal, MaterialRow
  <2>3. /\ games[g] = Absent <=> resultCheck[g] = Absent
        /\ resultCheck[g] # Absent =>
             /\ Terminal(games[g]) <=> resultCheck[g].first # Never
             /\ resultCheck[g].first <= resultCheck[g].checked
             /\ resultCheck[g].changed <= resultCheck[g].checked
    BY DEF ResultLedgerAgrees
  <2>4. ~Terminal(Absent)
    BY DEF Terminal
  <2>5. Terminal(games'[g]) <=> seen \/ Terminal(games[g])
    BY <1>1, <1>3, InventoryRow
  <2>6. games'[g] # Absent
    BY <1>1, <1>3, InventoryRow
  <2>7. resultCheck'[g] # Absent
    <3>1. resultCheck[g] \in CheckRow \cup {Absent} /\ TRUE \in BOOLEAN
      BY CheckRowType
    <3> HIDE DEF seen, material
    <3>2. Checked(resultCheck[g], at, Never, TRUE, seen, material) \in CheckRow
      BY <2>2, <3>1, CheckedType
    <3> QED
      BY <2>1, <3>2, ConstantFacts
  <2>8. /\ resultCheck'[g].first <= resultCheck'[g].checked
        /\ resultCheck'[g].changed <= resultCheck'[g].checked
        /\ resultCheck'[g].first # Never
             <=> seen \/ (resultCheck[g] # Absent /\ resultCheck[g].first # Never)
    <3>1. /\ resultCheck[g] \in CheckRow \cup {Absent} /\ TRUE \in BOOLEAN
          /\ InOrderRow(resultCheck[g])
      BY <2>3, CheckRowType DEF InOrderRow
    <3> HIDE DEF seen, material
    <3>2. Recorded(resultCheck[g], at, seen, resultCheck'[g])
      BY <2>1, <2>2, <3>1, CheckedTimes
    <3> QED
      BY <3>2 DEF Recorded
  <2> HIDE DEF seen, material
  <2> QED
    BY <2>3, <2>4, <2>5, <2>6, <2>7, <2>8
<1> QED
  BY <1>2, <1>3

LEMMA ResultsCheckedGames ==
    ASSUME TypeOK, ResultLedgerAgrees,
           NEW req \in SUBSET Games, NEW resp \in Responses(GameRow),
           NEW at \in Times, NEW due \in DueAfter(at), NEW materialDue \in DueAfter(at),
           UpsertCheckedGames(req, resp, at, due, materialDue)
    PROVE  ResultLedgerAgrees'
<1> SUFFICES ASSUME NEW g \in Games
             PROVE  /\ games'[g] = Absent <=> resultCheck'[g] = Absent
                    /\ games'[g] # Absent =>
                          /\ Terminal(games'[g]) <=> resultCheck'[g].first # Never
                          /\ resultCheck'[g].first <= resultCheck'[g].checked
                          /\ resultCheck'[g].changed <= resultCheck'[g].checked
  BY DEF ResultLedgerAgrees
<1>1. games'[g] = TargetedTable(resp)[g] /\ DOMAIN resp \subseteq req
  BY DEF UpsertCheckedGames
<1>2. /\ games'[g] = Absent <=> games[g] = Absent
      /\ Terminal(games'[g]) <=> (g \in DOMAIN resp /\ Terminal(resp[g])) \/ Terminal(games[g])
  BY <1>1, PolledRows, TargetedRow
<1>3. /\ games[g] = Absent <=> resultCheck[g] = Absent
      /\ resultCheck[g] # Absent =>
           /\ Terminal(games[g]) <=> resultCheck[g].first # Never
           /\ resultCheck[g].first <= resultCheck[g].checked
           /\ resultCheck[g].changed <= resultCheck[g].checked
  BY DEF ResultLedgerAgrees
<1>4. CASE g \notin req
  <2>1. resultCheck'[g] = resultCheck[g]
    BY <1>4 DEF UpsertCheckedGames
  <2> QED
    BY <1>1, <1>2, <1>3, <1>4, <2>1
<1>5. CASE g \in req
  <2> DEFINE seen == g \in DOMAIN resp /\ Terminal(resp[g])
             material == ~SameFixture(games[g], TargetedTable(resp)[g])
             next == IF material /\ materialDue # Never THEN materialDue ELSE due
  <2>1. resultCheck'[g] = Checked(resultCheck[g], at, next, FALSE, seen, material)
    BY <1>5 DEF UpsertCheckedGames
  <2>2. seen \in BOOLEAN /\ material \in BOOLEAN /\ next \in Dues
    BY DueType DEF Terminal, SameFixture
  <2>3. games[g] # Absent
    BY <1>5, PolledRows
  <2>4. Terminal(games'[g]) <=> seen \/ Terminal(games[g])
    BY <1>2
  <2> HIDE DEF next
  <2>5. resultCheck'[g] # Absent
    <3>1. resultCheck[g] \in CheckRow \cup {Absent} /\ FALSE \in BOOLEAN
      BY CheckRowType
    <3> HIDE DEF seen, material
    <3>2. Checked(resultCheck[g], at, next, FALSE, seen, material) \in CheckRow
      BY <2>2, <3>1, CheckedType
    <3> QED
      BY <2>1, <3>2, ConstantFacts
  <2>6. /\ resultCheck'[g].first <= resultCheck'[g].checked
        /\ resultCheck'[g].changed <= resultCheck'[g].checked
        /\ resultCheck'[g].first # Never
             <=> seen \/ (resultCheck[g] # Absent /\ resultCheck[g].first # Never)
    <3>1. /\ resultCheck[g] \in CheckRow \cup {Absent} /\ FALSE \in BOOLEAN
          /\ InOrderRow(resultCheck[g])
      BY <1>3, CheckRowType DEF InOrderRow
    <3> HIDE DEF seen, material
    <3>2. Recorded(resultCheck[g], at, seen, resultCheck'[g])
      BY <2>1, <2>2, <3>1, CheckedTimes
    <3> QED
      BY <3>2 DEF Recorded
  <2> HIDE DEF seen, material
  <2> QED
    BY <1>2, <1>3, <2>3, <2>4, <2>5, <2>6
<1> QED
  BY <1>4, <1>5

(* The xG ledger, one match at a time.                                     *)
Agree(row, check) ==
    /\ row # Absent =>
          /\ check # Absent
          /\ row.first <= row.checked
          /\ row.checked <= check.checked
    /\ Available(row) => check.first # Never /\ check.first <= row.first
    /\ check # Absent /\ check.first # Never => Available(row)

LEMMA AgreeIsLedger == XGLedgerAgrees <=> \A g \in Games : Agree(xg[g], xgCheck[g])
BY DEF XGLedgerAgrees, Agree

LEMMA WrittenRow ==
    ASSUME TypeOK, NEW g \in Games, games[g] # Absent, NEW v \in XGValue, NEW at \in Times,
           NEW new, new = WriteAvailable(g, v, at),
           xg[g] # Absent => xg[g].first <= xg[g].checked
    PROVE  /\ new # Absent /\ Available(new)
           /\ new.first <= new.checked
           /\ new.checked <= at \/ (xg[g] # Absent /\ new.checked <= xg[g].checked)
           /\ new.first = IF Available(xg[g]) THEN xg[g].first ELSE at
           /\ xg[g] # Absent => xg[g].checked <= new.checked
           /\ new.first \in Nat \ {0} /\ new.checked \in Nat
<1>1. new \in XGRow /\ new # Absent
  BY WrittenType, ConstantFacts
<1>2. at \in Nat \ {0}
  BY TimeTypes
<1>3. xg[g] # Absent => /\ xg[g] \in XGRow /\ xg[g].checked \in Nat /\ xg[g].first \in Nat
                        /\ Available(xg[g]) => xg[g].first # Never
  BY TimeTypes, CheckRowType DEF XGRow, Available
<1>4. Available(xg[g]) => xg[g] # Absent
  BY DEF Available
<1>5. CASE XGAccepted(xg[g], at)
  <2>1. new = XGWritten(g, xg[g], v, at)
    BY <1>5 DEF WriteAvailable
  <2>2. /\ new.available = TRUE
        /\ new.first = IF Available(xg[g]) THEN xg[g].first ELSE at
        /\ new.checked = IF xg[g] = Absent THEN at ELSE Later(xg[g].checked, at)
    BY <2>1 DEF XGWritten
  <2>3. CASE xg[g] = Absent
    BY <1>1, <1>2, <1>4, <2>2, <2>3 DEF Available
  <2>4. CASE xg[g] # Absent
    <3>1. /\ new.checked >= at /\ new.checked >= xg[g].checked /\ new.checked \in Nat
          /\ new.checked = at \/ new.checked = xg[g].checked
      BY <1>2, <1>3, <2>2, <2>4 DEF Later
    <3>2. new.first <= new.checked /\ new.first \in Nat \ {0}
      BY <1>2, <1>3, <2>2, <2>4, <3>1 DEF Never
    <3> QED
      BY <1>1, <1>2, <1>3, <2>2, <2>4, <3>1, <3>2 DEF Available
  <2> QED
    BY <2>3, <2>4
<1>6. CASE ~XGAccepted(xg[g], at)
  <2>1. new = xg[g] /\ Available(xg[g])
    BY <1>6 DEF WriteAvailable, XGAccepted
  <2> QED
    BY <1>1, <1>3, <1>4, <2>1 DEF Never
<1> QED
  BY <1>5, <1>6

LEMMA OmittedRow ==
    ASSUME TypeOK, NEW g \in Games, games[g] # Absent, NEW at \in Times,
           NEW new, new = WriteUnavailable(g, at),
           xg[g] # Absent => xg[g].first <= xg[g].checked
    PROVE  /\ new # Absent
           /\ Available(new) <=> Available(xg[g])
           /\ new.first <= new.checked
           /\ new.checked <= at \/ (xg[g] # Absent /\ new.checked <= xg[g].checked)
           /\ Available(xg[g]) => new.first = xg[g].first
           /\ xg[g] # Absent => xg[g].checked <= new.checked
           /\ new.checked \in Nat
<1>1. new \in XGRow /\ new # Absent
  BY UnavailableType, ConstantFacts
<1>2. at \in Nat \ {0}
  BY TimeTypes
<1>3. CASE xg[g] = Absent
  BY <1>1, <1>2, <1>3 DEF WriteUnavailable, Available, Never
<1>4. CASE xg[g] # Absent
  <2>1. xg[g] \in XGRow /\ xg[g].checked \in Nat /\ xg[g].first \in Nat
    BY <1>4, TimeTypes, CheckRowType DEF XGRow
  <2>2. new = [xg[g] EXCEPT !.checked = Later(xg[g].checked, at)]
    BY <1>4 DEF WriteUnavailable
  <2>3. /\ new.available = xg[g].available /\ new.first = xg[g].first
        /\ new.checked = Later(xg[g].checked, at)
    BY <2>1, <2>2 DEF XGRow
  <2>4. /\ new.checked >= at /\ new.checked >= xg[g].checked /\ new.checked \in Nat
        /\ new.checked = at \/ new.checked = xg[g].checked
    BY <1>2, <2>1, <2>3 DEF Later
  <2> QED
    BY <1>1, <1>2, <1>4, <2>1, <2>3, <2>4 DEF Available
<1> QED
  BY <1>3, <1>4

(* A match whose xG was asked for: with a value, or without one.           *)
LEMMA AgreeWritten ==
    ASSUME TypeOK, NEW g \in Games, games[g] # Absent, NEW v \in XGValue, NEW at \in Times,
           Agree(xg[g], xgCheck[g]), NEW check \in CheckRow,
           Recorded(xgCheck[g], at, TRUE, check)
    PROVE  Agree(WriteAvailable(g, v, at), check)
<1> DEFINE new == WriteAvailable(g, v, at)
<1>1. at \in Nat \ {0} /\ check.first \in Nat /\ check.checked \in Nat /\ check # Absent
  BY TimeTypes, ConstantFacts DEF CheckRow
<1>2. xg[g] # Absent => /\ xgCheck[g] # Absent /\ xgCheck[g] \in CheckRow
                        /\ xg[g].first <= xg[g].checked /\ xg[g].checked <= xgCheck[g].checked
                        /\ xg[g].checked \in Nat /\ xg[g].first \in Nat
                        /\ xgCheck[g].checked \in Nat /\ xgCheck[g].first \in Nat
  BY CheckRowType, TimeTypes DEF Agree, XGRow, CheckRow
<1>3. Available(xg[g]) => /\ xg[g] # Absent
                          /\ xgCheck[g].first # Never /\ xgCheck[g].first <= xg[g].first
  BY DEF Agree, Available
<1>4. /\ new # Absent /\ Available(new)
      /\ new.first <= new.checked
      /\ new.checked <= at \/ (xg[g] # Absent /\ new.checked <= xg[g].checked)
      /\ new.first = IF Available(xg[g]) THEN xg[g].first ELSE at
      /\ new.first \in Nat \ {0} /\ new.checked \in Nat
  BY <1>2, WrittenRow
<1> HIDE DEF new
<1>5. /\ at <= check.checked /\ check.first # Never /\ check.first <= at
      /\ xgCheck[g] # Absent => xgCheck[g].checked <= check.checked
      /\ xgCheck[g] # Absent /\ xgCheck[g].first # Never => check.first <= xgCheck[g].first
  BY DEF Recorded
<1>6. new.checked <= check.checked
  BY <1>1, <1>2, <1>4, <1>5
<1>7. check.first <= new.first
  <2>1. CASE Available(xg[g])
    BY <1>1, <1>2, <1>3, <1>4, <1>5, <2>1
  <2>2. CASE ~Available(xg[g])
    BY <1>4, <1>5, <2>2
  <2> QED
    BY <2>1, <2>2
<1> QED
  BY <1>1, <1>4, <1>5, <1>6, <1>7 DEF Agree, new

LEMMA AgreeOmitted ==
    ASSUME TypeOK, NEW g \in Games, games[g] # Absent, NEW at \in Times,
           Agree(xg[g], xgCheck[g]), NEW check \in CheckRow,
           Recorded(xgCheck[g], at, FALSE, check)
    PROVE  /\ Agree(WriteUnavailable(g, at), check)
           /\ Agree(xg[g], check)
<1> DEFINE new == WriteUnavailable(g, at)
<1>1. at \in Nat \ {0} /\ check.first \in Nat /\ check.checked \in Nat /\ check # Absent
  BY TimeTypes, ConstantFacts DEF CheckRow
<1>2. xg[g] # Absent => /\ xgCheck[g] # Absent /\ xgCheck[g] \in CheckRow
                        /\ xg[g].first <= xg[g].checked /\ xg[g].checked <= xgCheck[g].checked
                        /\ xg[g].checked \in Nat /\ xgCheck[g].checked \in Nat
  BY CheckRowType, TimeTypes DEF Agree, XGRow, CheckRow
<1>3. /\ Available(xg[g]) => /\ xg[g] # Absent
                             /\ xgCheck[g].first # Never /\ xgCheck[g].first <= xg[g].first
      /\ xgCheck[g] # Absent /\ xgCheck[g].first # Never => Available(xg[g])
  BY DEF Agree, Available
<1>4. /\ new # Absent
      /\ Available(new) <=> Available(xg[g])
      /\ new.first <= new.checked
      /\ new.checked <= at \/ (xg[g] # Absent /\ new.checked <= xg[g].checked)
      /\ Available(xg[g]) => new.first = xg[g].first
      /\ new.checked \in Nat
  BY <1>2, OmittedRow
<1> HIDE DEF new
<1>5. /\ at <= check.checked
      /\ xgCheck[g] # Absent => /\ xgCheck[g].checked <= check.checked
                                /\ check.first = xgCheck[g].first
      /\ check.first # Never => xgCheck[g] # Absent /\ xgCheck[g].first # Never
  BY DEF Recorded
<1>6. new.checked <= check.checked
  BY <1>1, <1>2, <1>4, <1>5
<1>7. Agree(new, check)
  BY <1>1, <1>2, <1>3, <1>4, <1>5, <1>6 DEF Agree
<1>8. xg[g] # Absent => xg[g].checked <= check.checked
  BY <1>1, <1>2, <1>5
<1>9. Agree(xg[g], check)
  BY <1>1, <1>2, <1>3, <1>5, <1>8 DEF Agree
<1> QED
  BY <1>7, <1>9 DEF new

(* The xG ledger, one lemma per operation that touches it.                 *)
XGLedgerSound == \A g \in Games : Agree(xg[g], xgCheck[g]) /\ InOrderRow(xgCheck[g])

LEMMA ObservedXG ==
    ASSUME TypeOK, XGLedgerSound, NEW g \in Games, NEW at \in Times, NEW due \in Dues,
           NEW preserve \in BOOLEAN, NEW seen \in BOOLEAN, NEW material \in BOOLEAN,
           NEW check, check = Checked(xgCheck[g], at, due, preserve, seen, material)
    PROVE  check \in CheckRow /\ Recorded(xgCheck[g], at, seen, check) /\ InOrderRow(check)
<1>1. xgCheck[g] \in CheckRow \cup {Absent} /\ InOrderRow(xgCheck[g])
  BY CheckRowType DEF XGLedgerSound
<1>2. check \in CheckRow
  BY <1>1, CheckedType
<1>3. Recorded(xgCheck[g], at, seen, check)
  BY <1>1, CheckedTimes
<1> QED
  BY <1>2, <1>3 DEF Recorded, InOrderRow

LEMMA LedgerInventory ==
    ASSUME XGLedgerSound, NEW resp, NEW at, NEW due, ReplaceGameInventory(resp, at, due)
    PROVE  XGLedgerSound'
<1> DEFINE gone == Dropped(Inventory(resp))
<1>1. /\ xg' = [g \in Games |-> IF g \in gone THEN Absent ELSE xg[g]]
      /\ xgCheck' = [g \in Games |-> IF g \in gone THEN Absent ELSE xgCheck[g]]
  BY DEF ReplaceGameInventory
<1>2. Agree(Absent, Absent) /\ InOrderRow(Absent)
  BY DEF Agree, InOrderRow, Available
<1> HIDE DEF gone
<1> QED
  BY <1>1, <1>2 DEF XGLedgerSound

LEMMA LedgerStageXG ==
    ASSUME TypeOK, XGLedgerSound,
           NEW resp \in Responses(XGValue), NEW at \in Times, NEW due \in DueAfter(at),
           ReplaceStageXG(resp, at, due)
    PROVE  XGLedgerSound'
<1> SUFFICES ASSUME NEW g \in Games
             PROVE  Agree(xg'[g], xgCheck'[g]) /\ InOrderRow(xgCheck'[g])
  BY DEF XGLedgerSound
<1>1. Agree(xg[g], xgCheck[g]) /\ InOrderRow(xgCheck[g]) /\ DOMAIN resp \subseteq Completed
  BY DEF XGLedgerSound, ReplaceStageXG
<1>2. CASE g \notin Completed
  BY <1>1, <1>2 DEF ReplaceStageXG
<1>3. CASE g \in Completed
  <2>1. games[g] # Absent
    BY <1>3 DEF Completed, FullTime
  <2>2. Never \in Dues /\ TRUE \in BOOLEAN /\ FALSE \in BOOLEAN
    BY TimeTypes
  <2>3. CASE g \in DOMAIN resp
    <3> DEFINE material == MaterialXG(g, resp[g], at)
    <3>1. xg'[g] = WriteAvailable(g, resp[g], at)
          /\ xgCheck'[g] = Checked(xgCheck[g], at, Never, TRUE, TRUE, material)
      BY <1>3, <2>3 DEF ReplaceStageXG
    <3>2. resp[g] \in XGValue
      BY <2>3, ResponseType
    <3>3. material \in BOOLEAN
      BY DEF MaterialXG
    <3> HIDE DEF material
    <3>4. xgCheck'[g] \in CheckRow /\ Recorded(xgCheck[g], at, TRUE, xgCheck'[g])
          /\ InOrderRow(xgCheck'[g])
      BY <2>2, <3>1, <3>3, ObservedXG
    <3> QED
      BY <1>1, <2>1, <3>1, <3>2, <3>4, AgreeWritten
  <2>4. CASE g \notin DOMAIN resp
    <3> DEFINE seen == g \in DOMAIN resp
               material == IF g \in DOMAIN resp THEN MaterialXG(g, resp[g], at) ELSE FALSE
    <3>0. xg'[g] = WriteUnavailable(g, at)
          /\ xgCheck'[g] = Checked(xgCheck[g], at, Never, TRUE, seen, material)
      BY <1>3, <2>4 DEF ReplaceStageXG
    <3>5. seen = FALSE /\ material = FALSE
      BY <2>4
    <3> HIDE DEF seen, material
    <3>1. xg'[g] = WriteUnavailable(g, at)
          /\ xgCheck'[g] = Checked(xgCheck[g], at, Never, TRUE, FALSE, FALSE)
      BY <3>0, <3>5
    <3>2. xgCheck'[g] \in CheckRow /\ Recorded(xgCheck[g], at, FALSE, xgCheck'[g])
          /\ InOrderRow(xgCheck'[g])
      BY <2>2, <3>1, ObservedXG
    <3> QED
      BY <1>1, <2>1, <3>1, <3>2, AgreeOmitted
  <2> QED
    BY <2>3, <2>4
<1> QED
  BY <1>2, <1>3

LEMMA LedgerCheckedXG ==
    ASSUME TypeOK, XGLedgerSound,
           NEW req \in SUBSET Games, NEW resp \in Responses(XGValue),
           NEW at \in Times, NEW due \in DueAfter(at), NEW materialDue \in DueAfter(at),
           UpsertCheckedXG(req, resp, at, due, materialDue)
    PROVE  XGLedgerSound'
<1> SUFFICES ASSUME NEW g \in Games
             PROVE  Agree(xg'[g], xgCheck'[g]) /\ InOrderRow(xgCheck'[g])
  BY DEF XGLedgerSound
<1>1. Agree(xg[g], xgCheck[g]) /\ InOrderRow(xgCheck[g])
      /\ DOMAIN resp \subseteq req /\ req \subseteq Completed
  BY DEF XGLedgerSound, UpsertCheckedXG
<1>2. CASE g \notin req
  BY <1>1, <1>2 DEF UpsertCheckedXG
<1>3. CASE g \in req
  <2>1. games[g] # Absent
    BY <1>1, <1>3 DEF Completed, FullTime
  <2>2. TRUE \in BOOLEAN /\ FALSE \in BOOLEAN /\ due \in Dues /\ materialDue \in Dues
    BY DueType
  <2>3. CASE g \in DOMAIN resp
    <3> DEFINE material == MaterialXG(g, resp[g], at)
               next == IF material /\ materialDue # Never THEN materialDue ELSE due
    <3>1. xg'[g] = WriteAvailable(g, resp[g], at)
          /\ xgCheck'[g] = Checked(xgCheck[g], at, next, FALSE, TRUE, material)
      BY <1>3, <2>3 DEF UpsertCheckedXG
    <3>2. resp[g] \in XGValue
      BY <2>3, ResponseType
    <3>3. material \in BOOLEAN /\ next \in Dues
      BY <2>2 DEF MaterialXG
    <3> HIDE DEF material, next
    <3>4. xgCheck'[g] \in CheckRow /\ Recorded(xgCheck[g], at, TRUE, xgCheck'[g])
          /\ InOrderRow(xgCheck'[g])
      BY <2>2, <3>1, <3>3, ObservedXG
    <3> QED
      BY <1>1, <2>1, <3>1, <3>2, <3>4, AgreeWritten
  <2>4. CASE g \notin DOMAIN resp
    <3> DEFINE seen == g \in DOMAIN resp
               material == IF g \in DOMAIN resp THEN MaterialXG(g, resp[g], at) ELSE FALSE
               next == IF material /\ materialDue # Never THEN materialDue ELSE due
    <3>0. xg'[g] = xg[g] /\ xgCheck'[g] = Checked(xgCheck[g], at, next, FALSE, seen, material)
      BY <1>3, <2>4 DEF UpsertCheckedXG
    <3>5. seen = FALSE /\ material = FALSE /\ next = due
      BY <2>4
    <3> HIDE DEF seen, material, next
    <3>1. xg'[g] = xg[g] /\ xgCheck'[g] = Checked(xgCheck[g], at, due, FALSE, FALSE, FALSE)
      BY <3>0, <3>5
    <3>2. xgCheck'[g] \in CheckRow /\ Recorded(xgCheck[g], at, FALSE, xgCheck'[g])
          /\ InOrderRow(xgCheck'[g])
      BY <2>2, <3>1, ObservedXG
    <3> QED
      BY <1>1, <2>1, <3>1, <3>2, AgreeOmitted
  <2> QED
    BY <2>3, <2>4
<1> QED
  BY <1>2, <1>3

LEMMA LedgerStep ==
    TypeOK /\ ResultLedgerAgrees /\ XGLedgerSound /\ [Next]_vars
    => ResultLedgerAgrees' /\ XGLedgerSound'
<1> SUFFICES ASSUME TypeOK, ResultLedgerAgrees, XGLedgerSound, [Next]_vars
             PROVE  ResultLedgerAgrees' /\ XGLedgerSound'
  OBVIOUS
<1>0. Finish \subseteq Times
  BY DEF Finish
<1>1. UNCHANGED <<games, resultCheck>> => ResultLedgerAgrees'
  BY DEF ResultLedgerAgrees
<1>2. UNCHANGED <<xg, xgCheck>> => XGLedgerSound'
  BY DEF XGLedgerSound
<1>3. ASSUME NEW batch, NEW at, NEW due,
             UpsertTeams(batch, at, due) \/ EmptyDiscovery(at, due)
      PROVE  UNCHANGED <<games, resultCheck, xg, xgCheck>>
  BY <1>3 DEF UpsertTeams, EmptyDiscovery
<1>4. UNCHANGED vars => UNCHANGED <<games, resultCheck, xg, xgCheck>>
  BY DEF vars
<1>5. ASSUME NEW req, NEW resp, NEW at, NEW due, NEW materialDue,
             UpsertCheckedGames(req, resp, at, due, materialDue)
      PROVE  UNCHANGED <<xg, xgCheck>>
  BY <1>5 DEF UpsertCheckedGames
<1>6. ASSUME NEW req, NEW resp, NEW at, NEW due, NEW materialDue,
             ReplaceStageXG(resp, at, due) \/ UpsertCheckedXG(req, resp, at, due, materialDue)
      PROVE  UNCHANGED <<games, resultCheck>>
  BY <1>6 DEF ReplaceStageXG, UpsertCheckedXG
<1>7. ASSUME NEW resp \in Responses(GameRow), NEW at \in Finish, NEW due \in DueAfter(at),
             ReplaceGameInventory(resp, at, due)
      PROVE  ResultLedgerAgrees' /\ XGLedgerSound'
  BY <1>0, <1>7, ResultsInventory, LedgerInventory
<1>8. ASSUME NEW req \in SUBSET Games, NEW resp \in Responses(GameRow), NEW at \in Finish,
             NEW due \in DueAfter(at), NEW materialDue \in DueAfter(at),
             UpsertCheckedGames(req, resp, at, due, materialDue)
      PROVE  ResultLedgerAgrees' /\ XGLedgerSound'
  BY <1>0, <1>2, <1>5, <1>8, ResultsCheckedGames
<1>9. ASSUME NEW resp \in Responses(XGValue), NEW at \in Times, NEW due \in DueAfter(at),
             ReplaceStageXG(resp, at, due)
      PROVE  ResultLedgerAgrees' /\ XGLedgerSound'
  BY <1>1, <1>6, <1>9, LedgerStageXG
<1>10. ASSUME NEW req \in SUBSET Games, NEW resp \in Responses(XGValue), NEW at \in Times,
              NEW due \in DueAfter(at), NEW materialDue \in DueAfter(at),
              UpsertCheckedXG(req, resp, at, due, materialDue)
       PROVE  ResultLedgerAgrees' /\ XGLedgerSound'
  BY <1>1, <1>6, <1>10, LedgerCheckedXG
<1> QED
  BY <1>1, <1>2, <1>3, <1>4, <1>7, <1>8, <1>9, <1>10 DEF Next

LEMMA LedgerInvariantHolds == Spec => [](ResultLedgerAgrees /\ XGLedgerSound)
<1>1. Init => ResultLedgerAgrees /\ XGLedgerSound
  BY DEF Init, ResultLedgerAgrees, XGLedgerSound, Agree, InOrderRow, Available
<1> QED
  BY <1>1, TypeCorrect, LedgerStep, PTL DEF Spec

(* Whatever order observations arrive in, both ledgers agree with the      *)
(* tables: a first sighting exists exactly for what is known, and nothing  *)
(* is recorded later than the last check.                                  *)
THEOREM LedgersCorrect == Spec => []LedgersAgree
<1>1. ResultLedgerAgrees /\ XGLedgerSound => LedgersAgree
  BY AgreeIsLedger DEF LedgersAgree, XGLedgerSound
<1> QED
  BY <1>1, LedgerInvariantHolds, PTL

-----------------------------------------------------------------------------
(* Nothing learned is taken back.  Each operation, for one match.          *)
Kept(g) ==
    /\ Terminal(games[g]) /\ games'[g] # Absent => Terminal(games'[g])
    /\ resultCheck[g] # Absent /\ resultCheck'[g] # Absent =>
          resultCheck[g].checked <= resultCheck'[g].checked
    /\ xgCheck[g] # Absent /\ xgCheck'[g] # Absent =>
          xgCheck[g].checked <= xgCheck'[g].checked

Fresher == \A r \in Resources :
              scope[r] # Absent => scope'[r] # Absent /\ scope[r].success <= scope'[r].success

LEMMA RefreshedLater ==
    ASSUME TypeOK, NEW r \in Resources, NEW at \in Times, NEW due \in Dues,
           scope' = [scope EXCEPT ![r] = Refreshed(@, at, due)]
    PROVE  Fresher
<1>1. \A q \in Resources : scope[q] \in ScopeRow \cup {Absent}
  BY DEF TypeOK
<1>2. at \in Nat /\ Absent \notin ScopeRow
  BY TimeTypes, ConstantFacts
<1>3. \A q \in Resources : scope[q] # Absent => scope[q].success \in Nat
  BY <1>1, TimeTypes DEF ScopeRow
<1>4. \A q \in Resources \ {r} : scope'[q] = scope[q]
  BY DEF TypeOK
<1>5. scope'[r] = Refreshed(scope[r], at, due) /\ Refreshed(scope[r], at, due) \in ScopeRow
  BY <1>1, RefreshedType DEF TypeOK
<1>6. ASSUME scope[r] # Absent PROVE scope[r].success <= scope'[r].success
  BY <1>2, <1>3, <1>5, <1>6 DEF Refreshed
<1> QED
  BY <1>2, <1>3, <1>4, <1>5, <1>6 DEF Fresher

LEMMA AcceleratedLater ==
    ASSUME TypeOK, NEW at \in Times, NEW table,
           scope' = [scope EXCEPT !["games"] = Accelerated(@, at, table)]
    PROVE  Fresher
<1>1. \A q \in Resources : scope[q] # Absent => scope[q].success \in Nat
  BY TimeTypes DEF TypeOK, ScopeRow
<1>2. \A q \in Resources \ {"games"} : scope'[q] = scope[q]
  BY DEF TypeOK
<1>3. "games" \in Resources /\ scope'["games"] = Accelerated(scope["games"], at, table)
  BY DEF Resources, TypeOK
<1>4. ASSUME scope["games"] # Absent
      PROVE  scope'["games"] # Absent /\ scope'["games"].success = scope["games"].success
  <2>1. [success |-> scope["games"].success, due |-> at] \in ScopeRow
    BY <1>3, <1>4, TimeTypes DEF TypeOK, ScopeRow
  <2> QED
    BY <1>3, <1>4, <2>1, ConstantFacts DEF Accelerated
<1> QED
  BY <1>1, <1>2, <1>3, <1>4 DEF Fresher

LEMMA SameCheck ==
    ASSUME TypeOK, NEW g \in Games
    PROVE  /\ resultCheck[g] # Absent => resultCheck[g].checked <= resultCheck[g].checked
           /\ xgCheck[g] # Absent => xgCheck[g].checked <= xgCheck[g].checked
<1>1. \A n \in Nat : n <= n
  OBVIOUS
<1>2. /\ resultCheck[g] # Absent => resultCheck[g].checked \in Nat
      /\ xgCheck[g] # Absent => xgCheck[g].checked \in Nat
  BY CheckRowType, TimeTypes DEF CheckRow
<1> QED
  BY <1>1, <1>2

LEMMA CheckedLater ==
    ASSUME NEW old \in CheckRow, NEW at \in Times, NEW due, NEW preserve, NEW seen, NEW material
    PROVE  old.checked <= Checked(old, at, due, preserve, seen, material).checked
<1>1. Checked(old, at, due, preserve, seen, material).checked = Later(old.checked, at)
  BY ConstantFacts DEF Checked
<1>2. old.checked \in Moments /\ at \in Moments
  BY TimeTypes DEF CheckRow
<1> QED
  BY <1>1, <1>2, LaterType

LEMMA KeptInventory ==
    ASSUME TypeOK, NEW resp \in Responses(GameRow), NEW at \in Times, NEW due \in DueAfter(at),
           ReplaceGameInventory(resp, at, due), NEW g \in Games
    PROVE  Kept(g)
<1>1. Terminal(games[g]) /\ games'[g] # Absent => Terminal(games'[g])
  BY InventoryRow DEF ReplaceGameInventory
<1>2. resultCheck[g] # Absent /\ resultCheck'[g] # Absent =>
         resultCheck[g].checked <= resultCheck'[g].checked
  BY CheckRowType, CheckedLater DEF ReplaceGameInventory
<1>3. xgCheck'[g] # Absent => xgCheck'[g] = xgCheck[g]
  BY DEF ReplaceGameInventory
<1> QED
  BY <1>1, <1>2, <1>3, SameCheck DEF Kept

LEMMA KeptCheckedGames ==
    ASSUME TypeOK, NEW req \in SUBSET Games, NEW resp \in Responses(GameRow),
           NEW at \in Times, NEW due \in DueAfter(at), NEW materialDue \in DueAfter(at),
           UpsertCheckedGames(req, resp, at, due, materialDue), NEW g \in Games
    PROVE  Kept(g)
<1>1. Terminal(games[g]) => Terminal(games'[g])
  BY PolledRows, TargetedRow
<1>2. resultCheck[g] # Absent => resultCheck[g].checked <= resultCheck'[g].checked
  <2>1. CASE g \in req
    BY <2>1, CheckRowType, CheckedLater DEF UpsertCheckedGames
  <2>2. CASE g \notin req
    BY <2>2, SameCheck DEF UpsertCheckedGames
  <2> QED
    BY <2>1, <2>2
<1>3. xgCheck' = xgCheck
  BY DEF UpsertCheckedGames
<1> QED
  BY <1>1, <1>2, <1>3, SameCheck DEF Kept

LEMMA KeptXG ==
    ASSUME TypeOK, NEW req, NEW resp, NEW at \in Times, NEW due, NEW materialDue,
           ReplaceStageXG(resp, at, due) \/ UpsertCheckedXG(req, resp, at, due, materialDue),
           NEW g \in Games
    PROVE  Kept(g)
<1>1. games' = games /\ resultCheck' = resultCheck
  BY DEF ReplaceStageXG, UpsertCheckedXG
<1>2. xgCheck[g] # Absent => xgCheck[g].checked <= xgCheck'[g].checked
  <2>1. CASE ReplaceStageXG(resp, at, due)
    <3>1. CASE g \in Completed
      BY <2>1, <3>1, CheckRowType, CheckedLater DEF ReplaceStageXG
    <3>2. CASE g \notin Completed
      BY <2>1, <3>2, SameCheck DEF ReplaceStageXG
    <3> QED
      BY <3>1, <3>2
  <2>2. CASE UpsertCheckedXG(req, resp, at, due, materialDue)
    <3>1. CASE g \in req
      BY <2>2, <3>1, CheckRowType, CheckedLater DEF UpsertCheckedXG
    <3>2. CASE g \notin req
      BY <2>2, <3>2, SameCheck DEF UpsertCheckedXG
    <3> QED
      BY <3>1, <3>2
  <2> QED
    BY <2>1, <2>2
<1> QED
  BY <1>1, <1>2, SameCheck DEF Kept

LEMMA KeptStep == TypeOK /\ [Next]_vars => Fresher /\ \A g \in Games : Kept(g)
<1> SUFFICES ASSUME TypeOK, [Next]_vars PROVE Fresher /\ \A g \in Games : Kept(g)
  OBVIOUS
<1>0. Finish \subseteq Times /\ Resources = {"teams", "games", "xg"}
  BY DEF Finish, Resources
<1>1. UNCHANGED scope => Fresher
  <2>1. \A r \in Resources : scope[r] # Absent => scope[r].success \in Nat
    BY TimeTypes DEF TypeOK, ScopeRow
  <2>2. \A n \in Nat : n <= n
    OBVIOUS
  <2> QED
    BY <2>1, <2>2 DEF Fresher
<1>2. UNCHANGED <<games, resultCheck, xgCheck>> => \A g \in Games : Kept(g)
  BY SameCheck DEF Kept
<1>3. ASSUME NEW batch \in TeamBatches, NEW at \in Times, NEW due \in DueAfter(at),
             UpsertTeams(batch, at, due)
      PROVE  Fresher /\ \A g \in Games : Kept(g)
  <2>1. scope' = [scope EXCEPT !["teams"] = Refreshed(@, at, due)] /\ due \in Dues
    BY <1>3, DueType DEF UpsertTeams
  <2>2. Fresher
    BY <1>0, <2>1, RefreshedLater
  <2> QED
    BY <1>2, <1>3, <2>2 DEF UpsertTeams
<1>4. ASSUME NEW at \in Finish, NEW due \in DueAfter(at), EmptyDiscovery(at, due)
      PROVE  Fresher /\ \A g \in Games : Kept(g)
  <2>1. scope' = [scope EXCEPT !["games"] = Refreshed(@, at, due)] /\ due \in Dues
    BY <1>0, <1>4, DueType DEF EmptyDiscovery
  <2>2. Fresher
    BY <1>0, <2>1, RefreshedLater
  <2> QED
    BY <1>2, <1>4, <2>2 DEF EmptyDiscovery
<1>5. ASSUME NEW resp \in Responses(GameRow), NEW at \in Finish, NEW due \in DueAfter(at),
             ReplaceGameInventory(resp, at, due)
      PROVE  Fresher /\ \A g \in Games : Kept(g)
  <2>1. scope' = [scope EXCEPT !["games"] = Refreshed(@, at, due)] /\ due \in Dues
    BY <1>0, <1>5, DueType DEF ReplaceGameInventory
  <2>2. Fresher
    BY <1>0, <2>1, RefreshedLater
  <2> QED
    BY <1>0, <1>5, <2>2, KeptInventory
<1>6. ASSUME NEW req \in SUBSET Games, NEW resp \in Responses(GameRow), NEW at \in Finish,
             NEW due \in DueAfter(at), NEW materialDue \in DueAfter(at),
             UpsertCheckedGames(req, resp, at, due, materialDue)
      PROVE  Fresher /\ \A g \in Games : Kept(g)
  <2>1. scope' = [scope EXCEPT !["games"] = Accelerated(@, at, TargetedTable(resp))]
    BY <1>6 DEF UpsertCheckedGames
  <2>2. Fresher
    BY <1>0, <2>1, AcceleratedLater
  <2> QED
    BY <1>0, <1>6, <2>2, KeptCheckedGames
<1>7. ASSUME NEW resp \in Responses(XGValue), NEW at \in Times, NEW due \in DueAfter(at),
             ReplaceStageXG(resp, at, due)
      PROVE  Fresher /\ \A g \in Games : Kept(g)
  <2>1. scope' = [scope EXCEPT !["xg"] = Refreshed(@, at, due)] /\ due \in Dues
    BY <1>7, DueType DEF ReplaceStageXG
  <2>2. Fresher
    BY <1>0, <2>1, RefreshedLater
  <2> QED
    BY <1>7, <2>2, KeptXG
<1>8. ASSUME NEW req \in SUBSET Games, NEW resp \in Responses(XGValue), NEW at \in Times,
             NEW due \in DueAfter(at), NEW materialDue \in DueAfter(at),
             UpsertCheckedXG(req, resp, at, due, materialDue)
      PROVE  Fresher /\ \A g \in Games : Kept(g)
  <2>1. scope' = scope
    BY <1>8 DEF UpsertCheckedXG
  <2> QED
    BY <1>1, <1>8, <2>1, KeptXG
<1>9. UNCHANGED vars => UNCHANGED <<games, resultCheck, xgCheck, scope>>
  BY DEF vars
<1> QED
  BY <1>1, <1>2, <1>3, <1>4, <1>5, <1>6, <1>7, <1>8, <1>9 DEF Next

(* A late, shorter or repeated answer takes no result back and moves no    *)
(* recorded time backwards.                                                *)
THEOREM LateAnswersCorrect == Spec => LateAnswersHarmless
<1>1. TypeOK /\ [Next]_vars =>
         [\A g \in Games : Terminal(games[g]) /\ games'[g] # Absent => Terminal(games'[g])]_vars
  BY KeptStep DEF Kept
<1>2. TypeOK /\ [Next]_vars =>
        [/\ \A r \in Resources :
              scope[r] # Absent => scope'[r] # Absent /\ scope[r].success <= scope'[r].success
         /\ \A g \in Games :
              /\ resultCheck[g] # Absent /\ resultCheck'[g] # Absent =>
                     resultCheck[g].checked <= resultCheck'[g].checked
              /\ xgCheck[g] # Absent /\ xgCheck'[g] # Absent =>
                     xgCheck[g].checked <= xgCheck'[g].checked]_vars
  BY KeptStep DEF Kept, Fresher
<1> QED
  BY <1>1, <1>2, TypeCorrect, PTL DEF Spec, LateAnswersHarmless, TerminalStays, FreshnessMonotone

-----------------------------------------------------------------------------
(* xG values.  What a step does to the value of one match.                 *)
Improves(g) ==
    /\ Available(xg[g]) /\ games'[g] # Absent /\ games'[g].pair = games[g].pair
          => /\ Available(xg'[g])
             /\ xg[g].split # Absent => xg'[g].split # Absent
    /\ Available(xg[g]) /\ Available(xg'[g]) /\ xg[g].pair = xg'[g].pair
          /\ xg[g].value # xg'[g].value => xg[g].checked < xg'[g].checked

LEMMA ImprovesWritten ==
    ASSUME TypeOK, NEW g \in Games, games[g] # Absent, NEW v \in XGValue, NEW at \in Times,
           xg'[g] = WriteAvailable(g, v, at)
    PROVE  Improves(g)
<1>1. CASE XGAccepted(xg[g], at) /\ Available(xg[g])
  <2>1. xg'[g] = XGWritten(g, xg[g], v, at) /\ xg[g] # Absent /\ at > xg[g].checked
    BY <1>1 DEF WriteAvailable, XGAccepted, Available
  <2>2. /\ xg'[g].available = TRUE
        /\ xg'[g].split = IF v.split = Absent THEN xg[g].split ELSE v.split
        /\ xg'[g].checked = Later(xg[g].checked, at)
    BY <1>1, <2>1 DEF XGWritten
  <2>3. xg[g].checked \in Nat /\ at \in Nat
    BY <2>1, CheckRowType, TimeTypes DEF XGRow
  <2>4. xg[g].checked < xg'[g].checked
    BY <2>1, <2>2, <2>3 DEF Later
  <2>5. xg'[g] # Absent
    BY WrittenType, ConstantFacts
  <2> QED
    BY <2>2, <2>4, <2>5 DEF Improves, Available
<1>2. CASE ~XGAccepted(xg[g], at)
  BY <1>2 DEF WriteAvailable, Improves
<1>3. CASE ~Available(xg[g])
  BY <1>3 DEF Improves
<1> QED
  BY <1>1, <1>2, <1>3

LEMMA ImprovesOmitted ==
    ASSUME TypeOK, NEW g \in Games, games[g] # Absent, NEW at \in Times,
           xg'[g] = WriteUnavailable(g, at)
    PROVE  Improves(g)
<1>1. CASE Available(xg[g])
  <2>1. xg[g] # Absent /\ xg[g] \in XGRow /\ xg'[g] # Absent
    BY <1>1, CheckRowType, UnavailableType, ConstantFacts DEF Available
  <2>2. /\ xg'[g].available = xg[g].available /\ xg'[g].split = xg[g].split
        /\ xg'[g].value = xg[g].value
    BY <2>1 DEF WriteUnavailable, XGRow
  <2> QED
    BY <1>1, <2>1, <2>2 DEF Improves, Available
<1>2. CASE ~Available(xg[g])
  BY <1>2 DEF Improves
<1> QED
  BY <1>1, <1>2

LEMMA ImprovesSame == ASSUME NEW g, xg'[g] = xg[g] PROVE Improves(g)
BY DEF Improves

LEMMA ImprovesInventory ==
    ASSUME TypeOK, XGBelongsToPairing,
           NEW resp, NEW at, NEW due, ReplaceGameInventory(resp, at, due), NEW g \in Games
    PROVE  Improves(g)
<1> DEFINE table == Inventory(resp)
<1>1. games' = table /\ xg'[g] = IF g \in Dropped(table) THEN Absent ELSE xg[g]
  BY DEF ReplaceGameInventory
<1> HIDE DEF table
<1>2. CASE g \in Dropped(table)
  <2>1. games'[g] = Absent \/ (games[g] # Absent /\ games'[g].pair # games[g].pair)
    BY <1>1, <1>2 DEF Dropped, Repaired
  <2>2. xg'[g] = Absent
    BY <1>1, <1>2
  <2> QED
    BY <2>1, <2>2 DEF Improves, Available
<1>3. CASE g \notin Dropped(table)
  BY <1>1, <1>3, ImprovesSame
<1> QED
  BY <1>2, <1>3

LEMMA ImprovesStep ==
    TypeOK /\ XGBelongsToPairing /\ [Next]_vars => \A g \in Games : Improves(g)
<1> SUFFICES ASSUME TypeOK, XGBelongsToPairing, [Next]_vars, NEW g \in Games
             PROVE  Improves(g)
  OBVIOUS
<1>0. Completed \subseteq Games /\ \A h \in Completed : games[h] # Absent
  BY DEF Completed, FullTime
<1>1. ASSUME NEW resp \in Responses(GameRow), NEW at, NEW due,
             ReplaceGameInventory(resp, at, due)
      PROVE  Improves(g)
  BY <1>1, ImprovesInventory
<1>2. ASSUME NEW resp \in Responses(XGValue), NEW at \in Times, NEW due,
             ReplaceStageXG(resp, at, due)
      PROVE  Improves(g)
  <2>1. CASE g \in DOMAIN resp
    <3>1. games[g] # Absent /\ resp[g] \in XGValue /\ xg'[g] = WriteAvailable(g, resp[g], at)
      BY <1>0, <1>2, <2>1, ResponseType DEF ReplaceStageXG
    <3> QED
      BY <3>1, ImprovesWritten
  <2>2. CASE g \notin DOMAIN resp /\ g \in Completed
    <3>1. xg'[g] = WriteUnavailable(g, at)
      BY <1>2, <2>2 DEF ReplaceStageXG
    <3> QED
      BY <1>0, <2>2, <3>1, ImprovesOmitted
  <2>3. CASE g \notin DOMAIN resp /\ g \notin Completed
    BY <1>2, <2>3, ImprovesSame DEF ReplaceStageXG
  <2> QED
    BY <2>1, <2>2, <2>3
<1>3. ASSUME NEW req, NEW resp \in Responses(XGValue), NEW at \in Times, NEW due, NEW materialDue,
             UpsertCheckedXG(req, resp, at, due, materialDue)
      PROVE  Improves(g)
  <2>1. CASE g \in DOMAIN resp
    <3>1. games[g] # Absent /\ resp[g] \in XGValue /\ xg'[g] = WriteAvailable(g, resp[g], at)
      BY <1>0, <1>3, <2>1, ResponseType DEF UpsertCheckedXG
    <3> QED
      BY <3>1, ImprovesWritten
  <2>2. CASE g \notin DOMAIN resp
    BY <1>3, <2>2, ImprovesSame DEF UpsertCheckedXG
  <2> QED
    BY <2>1, <2>2
<1>4. CASE UNCHANGED xg
  BY <1>4, ImprovesSame
<1>5. ASSUME NEW batch, NEW req, NEW resp, NEW at, NEW due, NEW materialDue,
             UpsertTeams(batch, at, due) \/ EmptyDiscovery(at, due)
             \/ UpsertCheckedGames(req, resp, at, due, materialDue)
      PROVE  UNCHANGED xg
  BY <1>5 DEF UpsertTeams, EmptyDiscovery, UpsertCheckedGames
<1>6. UNCHANGED vars => UNCHANGED xg
  BY DEF vars
<1> QED
  BY <1>1, <1>2, <1>3, <1>4, <1>5, <1>6 DEF Next

(* xG is never lost to an omission, a response without splits or a late    *)
(* observation, and only a later observation corrects it.                  *)
THEOREM ImprovementCorrect == Spec => XGOnlyImproves
<1>1. TypeOK /\ XGBelongsToPairing /\ [Next]_vars =>
        [\A g \in Games :
           /\ Available(xg[g])
           /\ games'[g] # Absent
           /\ games'[g].pair = games[g].pair
           => /\ Available(xg'[g])
              /\ xg[g].split # Absent => xg'[g].split # Absent]_vars
  BY ImprovesStep DEF Improves
<1>2. TypeOK /\ XGBelongsToPairing /\ [Next]_vars =>
        [\A g \in Games :
           Available(xg[g]) /\ Available(xg'[g]) /\ xg[g].pair = xg'[g].pair
              /\ xg[g].value # xg'[g].value => xg[g].checked < xg'[g].checked]_vars
  BY ImprovesStep DEF Improves
<1> QED
  BY <1>1, <1>2, TypeCorrect, PairingCorrect, PTL
  DEF Spec, XGOnlyImproves, XGNeverErased, XGCorrectionsAreNewer

-----------------------------------------------------------------------------
(* What the readers see, when the writes commit in the order of their      *)
(* finish times.                                                           *)
LEMMA LastWins ==
    ASSUME TypeOK, InOrder, NEW at \in Finish
    PROVE  /\ \A table : RunAfter(at, table) = [at |-> at, snapshot |-> SnapshotID(table)]
           /\ scope["games"] # Absent => scope["games"].success <= at
           /\ at \in Times
<1>1. at \in Times /\ at >= LatestGames
  BY DEF Finish
<1>2. lastRun # Absent => lastRun.at \in Nat
  BY TimeTypes DEF TypeOK, RunRow
<1>3. scope["games"] # Absent => scope["games"].success \in Nat
  BY TimeTypes DEF TypeOK, ScopeRow, Resources
<1>4. at \in Nat /\ Never \in Nat
  BY <1>1, TimeTypes
<1>5. /\ lastRun # Absent => lastRun.at <= at
      /\ scope["games"] # Absent => scope["games"].success <= at
  <2> DEFINE run == IF lastRun = Absent THEN Never ELSE lastRun.at
             full == IF scope["games"] = Absent THEN Never ELSE scope["games"].success
  <2>1. run \in Nat /\ full \in Nat
    BY <1>2, <1>3, <1>4
  <2>2. at >= (IF run < full THEN full ELSE run)
    BY <1>1 DEF LatestGames, Later
  <2> HIDE DEF run, full
  <2>3. run <= at /\ full <= at
    BY <1>4, <2>1, <2>2
  <2> QED
    BY <2>3 DEF run, full
<1>6. lastRun # Absent => at >= lastRun.at
  BY <1>2, <1>4, <1>5
<1> QED
  BY <1>1, <1>5, <1>6 DEF RunAfter

LEMMA ReadableGames ==
    ASSUME TypeOK, InOrder, NEW at \in Finish, NEW table \in [Games -> GameRow \cup {Absent}],
           games' = table, lastRun' = RunAfter(at, table), teams' = teams,
           \A g \in Cached(table) : {table[g].pair[1], table[g].pair[2]} \subseteq teams
    PROVE  SeasonReadable'
<1>1. lastRun' = [at |-> at, snapshot |-> SnapshotID(table)]
  BY LastWins
<1>2. lastRun' # Absent /\ lastRun'.snapshot = SnapshotID(table)
  <2>1. RunAfter(at, table) \in RunRow
    BY LastWins, RunType DEF TypeOK
  <2> QED
    BY <1>1, <2>1, ConstantFacts
<1> QED
  BY <1>2 DEF SeasonReadable, SeasonServed, SnapshotID, Cached

(* The participants of every cached match are in the catalog.              *)
ParticipantsKnown ==
    \A g \in Cached(games) : {games[g].pair[1], games[g].pair[2]} \subseteq teams

LEMMA PollNamesSame ==
    ASSUME ParticipantsKnown, TypeOK, NEW req, NEW resp \in Responses(GameRow), NEW at, NEW due,
           NEW materialDue, UpsertCheckedGames(req, resp, at, due, materialDue)
    PROVE  /\ Cached(TargetedTable(resp)) = Cached(games)
           /\ \A g \in Cached(games) : TargetedTable(resp)[g].pair = games[g].pair
           /\ \A g \in Cached(games) :
                 {TargetedTable(resp)[g].pair[1], TargetedTable(resp)[g].pair[2]} \subseteq teams
<1>1. \A g \in Games : /\ TargetedTable(resp)[g] = Absent <=> games[g] = Absent
                       /\ games[g] # Absent => TargetedTable(resp)[g].pair = games[g].pair
  BY PolledRows, TargetedRow
<1> QED
  BY <1>1 DEF Cached, ParticipantsKnown

(* A full inventory leaves rows whose teams are known: the accepted ones   *)
(* were checked, the kept ones were when they came.                        *)
LEMMA InventoryNamesTeams ==
    ASSUME ParticipantsKnown, TypeOK, NEW resp \in Responses(GameRow), NEW at, NEW due,
           ReplaceGameInventory(resp, at, due)
    PROVE  \A g \in Cached(Inventory(resp)) :
              {Inventory(resp)[g].pair[1], Inventory(resp)[g].pair[2]} \subseteq teams
<1> SUFFICES ASSUME NEW g \in Games, Inventory(resp)[g] # Absent
             PROVE  {Inventory(resp)[g].pair[1], Inventory(resp)[g].pair[2]} \subseteq teams
  BY DEF Cached
<1>1. g \in DOMAIN resp
  BY DEF Inventory
<1>2. {resp[g].pair[1], resp[g].pair[2]} \subseteq teams
  BY <1>1 DEF ReplaceGameInventory, InventoryAcceptable
<1>3. games[g] # Absent => {games[g].pair[1], games[g].pair[2]} \subseteq teams
  BY DEF ParticipantsKnown, Cached
<1>4. Inventory(resp)[g] = resp[g] \/ (games[g] # Absent /\ Inventory(resp)[g] = games[g])
  BY <1>1 DEF Inventory, Accepted
<1> QED
  BY <1>2, <1>3, <1>4

LEMMA ReadableStep == InOrder /\ TypeOK /\ SeasonReadable /\ [Next]_vars => SeasonReadable'
<1> SUFFICES ASSUME InOrder, TypeOK, SeasonReadable, [Next]_vars PROVE SeasonReadable'
  OBVIOUS
<1>0. ParticipantsKnown
  BY DEF SeasonReadable, ParticipantsKnown
<1>1. ASSUME NEW batch, NEW at, NEW due, UpsertTeams(batch, at, due)
      PROVE  SeasonReadable'
  BY <1>1 DEF UpsertTeams, SeasonReadable, SeasonServed, SnapshotID, Cached
<1>2. ASSUME NEW resp \in Responses(GameRow), NEW at \in Finish, NEW due,
             ReplaceGameInventory(resp, at, due)
      PROVE  SeasonReadable'
  <2>1. Inventory(resp) \in [Games -> GameRow \cup {Absent}]
    BY TablesOfGames
  <2>2. games' = Inventory(resp) /\ lastRun' = RunAfter(at, Inventory(resp)) /\ teams' = teams
    BY <1>2 DEF ReplaceGameInventory
  <2> QED
    BY <1>0, <1>2, <2>1, <2>2, ReadableGames, InventoryNamesTeams
<1>3. ASSUME NEW req, NEW resp \in Responses(GameRow), NEW at \in Finish, NEW due, NEW materialDue,
             UpsertCheckedGames(req, resp, at, due, materialDue)
      PROVE  SeasonReadable'
  <2>1. TargetedTable(resp) \in [Games -> GameRow \cup {Absent}]
    BY TablesOfGames
  <2>2. games' = TargetedTable(resp) /\ lastRun' = RunAfter(at, TargetedTable(resp))
        /\ teams' = teams
    BY <1>3 DEF UpsertCheckedGames
  <2> QED
    BY <1>0, <1>3, <2>1, <2>2, ReadableGames, PollNamesSame
<1>4. CASE UNCHANGED <<teams, games, lastRun>>
  BY <1>4 DEF SeasonReadable, SeasonServed, SnapshotID, Cached
<1>5. ASSUME NEW req, NEW resp, NEW at, NEW due, NEW materialDue,
             EmptyDiscovery(at, due) \/ ReplaceStageXG(resp, at, due)
             \/ UpsertCheckedXG(req, resp, at, due, materialDue)
      PROVE  UNCHANGED <<teams, games, lastRun>>
  BY <1>5 DEF EmptyDiscovery, ReplaceStageXG, UpsertCheckedXG
<1>6. UNCHANGED vars => UNCHANGED <<teams, games, lastRun>>
  BY DEF vars
<1> QED
  BY <1>1, <1>2, <1>3, <1>4, <1>5, <1>6 DEF Next

(* The run LastSuccess selects published exactly the cached fixtures, and  *)
(* the catalog names their teams, whenever writes commit in the order of   *)
(* their finish times (SyncLeaseProofs, OrderCorrect).                     *)
THEOREM ReadableCorrect == InOrder => (Spec => []SeasonReadable)
<1> SUFFICES ASSUME InOrder PROVE Spec => []SeasonReadable
  OBVIOUS
<1>1. Init => SeasonReadable
  BY DEF Init, SeasonReadable, SeasonServed, Cached
<1>2. TypeOK /\ SeasonReadable /\ [Next]_vars => SeasonReadable'
  BY ReadableStep
<1> QED
  BY <1>1, <1>2, TypeCorrect, PTL DEF Spec

-----------------------------------------------------------------------------
(* The verified inventory.                                                 *)
LEMMA CompleteStep == TypeOK /\ InventoryComplete /\ [Next]_vars => InventoryComplete'
<1> SUFFICES ASSUME TypeOK, InventoryComplete, [Next]_vars PROVE InventoryComplete'
  OBVIOUS
<1>1. ASSUME NEW resp, NEW at, NEW due, ReplaceGameInventory(resp, at, due)
      PROVE  InventoryComplete'
  BY <1>1 DEF ReplaceGameInventory, InventoryAcceptable, InventoryComplete
<1>2. ASSUME NEW req, NEW resp \in Responses(GameRow), NEW at, NEW due, NEW materialDue,
             UpsertCheckedGames(req, resp, at, due, materialDue)
      PROVE  InventoryComplete'
  <2>1. \A g \in Games : /\ games'[g] = Absent <=> games[g] = Absent
                         /\ games[g] # Absent => games'[g].pair = games[g].pair
    BY <1>2, PolledRows, TargetedRow
  <2>2. Cached(games') = Cached(games)
        /\ \A g \in Cached(games) : games'[g].pair = games[g].pair
    BY <2>1 DEF Cached
  <2>3. PairOf(games') = PairOf(games)
    BY <2>2 DEF PairOf
  <2> QED
    BY <2>3 DEF InventoryComplete
<1>3. CASE UNCHANGED games
  BY <1>3 DEF InventoryComplete, PairOf, Cached
<1>4. ASSUME NEW batch, NEW req, NEW resp, NEW at, NEW due, NEW materialDue,
             UpsertTeams(batch, at, due) \/ EmptyDiscovery(at, due)
             \/ ReplaceStageXG(resp, at, due) \/ UpsertCheckedXG(req, resp, at, due, materialDue)
      PROVE  UNCHANGED games
  BY <1>4 DEF UpsertTeams, EmptyDiscovery, ReplaceStageXG, UpsertCheckedXG
<1>5. UNCHANGED vars => UNCHANGED games
  BY DEF vars
<1> QED
  BY <1>1, <1>2, <1>3, <1>4, <1>5 DEF Next

(* A nonempty cached inventory meets the catalog's expectation, although   *)
(* its rows may come from several partly refused responses.                *)
THEOREM CompleteCorrect == Spec => []InventoryComplete
<1>1. Init => InventoryComplete
  <2>1. ASSUME Init PROVE DOMAIN PairOf(games) = {}
    BY <2>1 DEF Init, PairOf, Cached
  <2> QED
    BY <2>1 DEF InventoryComplete, MeetsExpectation
<1> QED
  BY <1>1, TypeCorrect, CompleteStep, PTL DEF Spec

-----------------------------------------------------------------------------
(* The tables implement StageLedger.  The readers' picture is the cached   *)
(* one (SeasonReadable), so every step that changes it changes both.       *)
Valued == {g \in Games : Available(xg[g])}

LEMMA PublishedIsPhase == TypeOK /\ SeasonReadable => Published = Phase
<1> SUFFICES ASSUME TypeOK, SeasonReadable PROVE Published = Phase
  OBVIOUS
<1>1. CASE lastRun = Absent
  BY <1>1 DEF Published
<1>2. CASE lastRun # Absent
  <2>1. \A g \in Games : lastRun.snapshot[g]
                           = IF games[g] = Absent THEN Absent ELSE FixtureOf(games[g])
    BY <1>2 DEF SeasonReadable, SeasonServed, SnapshotID
  <2>2. \A g \in Games : PhaseOf(lastRun.snapshot[g]) = PhaseOf(games[g])
    <3> SUFFICES ASSUME NEW g \in Games, games[g] # Absent
                 PROVE  PhaseOf(FixtureOf(games[g])) = PhaseOf(games[g])
      BY <2>1
    <3>1. FixtureOf(games[g]) # Absent
      BY FixtureType, CheckRowType, ConstantFacts
    <3> QED
      BY <3>1 DEF PhaseOf, Terminal, FixtureOf
  <2> QED
    BY <1>2, <2>2 DEF Published, Phase
<1> QED
  BY <1>1, <1>2

LEMMA PhaseFacts ==
    /\ Phase \in [Games -> {"unknown", "open", "over"}]
    /\ \A g \in Games : /\ Phase[g] = "unknown" <=> games[g] = Absent
                        /\ Phase[g] = "over" <=> Terminal(games[g])
BY DEF Phase, PhaseOf, Terminal

LEMMA LedgerStutters ==
    ASSUME UNCHANGED <<games, xg, lastRun>>
    PROVE  UNCHANGED <<Phase, Valued, Published>>
BY DEF Phase, Valued, Published

LEMMA InventoryReconciles ==
    ASSUME TypeOK, Published' = Phase', XGBelongsToPairing,
           NEW resp \in Responses(GameRow), NEW at, NEW due, ReplaceGameInventory(resp, at, due)
    PROVE  Ledger!Reconcile
<1>1. Phase' \in [Games -> {"unknown", "open", "over"}]
  BY DEF Phase, PhaseOf
<1>2. \A g \in Games : Phase[g] = "over" => Phase'[g] # "open"
  <2>1. \A g \in Games : Terminal(games[g]) /\ games'[g] # Absent => Terminal(games'[g])
    BY InventoryRow DEF ReplaceGameInventory
  <2> QED
    BY <2>1 DEF Phase, PhaseOf, Terminal
<1>3. Valued' \subseteq {g \in Valued : Phase'[g] # "unknown"}
  <2> SUFFICES ASSUME NEW g \in Games, Available(xg'[g])
               PROVE  Available(xg[g]) /\ Phase'[g] # "unknown"
    BY DEF Valued
  <2>1. g \notin Dropped(Inventory(resp)) /\ xg'[g] = xg[g]
    BY DEF ReplaceGameInventory, Available
  <2>2. games'[g] # Absent
    BY <2>1 DEF Dropped, ReplaceGameInventory
  <2> QED
    BY <2>1, <2>2 DEF Phase, PhaseOf
<1> QED
  BY <1>1, <1>2, <1>3 DEF Ledger!Reconcile, Ledger!Phases, Ledger!NoneReopened, Valued

LEMMA PollReports ==
    ASSUME TypeOK, Published' = Phase',
           NEW req, NEW resp \in Responses(GameRow), NEW at, NEW due, NEW materialDue,
           UpsertCheckedGames(req, resp, at, due, materialDue)
    PROVE  Ledger!Report
<1> DEFINE ended == {g \in Games : Phase[g] = "open" /\ Phase'[g] = "over"}
<1>1. \A g \in Games : /\ games'[g] = Absent <=> games[g] = Absent
                       /\ Terminal(games[g]) => Terminal(games'[g])
  BY PolledRows, TargetedRow
<1>2. \A g \in Games : Phase'[g] = IF g \in ended THEN "over" ELSE Phase[g]
  BY <1>1 DEF Phase, PhaseOf
<1>3. Phase' = [g \in Games |-> IF g \in ended THEN "over" ELSE Phase[g]]
  BY <1>2 DEF Phase
<1>4. ended \in SUBSET {g \in Games : Phase[g] = "open"}
  OBVIOUS
<1>5. Valued' = Valued
  BY DEF UpsertCheckedGames, Valued
<1> HIDE DEF ended
<1> QED
  BY <1>3, <1>4, <1>5 DEF Ledger!Report, Valued

LEMMA XGValues ==
    ASSUME TypeOK, XGBelongsToPairing,
           NEW req, NEW resp \in Responses(XGValue), NEW at \in Times, NEW due, NEW materialDue,
           ReplaceStageXG(resp, at, due) \/ UpsertCheckedXG(req, resp, at, due, materialDue),
           \A g \in Games : Improves(g)
    PROVE  Ledger!Value
<1> DEFINE new == Valued' \ Valued
<1>1. UNCHANGED <<games, lastRun>> /\ DOMAIN resp \subseteq Completed
  BY DEF ReplaceStageXG, UpsertCheckedXG
<1>2. Valued \subseteq Valued'
  <2> SUFFICES ASSUME NEW g \in Games, Available(xg[g]) PROVE Available(xg'[g])
    BY DEF Valued
  <2>1. games[g] # Absent
    BY DEF XGBelongsToPairing, Available
  <2> QED
    BY <1>1, <2>1 DEF Improves
<1>3. new \subseteq Completed
  <2> SUFFICES ASSUME NEW g \in Games, g \notin Completed, Available(xg'[g])
               PROVE  Available(xg[g])
    BY DEF Valued
  <2>1. xg'[g] = xg[g]
    BY <1>1 DEF ReplaceStageXG, UpsertCheckedXG
  <2> QED
    BY <2>1
<1>4. Completed \subseteq {g \in Games : Phase[g] = "over"}
  BY DEF Completed, FullTime, Phase, PhaseOf, Terminal
<1>5. new \in SUBSET {g \in Games : Phase[g] = "over"} /\ Valued' = Valued \cup new
  BY <1>2, <1>3, <1>4
<1>6. UNCHANGED <<Phase, Published>>
  BY <1>1 DEF Phase, Published
<1> HIDE DEF new
<1> QED
  BY <1>5, <1>6 DEF Ledger!Value, Ledger!Over, Valued

(* Each operation of the cache is one step of the ledger, or none.         *)
LEMMA StepImplements ==
    TypeOK /\ XGBelongsToPairing /\ Published' = Phase' /\ [Next]_vars
    => [Ledger!LedgerNext]_<<Phase, Valued, Published>>
<1> SUFFICES ASSUME TypeOK, XGBelongsToPairing, Published' = Phase', [Next]_vars
             PROVE  Ledger!LedgerNext \/ UNCHANGED <<Phase, Valued, Published>>
  OBVIOUS
<1>1. ASSUME NEW resp \in Responses(GameRow), NEW at, NEW due,
             ReplaceGameInventory(resp, at, due)
      PROVE  Ledger!LedgerNext
  BY <1>1, InventoryReconciles DEF Ledger!LedgerNext
<1>2. ASSUME NEW req, NEW resp \in Responses(GameRow), NEW at, NEW due, NEW materialDue,
             UpsertCheckedGames(req, resp, at, due, materialDue)
      PROVE  Ledger!LedgerNext
  BY <1>2, PollReports DEF Ledger!LedgerNext
<1>3. ASSUME NEW req, NEW resp \in Responses(XGValue), NEW at \in Times, NEW due, NEW materialDue,
             ReplaceStageXG(resp, at, due) \/ UpsertCheckedXG(req, resp, at, due, materialDue)
      PROVE  Ledger!LedgerNext
  BY <1>3, XGValues, ImprovesStep DEF Ledger!LedgerNext
<1>4. ASSUME NEW batch, NEW at, NEW due, UpsertTeams(batch, at, due) \/ EmptyDiscovery(at, due)
      PROVE  UNCHANGED <<games, xg, lastRun>>
  BY <1>4 DEF UpsertTeams, EmptyDiscovery
<1>5. UNCHANGED vars => UNCHANGED <<games, xg, lastRun>>
  BY DEF vars
<1> QED
  BY <1>1, <1>2, <1>3, <1>4, <1>5, LedgerStutters DEF Next

(* The merged tables keep what the cache promises its readers: results     *)
(* only move forward, values belong to matches that are over, and every    *)
(* change is published in the step that makes it.                          *)
THEOREM LedgerImplemented == InOrder => (Spec => ImplementsLedger)
<1> SUFFICES ASSUME InOrder PROVE Spec => ImplementsLedger
  OBVIOUS
<1>1. Init => Ledger!LedgerInit
  <2> SUFFICES ASSUME Init PROVE Ledger!LedgerInit
    OBVIOUS
  <2>1. {g \in Games : Available(xg[g])} = {}
    BY DEF Init, Available
  <2>2. Phase \in Ledger!Phases
    BY PhaseFacts DEF Ledger!Phases
  <2>3. Published = Phase
    BY DEF Init, Published
  <2> QED
    BY <2>1, <2>2, <2>3 DEF Ledger!LedgerInit
<1>2. TypeOK /\ XGBelongsToPairing /\ (Published = Phase)' /\ [Next]_vars
      => [Ledger!LedgerNext]_(Ledger!ledgerVars)
  BY StepImplements DEF Ledger!ledgerVars, Valued
<1>3. Spec => []SeasonReadable
  BY ReadableCorrect
<1> QED
  BY <1>1, <1>2, <1>3, TypeCorrect, PairingCorrect, PublishedIsPhase, PTL
  DEF Spec, ImplementsLedger, Ledger!LedgerSpec

-----------------------------------------------------------------------------
(* The wake-up of an incomplete bracket.                                   *)
Woken(before, after, changed, few, at) ==
    /\ changed /\ few => \/ after.success = at
                         \/ after.due # Never /\ after.due <= at
    /\ before # Absent /\ before.due # Never /\ after.due # before.due =>
          \/ after.success > before.success
          \/ changed /\ after.due = at

LEMMA WokenRefreshed ==
    ASSUME NEW old \in ScopeRow \cup {Absent}, NEW at \in Times, NEW due, NEW changed, NEW few,
           old # Absent => old.success <= at
    PROVE  Woken(old, Refreshed(old, at, due), changed, few, at)
<1>1. at \in Nat /\ (old # Absent => old.success \in Nat)
  BY TimeTypes DEF ScopeRow
<1>2. CASE old = Absent
  BY <1>2 DEF Refreshed, Woken
<1>3. CASE old # Absent /\ at > old.success
  BY <1>1, <1>3 DEF Refreshed, Woken
<1>4. CASE old # Absent /\ ~(at > old.success)
  <2>1. old.success = at
    BY <1>1, <1>4
  <2> QED
    BY <1>4, <2>1 DEF Refreshed, Woken
<1> QED
  BY <1>2, <1>3, <1>4

LEMMA WokenPoll ==
    ASSUME NEW old \in ScopeRow \cup {Absent}, NEW at \in Times, NEW table, NEW changed \in BOOLEAN,
           NEW few \in BOOLEAN, changed = (SnapshotID(games) # SnapshotID(table)),
           few = (Cardinality(Cached(table)) < BracketSlots)
    PROVE  Woken(old, Accelerated(old, at, table), changed, few, at)
<1>1. at \in Nat \ {0}
  BY TimeTypes
<1>2. CASE changed /\ few
  <2>1. Accelerated(old, at, table)
          = [success |-> IF old = Absent THEN Never ELSE old.success, due |-> at]
    BY <1>2 DEF Accelerated
  <2> QED
    BY <1>1, <1>2, <2>1 DEF Woken, Never
<1>3. CASE ~(changed /\ few)
  <2>1. Accelerated(old, at, table) = old
    BY <1>3 DEF Accelerated
  <2> QED
    BY <1>3, <2>1 DEF Woken
<1> QED
  BY <1>2, <1>3

LEMMA WokenStep ==
    ASSUME InOrder, TypeOK, [Next]_vars
    PROVE  \/ UNCHANGED vars
           \/ Woken(scope["games"], scope'["games"], SnapshotID(games) # SnapshotID(games'),
                    Cardinality(Cached(games')) < BracketSlots, lastRun'.at)
<1> DEFINE changed == SnapshotID(games) # SnapshotID(games')
           few == Cardinality(Cached(games')) < BracketSlots
<1> SUFFICES UNCHANGED vars
             \/ Woken(scope["games"], scope'["games"], changed, few, lastRun'.at)
  OBVIOUS
<1>0. /\ "games" \in Resources /\ scope["games"] \in ScopeRow \cup {Absent}
      /\ changed \in BOOLEAN /\ few \in BOOLEAN
  BY DEF Resources, TypeOK
<1>1. ASSUME UNCHANGED <<games>>, scope'["games"] = scope["games"]
      PROVE  Woken(scope["games"], scope'["games"], changed, few, lastRun'.at)
  BY <1>1 DEF Woken, SnapshotID
<1>2. ASSUME NEW at \in Finish, NEW due, EmptyDiscovery(at, due)
      PROVE  Woken(scope["games"], scope'["games"], changed, few, lastRun'.at)
  <2>1. scope'["games"] = Refreshed(scope["games"], at, due) /\ ~changed
    BY <1>0, <1>2 DEF EmptyDiscovery, TypeOK, SnapshotID
  <2>2. at \in Nat /\ (scope["games"] # Absent => scope["games"].success \in Nat)
    BY <1>0, LastWins, TimeTypes DEF ScopeRow
  <2>3. scope["games"] # Absent =>
           scope'["games"] = scope["games"] \/ scope'["games"].success > scope["games"].success
    BY <2>1, <2>2 DEF Refreshed
  <2> HIDE DEF changed, few
  <2> QED
    BY <2>1, <2>3 DEF Woken
<1>3. ASSUME NEW resp, NEW at \in Finish, NEW due, ReplaceGameInventory(resp, at, due)
      PROVE  Woken(scope["games"], scope'["games"], changed, few, lastRun'.at)
  <2>1. scope'["games"] = Refreshed(scope["games"], at, due)
    BY <1>0, <1>3 DEF ReplaceGameInventory, TypeOK
  <2>2. lastRun'.at = at
    BY <1>3, LastWins DEF ReplaceGameInventory
  <2> HIDE DEF changed, few
  <2> QED
    BY <1>0, <2>1, <2>2, LastWins, WokenRefreshed
<1>4. ASSUME NEW req, NEW resp, NEW at \in Finish, NEW due, NEW materialDue,
             UpsertCheckedGames(req, resp, at, due, materialDue)
      PROVE  Woken(scope["games"], scope'["games"], changed, few, lastRun'.at)
  <2>1. games' = TargetedTable(resp)
        /\ scope'["games"] = Accelerated(scope["games"], at, TargetedTable(resp))
    BY <1>0, <1>4 DEF UpsertCheckedGames, TypeOK
  <2>2. lastRun'.at = at /\ at \in Times
    BY <1>4, LastWins DEF UpsertCheckedGames
  <2>3. changed = (SnapshotID(games) # SnapshotID(TargetedTable(resp)))
        /\ few = (Cardinality(Cached(TargetedTable(resp))) < BracketSlots)
    BY <2>1
  <2> HIDE DEF changed, few
  <2> QED
    BY <1>0, <2>1, <2>2, <2>3, WokenPoll
<1>5. ASSUME NEW batch, NEW req, NEW resp, NEW at, NEW due, NEW materialDue,
             UpsertTeams(batch, at, due) \/ ReplaceStageXG(resp, at, due)
             \/ UpsertCheckedXG(req, resp, at, due, materialDue)
      PROVE  UNCHANGED <<games>> /\ scope'["games"] = scope["games"]
  BY <1>0, <1>5 DEF UpsertTeams, ReplaceStageXG, UpsertCheckedXG, TypeOK
<1> QED
  BY <1>1, <1>2, <1>3, <1>4, <1>5 DEF Next

(* While a bracket lacks matches, a run that changes its fixtures leaves   *)
(* full discovery due at once, and only a later success takes that back.   *)
THEOREM BracketCorrect == InOrder => (Spec => BracketRevisited)
<1> SUFFICES ASSUME InOrder PROVE Spec => BracketRevisited
  OBVIOUS
<1>1. TypeOK /\ [Next]_vars => [Revisited]_vars
  <2> SUFFICES ASSUME TypeOK, [Next]_vars, ~UNCHANGED vars PROVE Revisited
    OBVIOUS
  <2>1. Woken(scope["games"], scope'["games"], SnapshotID(games) # SnapshotID(games'),
              Cardinality(Cached(games')) < BracketSlots, lastRun'.at)
    BY WokenStep
  <2> QED
    BY <2>1 DEF Woken, Revisited
<1> QED
  BY <1>1, TypeCorrect, PTL DEF Spec, BracketRevisited
=============================================================================
