--------------------------- MODULE MigrationProofs ---------------------------
(***************************************************************************)
(* Theorems about Migration for every set of processes, matches, payloads  *)
(* and answers, and for every file an earlier release may leave behind.    *)
(*                                                                         *)
(* The inductive invariant is MigrationInvariant: the committed file and   *)
(* the copy of a writing process each hold what their version promises.    *)
(* A step of the upgrade takes a file of one version to one of the next;   *)
(* committing makes the copy the file; a process that has the file open    *)
(* steps as SourceCache does, from tables that need not be the ones of a   *)
(* new database.                                                           *)
(***************************************************************************)
EXTENDS Migration, SourceCacheProofs

-----------------------------------------------------------------------------
(* What the operations of SourceCache keep of upgraded tables.  The result *)
(* ledger of an upgraded match may not know when the match ended.          *)

ResultRow(row, check) ==
    /\ row = Absent => check = Absent
    /\ row # Absent => /\ check # Absent
                       /\ check.first # Never => Terminal(row)
                       /\ check.first <= check.checked
                       /\ check.changed <= check.checked

ResultsKept == \A g \in Games : ResultRow(games[g], resultCheck[g])

ValuedOver == \A g \in Games : Available(xg[g]) => Terminal(games[g])

RunKnown == lastRun = Absent => Cached(games) = {}

RunCurrent == Cached(games) # {} => lastRun.snapshot = SnapshotID(games)

SourceSound ==
    /\ TypeOK /\ XGBelongsToPairing /\ SummaryCorrect /\ XGLedgerSound
    /\ ParticipantsKnown /\ ResultsKept /\ ValuedOver /\ RunKnown

(* One observation of a match that is cached afterwards.                   *)
LEMMA ResultChecked ==
    ASSUME NEW old \in CheckRow \cup {Absent}, InOrderRow(old),
           NEW at \in Times, NEW due \in Dues, NEW preserve \in BOOLEAN, NEW seen \in BOOLEAN,
           NEW material \in BOOLEAN, NEW row, row # Absent,
           seen => Terminal(row),
           old # Absent /\ old.first # Never => Terminal(row)
    PROVE  ResultRow(row, Checked(old, at, due, preserve, seen, material))
<1> DEFINE new == Checked(old, at, due, preserve, seen, material)
<1>1. Recorded(old, at, seen, new)
  BY CheckedTimes
<1>2. new \in CheckRow
  BY CheckedType
<1> HIDE DEF new
<1>3. new # Absent
  BY <1>2, ConstantFacts
<1> QED
  BY <1>1, <1>3 DEF Recorded, ResultRow, new

LEMMA KeptInOrder ==
    ASSUME ResultsKept, NEW g \in Games
    PROVE  InOrderRow(resultCheck[g])
BY DEF ResultsKept, ResultRow, InOrderRow

LEMMA ResultsKeptInventory ==
    ASSUME TypeOK, ResultsKept,
           NEW resp \in Responses(GameRow), NEW at \in Times, NEW due \in DueAfter(at),
           ReplaceGameInventory(resp, at, due)
    PROVE  ResultsKept'
<1> SUFFICES ASSUME NEW g \in Games PROVE ResultRow(games'[g], resultCheck'[g])
  BY DEF ResultsKept
<1> DEFINE seen == Terminal(resp[g])
           material == MaterialRow(resp, g)
<1>1. games'[g] = Inventory(resp)[g]
  BY DEF ReplaceGameInventory
<1>2. CASE g \notin DOMAIN resp
  <2>1. resultCheck'[g] = Absent
    BY <1>2 DEF ReplaceGameInventory
  <2>2. games'[g] = Absent
    BY <1>1, <1>2, InventoryRow
  <2> QED
    BY <2>1, <2>2 DEF ResultRow
<1>3. CASE g \in DOMAIN resp
  <2>1. resultCheck'[g] = Checked(resultCheck[g], at, Never, TRUE, seen, material)
    BY <1>3 DEF ReplaceGameInventory
  <2>2. seen \in BOOLEAN /\ material \in BOOLEAN /\ Never \in Dues
    BY DEF Terminal, MaterialRow, Accepted, Dues
  <2>3. /\ games'[g] # Absent
        /\ Terminal(games[g]) => Terminal(games'[g])
        /\ seen => Terminal(games'[g])
    BY <1>1, <1>3, InventoryRow
  <2>4. resultCheck[g] # Absent /\ resultCheck[g].first # Never => Terminal(games'[g])
    BY <2>3 DEF ResultsKept, ResultRow
  <2>5. resultCheck[g] \in CheckRow \cup {Absent} /\ InOrderRow(resultCheck[g])
    BY CheckRowType, KeptInOrder
  <2> HIDE DEF seen, material
  <2> QED
    BY <2>1, <2>2, <2>3, <2>4, <2>5, ResultChecked
<1> QED
  BY <1>2, <1>3

LEMMA ResultsKeptPolled ==
    ASSUME TypeOK, ResultsKept,
           NEW req \in SUBSET Games, NEW resp \in Responses(GameRow),
           NEW at \in Times, NEW due \in DueAfter(at), NEW materialDue \in DueAfter(at),
           UpsertCheckedGames(req, resp, at, due, materialDue)
    PROVE  ResultsKept'
<1> SUFFICES ASSUME NEW g \in Games PROVE ResultRow(games'[g], resultCheck'[g])
  BY DEF ResultsKept
<1> DEFINE table == TargetedTable(resp)
           material == ~SameFixture(games[g], table[g])
           seen == g \in DOMAIN resp /\ Terminal(resp[g])
           when == IF material /\ materialDue # Never THEN materialDue ELSE due
<1>1. games' = table
  BY DEF UpsertCheckedGames
<1>2. /\ table[g] = Absent <=> games[g] = Absent
      /\ Terminal(games[g]) => Terminal(table[g])
      /\ seen => Terminal(table[g])
  <2>1. g \in DOMAIN resp => games[g] # Absent /\ resp[g].pair = games[g].pair
    BY PolledRows
  <2> QED
    BY <2>1, TargetedRow
<1>3. CASE g \notin req
  <2>1. resultCheck'[g] = resultCheck[g] /\ g \notin DOMAIN resp
    BY <1>3 DEF UpsertCheckedGames
  <2>2. table[g] = games[g]
    BY <2>1 DEF TargetedTable
  <2> QED
    BY <1>1, <2>1, <2>2 DEF ResultsKept
<1>4. CASE g \in req
  <2>1. resultCheck'[g] = Checked(resultCheck[g], at, when, FALSE, seen, material)
    BY <1>1, <1>4 DEF UpsertCheckedGames
  <2>2. seen \in BOOLEAN /\ material \in BOOLEAN /\ when \in Dues
    BY DueType DEF Terminal, SameFixture
  <2>3. games[g] # Absent
    BY <1>4, PolledRows
  <2>4. resultCheck[g] # Absent /\ resultCheck[g].first # Never => Terminal(table[g])
    BY <1>2 DEF ResultsKept, ResultRow
  <2>5. resultCheck[g] \in CheckRow \cup {Absent} /\ InOrderRow(resultCheck[g])
    BY CheckRowType, KeptInOrder
  <2> HIDE DEF seen, material, when, table
  <2> QED
    BY <1>1, <1>2, <2>1, <2>2, <2>3, <2>4, <2>5, ResultChecked
<1> QED
  BY <1>3, <1>4

LEMMA ResultsKeptStep == TypeOK /\ ResultsKept /\ [Next]_vars => ResultsKept'
<1> SUFFICES ASSUME TypeOK, ResultsKept, [Next]_vars PROVE ResultsKept'
  OBVIOUS
<1>0. Finish \subseteq Times
  BY DEF Finish
<1>1. CASE UNCHANGED <<games, resultCheck>>
  BY <1>1 DEF ResultsKept
<1>2. UNCHANGED vars => UNCHANGED <<games, resultCheck>>
  BY DEF vars
<1>3. ASSUME NEW batch, NEW req, NEW resp, NEW at, NEW due, NEW materialDue,
             UpsertTeams(batch, at, due) \/ EmptyDiscovery(at, due)
             \/ ReplaceStageXG(resp, at, due) \/ UpsertCheckedXG(req, resp, at, due, materialDue)
      PROVE  UNCHANGED <<games, resultCheck>>
  BY <1>3 DEF UpsertTeams, EmptyDiscovery, ReplaceStageXG, UpsertCheckedXG
<1> QED
  BY <1>0, <1>1, <1>2, <1>3, ResultsKeptInventory, ResultsKeptPolled DEF Next

(* An xG value is of a match that is over: an inventory that removes the   *)
(* match or its pairing removes the value, no row is reopened, and values  *)
(* are written for completed matches.                                      *)
LEMMA ValuedOverStep ==
    TypeOK /\ XGBelongsToPairing /\ ValuedOver /\ [Next]_vars => ValuedOver'
<1> SUFFICES ASSUME TypeOK, XGBelongsToPairing, ValuedOver, [Next]_vars,
                    NEW g \in Games, Available(xg'[g])
             PROVE  Terminal(games'[g])
  BY DEF ValuedOver
<1>1. Available(xg[g]) => Terminal(games[g])
  BY DEF ValuedOver
<1>2. CASE UNCHANGED <<games, xg>>
  BY <1>1, <1>2
<1>3. UNCHANGED vars => UNCHANGED <<games, xg>>
  BY DEF vars
<1>4. ASSUME NEW batch, NEW at, NEW due, UpsertTeams(batch, at, due) \/ EmptyDiscovery(at, due)
      PROVE  UNCHANGED <<games, xg>>
  BY <1>4 DEF UpsertTeams, EmptyDiscovery
<1>5. ASSUME NEW resp \in Responses(GameRow), NEW at, NEW due, ReplaceGameInventory(resp, at, due)
      PROVE  Terminal(games'[g])
  <2>1. g \notin Dropped(Inventory(resp)) /\ xg'[g] = xg[g] /\ games'[g] = Inventory(resp)[g]
    BY <1>5 DEF ReplaceGameInventory, Available
  <2>2. g \in DOMAIN resp
    BY <2>1, InventoryRow DEF Dropped
  <2> QED
    BY <1>1, <2>1, <2>2, InventoryRow
<1>6. ASSUME NEW req, NEW resp \in Responses(GameRow), NEW at, NEW due, NEW materialDue,
             UpsertCheckedGames(req, resp, at, due, materialDue)
      PROVE  Terminal(games'[g])
  <2>1. xg' = xg /\ games' = TargetedTable(resp)
    BY <1>6 DEF UpsertCheckedGames
  <2> QED
    BY <1>1, <1>6, <2>1, PolledRows, TargetedRow
<1>7. ASSUME NEW req, NEW resp, NEW at, NEW due, NEW materialDue,
             ReplaceStageXG(resp, at, due) \/ UpsertCheckedXG(req, resp, at, due, materialDue)
      PROVE  Terminal(games'[g])
  <2>1. games' = games /\ (g \notin Completed => xg'[g] = xg[g])
    BY <1>7 DEF ReplaceStageXG, UpsertCheckedXG
  <2>2. g \in Completed => Terminal(games[g])
    BY DEF Completed, FullTime, Terminal
  <2> QED
    BY <1>1, <2>1, <2>2
<1> QED
  BY <1>2, <1>3, <1>4, <1>5, <1>6, <1>7 DEF Next

LEMMA ParticipantsStep == TypeOK /\ ParticipantsKnown /\ [Next]_vars => ParticipantsKnown'
<1> SUFFICES ASSUME TypeOK, ParticipantsKnown, [Next]_vars PROVE ParticipantsKnown'
  OBVIOUS
<1>1. ASSUME NEW batch, NEW at, NEW due, UpsertTeams(batch, at, due)
      PROVE  ParticipantsKnown'
  BY <1>1 DEF UpsertTeams, ParticipantsKnown, Cached
<1>2. ASSUME NEW resp \in Responses(GameRow), NEW at, NEW due, ReplaceGameInventory(resp, at, due)
      PROVE  ParticipantsKnown'
  <2>1. games' = Inventory(resp) /\ teams' = teams
    BY <1>2 DEF ReplaceGameInventory
  <2> QED
    BY <1>2, <2>1, InventoryNamesTeams DEF ParticipantsKnown, Cached
<1>3. ASSUME NEW req, NEW resp \in Responses(GameRow), NEW at, NEW due, NEW materialDue,
             UpsertCheckedGames(req, resp, at, due, materialDue)
      PROVE  ParticipantsKnown'
  <2>1. games' = TargetedTable(resp) /\ teams' = teams
    BY <1>3 DEF UpsertCheckedGames
  <2> QED
    BY <1>3, <2>1, PollNamesSame DEF ParticipantsKnown, Cached
<1>4. CASE UNCHANGED <<teams, games>>
  BY <1>4 DEF ParticipantsKnown, Cached
<1>5. ASSUME NEW req, NEW resp, NEW at, NEW due, NEW materialDue,
             EmptyDiscovery(at, due) \/ ReplaceStageXG(resp, at, due)
             \/ UpsertCheckedXG(req, resp, at, due, materialDue)
      PROVE  UNCHANGED <<teams, games>>
  BY <1>5 DEF EmptyDiscovery, ReplaceStageXG, UpsertCheckedXG
<1>6. UNCHANGED vars => UNCHANGED <<teams, games>>
  BY DEF vars
<1> QED
  BY <1>1, <1>2, <1>3, <1>4, <1>5, <1>6 DEF Next

(* A cached match comes with a successful run; when the writes commit in   *)
(* the order of their finish times, the run is of the matches as they are. *)
LEMMA RunStep ==
    TypeOK /\ RunKnown /\ [Next]_vars => RunKnown' /\ (InOrder /\ RunCurrent => RunCurrent')
<1> SUFFICES ASSUME TypeOK, RunKnown, [Next]_vars
             PROVE  RunKnown' /\ (InOrder /\ RunCurrent => RunCurrent')
  OBVIOUS
<1>1. ASSUME NEW table \in [Games -> GameRow \cup {Absent}], NEW at \in Finish,
             games' = table, lastRun' = RunAfter(at, table)
      PROVE  RunKnown' /\ (InOrder => RunCurrent')
  <2>1. at \in Times
    BY DEF Finish
  <2>2. RunAfter(at, table) \in RunRow
    BY <2>1, RunType DEF TypeOK
  <2>3. InOrder => RunAfter(at, table).snapshot = SnapshotID(table)
    <3> SUFFICES ASSUME InOrder PROVE RunAfter(at, table).snapshot = SnapshotID(table)
      OBVIOUS
    <3>1. RunAfter(at, table) = [at |-> at, snapshot |-> SnapshotID(table)]
      BY LastWins
    <3> QED
      BY <3>1
  <2> QED
    BY <1>1, <2>2, <2>3, ConstantFacts DEF RunKnown, RunCurrent, SnapshotID
<1>2. ASSUME NEW resp \in Responses(GameRow), NEW at \in Finish, NEW due,
             ReplaceGameInventory(resp, at, due)
      PROVE  RunKnown' /\ (InOrder => RunCurrent')
  <2>1. Inventory(resp) \in [Games -> GameRow \cup {Absent}]
    BY TablesOfGames
  <2>2. games' = Inventory(resp) /\ lastRun' = RunAfter(at, Inventory(resp))
    BY <1>2 DEF ReplaceGameInventory
  <2> QED
    BY <1>1, <2>1, <2>2
<1>3. ASSUME NEW req, NEW resp \in Responses(GameRow), NEW at \in Finish, NEW due, NEW materialDue,
             UpsertCheckedGames(req, resp, at, due, materialDue)
      PROVE  RunKnown' /\ (InOrder => RunCurrent')
  <2>1. TargetedTable(resp) \in [Games -> GameRow \cup {Absent}]
    BY TablesOfGames
  <2>2. games' = TargetedTable(resp) /\ lastRun' = RunAfter(at, TargetedTable(resp))
    BY <1>3 DEF UpsertCheckedGames
  <2> QED
    BY <1>1, <2>1, <2>2
<1>4. CASE UNCHANGED <<games, lastRun>>
  BY <1>4 DEF RunKnown, RunCurrent, SnapshotID, Cached
<1>5. ASSUME NEW batch, NEW req, NEW resp, NEW at, NEW due, NEW materialDue,
             UpsertTeams(batch, at, due) \/ EmptyDiscovery(at, due)
             \/ ReplaceStageXG(resp, at, due) \/ UpsertCheckedXG(req, resp, at, due, materialDue)
      PROVE  UNCHANGED <<games, lastRun>>
  BY <1>5 DEF UpsertTeams, EmptyDiscovery, ReplaceStageXG, UpsertCheckedXG
<1>6. UNCHANGED vars => UNCHANGED <<games, lastRun>>
  BY DEF vars
<1> QED
  BY <1>2, <1>3, <1>4, <1>5, <1>6 DEF Next

LEMMA XGLedgerStep == TypeOK /\ XGLedgerSound /\ [Next]_vars => XGLedgerSound'
<1> SUFFICES ASSUME TypeOK, XGLedgerSound, [Next]_vars PROVE XGLedgerSound'
  OBVIOUS
<1>1. CASE UNCHANGED <<xg, xgCheck>>
  BY <1>1 DEF XGLedgerSound
<1>2. UNCHANGED vars => UNCHANGED <<xg, xgCheck>>
  BY DEF vars
<1>3. ASSUME NEW batch, NEW req, NEW resp, NEW at, NEW due, NEW materialDue,
             UpsertTeams(batch, at, due) \/ EmptyDiscovery(at, due)
             \/ UpsertCheckedGames(req, resp, at, due, materialDue)
      PROVE  UNCHANGED <<xg, xgCheck>>
  BY <1>3 DEF UpsertTeams, EmptyDiscovery, UpsertCheckedGames
<1> QED
  BY <1>1, <1>2, <1>3, LedgerInventory, LedgerStageXG, LedgerCheckedXG DEF Next

LEMMA SourceStep == SourceSound /\ [Next]_vars => SourceSound'
BY TypeStep, BelongsStep, SummaryStep, XGLedgerStep, ParticipantsStep, ResultsKeptStep,
   ValuedOverStep, RunStep DEF SourceSound

-----------------------------------------------------------------------------
(* A file of the latest version holds what SourceCache needs, no more.     *)
LEMMA FileFields ==
    /\ File.version = version /\ File.games = games /\ File.resultCheck = resultCheck
    /\ File.xgCheck = xgCheck /\ File.scope = scope /\ File.venue = venue
    /\ File.lastRun = lastRun /\ File.registered = registered
BY DEF File

LEMMA FileTyped ==
    File \in FileRow <=>
       /\ version \in 0 .. Latest
       /\ games \in [Games -> GameRow \cup {Absent}]
       /\ resultCheck \in [Games -> CheckRow \cup {Absent}]
       /\ xgCheck \in [Games -> CheckRow \cup {Absent}]
       /\ scope \in [Resources -> ScopeRow \cup {Absent}]
       /\ venue \in VenueRow \cup {Absent}
       /\ lastRun \in RunRow \cup {Absent}
       /\ registered \in {Absent, "unknown", "not_published", "available"}
BY DEF File, FileRow

LEMMA SummedIsCorrect ==
    ASSUME version = Latest PROVE SummedUp(File) <=> SummaryCorrect
<1>1. (IF File.venue = Absent THEN EmptyVenue ELSE File.venue) = Summary
  BY FileFields DEF Summary
<1> QED
  BY <1>1, FileFields DEF SummedUp, SummaryCorrect, Latest, Completed

LEMMA CoherentIsSound ==
    ASSUME version = Latest, TypeOK
    PROVE  (\A g \in Games : Coherent(File, g)) <=>
              /\ XGBelongsToPairing /\ XGLedgerSound /\ ParticipantsKnown
              /\ ResultsKept /\ ValuedOver
<1> DEFINE Of(g) ==
       /\ games[g] = Absent => xg[g] = Absent /\ xgCheck[g] = Absent
       /\ xg[g] # Absent => xg[g].pair = games[g].pair
       /\ Agree(xg[g], xgCheck[g]) /\ InOrderRow(xgCheck[g])
       /\ games[g] # Absent => {games[g].pair[1], games[g].pair[2]} \subseteq teams
       /\ ResultRow(games[g], resultCheck[g])
       /\ Available(xg[g]) => Terminal(games[g])
<1>1. ASSUME NEW g \in Games PROVE Coherent(File, g) <=> Of(g)
  BY FileFields DEF Coherent, Latest, Agree, InOrderRow, ResultRow, Available
<1>2. (\A g \in Games : Of(g)) <=>
              /\ XGBelongsToPairing /\ XGLedgerSound /\ ParticipantsKnown
              /\ ResultsKept /\ ValuedOver
  BY DEF XGBelongsToPairing, XGLedgerSound, ParticipantsKnown, ResultsKept, ValuedOver, Cached
<1> HIDE DEF Of
<1> QED
  BY <1>1, <1>2

Ready == version = Latest /\ TypeOK
Ordered == InOrder => RunCurrent

LEMMA SoundHolds == Ready => (Holds(File) <=> SourceSound /\ Ordered)
<1> SUFFICES ASSUME version = Latest, TypeOK
             PROVE  Holds(File) <=> SourceSound /\ Ordered
  BY DEF Ready
<1>1. Identified(File) <=> RunCurrent
  BY FileFields DEF Identified, RunCurrent, Latest
<1>2. (File.lastRun = Absent => Cached(File.games) = {}) <=> RunKnown
  BY FileFields DEF RunKnown
<1>3. ~(File.version < 9) /\ ~(File.version < 10)
  BY FileFields DEF Latest
<1> QED
  BY <1>1, <1>2, <1>3, SummedIsCorrect, CoherentIsSound DEF Holds, SourceSound, Ordered

(* A process that has the file open keeps it what it was.                  *)
LEMMA ServeIsNext == ASSUME NEW p \in Procs, Serve(p) PROVE Next
<1>1. Responses(Answers) \subseteq Responses(GameRow)
  BY MigrationAssumption DEF Responses
<1>2. \A req \in SUBSET Games : [req -> Answers] \subseteq Responses(GameRow)
  BY MigrationAssumption DEF Responses
<1> QED
  BY <1>1, <1>2 DEF Serve, Next

LEMMA ServeHolds ==
    ASSUME TypeOK, version = Latest, File \in FileRow, Holds(File), NEW p \in Procs, Serve(p)
    PROVE  TypeOK' /\ (File \in FileRow)' /\ Holds(File)'
<1>1. Next
  BY ServeIsNext
<1>2. SourceSound /\ Ordered
  BY SoundHolds DEF Ready
<1>3. SourceSound' /\ TypeOK' /\ Ordered'
  BY <1>1, <1>2, SourceStep, RunStep DEF SourceSound, Ordered
<1>4. UNCHANGED <<version, registered>>
  BY DEF Serve, upgradeVars
<1>5. (File \in FileRow)'
  <2>1. version \in 0 .. Latest /\ registered \in {Absent, "unknown", "not_published", "available"}
    BY FileTyped
  <2>2. (version \in 0 .. Latest)'
        /\ (registered \in {Absent, "unknown", "not_published", "available"})'
    BY <1>4, <2>1 DEF Latest
  <2> QED
    BY <1>3, <2>2 DEF File, FileRow, TypeOK
<1>6. Ready'
  BY <1>3, <1>4 DEF Ready, Latest
<1>7. (Ready => (Holds(File) <=> SourceSound /\ Ordered))'
  BY SoundHolds, PTL
<1> QED
  BY <1>3, <1>5, <1>6, <1>7

-----------------------------------------------------------------------------
(* Each step takes a sound draft of one version to one of the next.        *)
LEMMA FileParts ==
    ASSUME NEW f \in FileRow
    PROVE  /\ f.version \in Nat /\ f.version <= Latest
           /\ f.games \in [Games -> GameRow \cup {Absent}]
           /\ f.lastRun \in RunRow \cup {Absent}
           /\ f.scope \in [Resources -> ScopeRow \cup {Absent}]
           /\ f.venue \in VenueRow \cup {Absent}
           /\ f.resultCheck \in [Games -> CheckRow \cup {Absent}]
           /\ f.xgCheck \in [Games -> CheckRow \cup {Absent}]
BY DEF FileRow, Latest

LEMMA ExtendedDraft ==
    ASSUME version \in 0 .. Latest, NEW f, Draft(f), f.version \in 0 .. 6 \cup 14 .. 17
    PROVE  Draft(Extended(f))
<1> DEFINE new == Extended(f)
<1>1. f \in FileRow /\ Holds(f) /\ Continues(f) /\ version \in Nat
  BY DEF Draft, Latest
<1>2. /\ new.version = f.version + 1 /\ new.games = f.games /\ new.resultCheck = f.resultCheck
      /\ new.xgCheck = f.xgCheck /\ new.scope = f.scope /\ new.venue = f.venue
      /\ new.lastRun = f.lastRun /\ new.registered = f.registered
  BY <1>1 DEF Extended, FileRow
<1>3. new \in FileRow
  BY <1>1 DEF Extended, FileRow, Latest
<1>4. f.version \in Nat /\ (f.version <= 6 \/ 14 <= f.version)
  OBVIOUS
<1> HIDE DEF new
<1>5. ASSUME NEW g \in Games PROVE Coherent(new, g)
  <2>1. Coherent(f, g)
    BY <1>1 DEF Holds
  <2>2. /\ f.version < 13 <=> new.version < 13
        /\ f.version < 14 <=> new.version < 14
        /\ f.version < 11 <=> new.version < 11
        /\ f.version >= 11 <=> new.version >= 11
        /\ f.version < 12 <=> new.version < 12
        /\ f.version >= 12 <=> new.version >= 12
    BY <1>2, <1>4
  <2> QED
    BY <1>2, <2>1, <2>2 DEF Coherent
<1>6. /\ f.version < 8 <=> new.version < 8
      /\ f.version < 9 <=> new.version < 9
      /\ f.version >= 9 <=> new.version >= 9
      /\ f.version < 10 <=> new.version < 10
      /\ f.version >= 10 <=> new.version >= 10
      /\ f.version >= 13 <=> new.version >= 13
      /\ f.version >= 14 <=> new.version >= 14
      /\ version <= f.version => version <= new.version
  BY <1>1, <1>2, <1>4
<1>7. Identified(f) => Identified(new)
  BY <1>2, <1>6 DEF Identified
<1>8. SummedUp(f) => SummedUp(new)
  BY <1>2, <1>6 DEF SummedUp
<1>9. Holds(new)
  BY <1>1, <1>2, <1>5, <1>6, <1>7, <1>8 DEF Holds
<1>10. Continues(new)
  BY <1>1, <1>2, <1>6 DEF Continues
<1> QED
  BY <1>3, <1>9, <1>10 DEF Draft, new

(* Migration 8 computes what the five writers then keep in step.           *)
LEMMA SummarisedDraft ==
    ASSUME TypeOK, version \in 0 .. Latest, NEW f, Draft(f), f.version = 7
    PROVE  Draft(Summarised(f))
<1> DEFINE new == Summarised(f)
           sums == [fixtureReady |-> TRUE,
                    xgReady |-> /\ legacy.xgAt # Never
                                /\ \A g \in Games : FullTime(f.games[g]) => xg[g] # Absent,
                    results |-> Results(f.games),
                    rated   |-> Rated(f.games, xg)]
<1>1. f \in FileRow /\ Holds(f) /\ Continues(f) /\ version \in Nat
  BY DEF Draft, Latest
<1>2. /\ new.version = 8 /\ new.games = f.games /\ new.resultCheck = f.resultCheck
      /\ new.xgCheck = f.xgCheck /\ new.scope = f.scope
      /\ new.venue = IF Cached(f.games) = {} THEN Absent ELSE sums
      /\ new.lastRun = f.lastRun /\ new.registered = f.registered
  BY <1>1 DEF Summarised, FileRow
<1>3. sums \in VenueRow
  <2>1. /\ Results(f.games) \subseteq Games \X {Goals[d] : d \in Details}
        /\ Rated(f.games, xg) \subseteq Games \X Values
    <3>1. f.games \in [Games -> GameRow \cup {Absent}]
      BY <1>1, FileParts
    <3> QED
      BY <3>1, VenueGamesType DEF TypeOK
  <2> QED
    BY <2>1 DEF VenueRow
<1>4. new \in FileRow
  <2>1. new.venue \in VenueRow \cup {Absent}
    BY <1>2, <1>3
  <2> DEFINE later == [f EXCEPT !.version = 8]
             row == new.venue
  <2>2. later \in FileRow
    BY <1>1 DEF FileRow, Latest
  <2>3. new = [later EXCEPT !.venue = row]
    BY <1>1, <1>2 DEF Summarised
  <2> HIDE DEF new, later, row
  <2> QED
    BY <2>1, <2>2, <2>3 DEF FileRow, row
<1>5. ASSUME NEW g \in Games PROVE Coherent(new, g)
  <2>1. Coherent(f, g)
    BY <1>1 DEF Holds
  <2> HIDE DEF new
  <2> QED
    BY <1>2, <2>1 DEF Coherent
<1>6. SummedUp(new)
  <2>1. CASE Cached(f.games) = {}
    <3>1. Rated(f.games, xg) = {}
      BY <2>1 DEF Rated, Cached, FullTime
    <3>2. new.venue = Absent
      BY <1>2, <2>1
    <3> HIDE DEF new
    <3> QED
      BY <1>2, <3>1, <3>2 DEF SummedUp, EmptyVenue
  <2>2. CASE Cached(f.games) # {}
    <3>1. new.venue = sums /\ new.venue # Absent
      BY <1>2, <1>3, <2>2, ConstantFacts
    <3>2. /\ sums.xgReady => \A g \in Games : FullTime(f.games[g]) => xg[g] # Absent
          /\ sums.results = Results(f.games)
          /\ sums.rated = Rated(f.games, xg)
      OBVIOUS
    <3> HIDE DEF new, sums
    <3> QED
      BY <1>2, <3>1, <3>2 DEF SummedUp
  <2> QED
    BY <2>1, <2>2
<1> HIDE DEF new, sums
<1>7. Holds(new)
  BY <1>1, <1>2, <1>5, <1>6, f.version = 7 DEF Holds, Identified
<1>8. Continues(new)
  BY <1>1, <1>2, f.version = 7 DEF Continues
<1> QED
  BY <1>4, <1>7, <1>8 DEF Draft, new

(* Migration 9: a scope with matches has published them.                   *)
LEMMA RegisteredDraft ==
    ASSUME version \in 0 .. Latest, NEW f, Draft(f), f.version = 8
    PROVE  Draft(Registered(f))
<1> DEFINE new == Registered(f)
<1>1. f \in FileRow /\ Holds(f) /\ Continues(f) /\ version \in Nat
  BY DEF Draft, Latest
<1>2. /\ new.version = 9 /\ new.games = f.games /\ new.resultCheck = f.resultCheck
      /\ new.xgCheck = f.xgCheck /\ new.scope = f.scope /\ new.venue = f.venue
      /\ new.lastRun = f.lastRun
      /\ Cached(f.games) # {} => new.registered = "available"
      /\ new.registered \in {Absent, "unknown", "not_published", "available"}
  BY <1>1 DEF Registered, FileRow
<1>3. new \in FileRow
  <2> DEFINE later == [f EXCEPT !.version = 9]
             row == new.registered
  <2>1. later \in FileRow
    BY <1>1 DEF FileRow, Latest
  <2>2. new = [later EXCEPT !.registered = row]
    BY <1>1, <1>2 DEF Registered, FileRow
  <2> HIDE DEF new, later
  <2> QED
    BY <1>2, <2>1, <2>2 DEF FileRow
<1> HIDE DEF new
<1>4. ASSUME NEW g \in Games PROVE Coherent(new, g)
  <2>1. Coherent(f, g)
    BY <1>1 DEF Holds
  <2> QED
    BY <1>2, <2>1 DEF Coherent
<1>5. Holds(new)
  BY <1>1, <1>2, <1>4, f.version = 8 DEF Holds, Identified, SummedUp
<1>6. Cached(games) = Cached(f.games)
  BY <1>1 DEF Continues, SameFacts, Cached
<1>7. Continues(new)
  BY <1>1, <1>2, <1>6, f.version = 8 DEF Continues
<1> QED
  BY <1>3, <1>5, <1>7 DEF Draft, new

(* Migration 10: the time of the last successful run is remembered.        *)
LEMMA RememberedType ==
    ASSUME NEW at \in Moments PROVE Remembered(at) \in ScopeRow \cup {Absent}
BY TimeTypes DEF Remembered, ScopeRow

LEMMA ScopedDraft ==
    ASSUME legacy \in LegacyRow, version \in 0 .. Latest, NEW f, Draft(f), f.version = 9
    PROVE  Draft(Scoped(f))
<1> DEFINE new == Scoped(f)
           run == IF f.lastRun = Absent THEN Never ELSE f.lastRun.at
           at(r) == CASE r = "teams" -> Later(run, legacy.elsewhere)
                      [] r = "games" -> run
                      [] r = "xg"    -> legacy.xgAt
           states == [r \in Resources |-> Remembered(at(r))]
<1>1. f \in FileRow /\ Holds(f) /\ Continues(f) /\ version \in Nat
  BY DEF Draft, Latest
<1>2. /\ new.version = 10 /\ new.games = f.games /\ new.resultCheck = f.resultCheck
      /\ new.xgCheck = f.xgCheck /\ new.scope = states /\ new.venue = f.venue
      /\ new.lastRun = f.lastRun /\ new.registered = f.registered
  BY <1>1 DEF Scoped, FileRow
<1>3. run \in Moments /\ (f.lastRun # Absent => run = f.lastRun.at /\ run # Never)
  <2>1. f.lastRun # Absent => f.lastRun.at \in Times
    BY <1>1, FileParts DEF RunRow
  <2> QED
    BY <2>1, TimeTypes DEF Never, Times
<1>4. legacy.xgAt \in Moments /\ legacy.elsewhere \in Moments
  BY DEF LegacyRow
<1> HIDE DEF run
<1>5. \A r \in Resources : at(r) \in Moments
  BY <1>3, <1>4, LaterType DEF Resources
<1>6. at("games") = run /\ "games" \in Resources
  BY DEF Resources
<1> HIDE DEF at
<1>7. states \in [Resources -> ScopeRow \cup {Absent}]
  BY <1>5, RememberedType
<1>8. new \in FileRow
  <2> DEFINE later == [f EXCEPT !.version = 10]
  <2>1. later \in FileRow
    BY <1>1 DEF FileRow, Latest
  <2>2. new = [later EXCEPT !.scope = states]
    BY <1>1, <1>2 DEF Scoped, FileRow, at, run
  <2> HIDE DEF new, later, states
  <2> QED
    BY <1>7, <2>1, <2>2 DEF FileRow
<1>9. f.lastRun # Absent => states["games"] # Absent /\ states["games"].success = f.lastRun.at
  <2> SUFFICES ASSUME f.lastRun # Absent
               PROVE  states["games"] # Absent /\ states["games"].success = f.lastRun.at
    OBVIOUS
  <2>1. states["games"] = Remembered(run)
    BY <1>6
  <2>2. Remembered(run) = [success |-> run, due |-> Never]
    BY <1>3 DEF Remembered
  <2>3. Remembered(run) \in ScopeRow
    BY <1>3, <2>2, TimeTypes DEF ScopeRow
  <2> HIDE DEF states
  <2> QED
    BY <1>3, <2>1, <2>2, <2>3, ConstantFacts
<1> HIDE DEF new, states
<1>10. ASSUME NEW g \in Games PROVE Coherent(new, g)
  <2>1. Coherent(f, g)
    BY <1>1 DEF Holds
  <2> QED
    BY <1>2, <2>1 DEF Coherent
<1>11. Holds(new)
  BY <1>1, <1>2, <1>10, f.version = 9 DEF Holds, Identified, SummedUp
<1>12. lastRun # Absent => f.lastRun # Absent /\ f.lastRun.at = lastRun.at
  BY <1>1 DEF Continues, SameRun
<1>13. Continues(new)
  BY <1>1, <1>2, <1>9, <1>12, f.version = 9 DEF Continues
<1> QED
  BY <1>8, <1>11, <1>13 DEF Draft, new

(* Migration 11: every match gets its row of the result ledger.            *)
LEMMA ResultsLedgeredDraft ==
    ASSUME version \in 0 .. Latest, NEW f, Draft(f), f.version = 10
    PROVE  Draft(ResultsLedgered(f))
<1> DEFINE new == ResultsLedgered(f)
           row(g) == IF f.games[g] = Absent \/ f.lastRun = Absent THEN Absent
                     ELSE [checked |-> f.lastRun.at, first |-> Never, changed |-> Never, due |-> Never]
           rows == [g \in Games |-> row(g)]
<1>1. f \in FileRow /\ Holds(f) /\ Continues(f) /\ version \in Nat
  BY DEF Draft, Latest
<1>2. /\ new.version = 11 /\ new.games = f.games /\ new.resultCheck = rows
      /\ new.xgCheck = f.xgCheck /\ new.scope = f.scope /\ new.venue = f.venue
      /\ new.lastRun = f.lastRun /\ new.registered = f.registered
  BY <1>1 DEF ResultsLedgered, FileRow
<1>3. ASSUME NEW g \in Games
      PROVE  /\ row(g) \in CheckRow \cup {Absent}
             /\ f.games[g] = Absent => row(g) = Absent
             /\ f.games[g] # Absent =>
                   row(g) # Absent /\ row(g).first = Never /\ row(g).changed = Never
                   /\ row(g).checked \in Times
  <2>1. f.lastRun = Absent => f.games[g] = Absent
    BY <1>1 DEF Holds, Cached
  <2>2. f.lastRun # Absent => f.lastRun.at \in Times
    BY <1>1, FileParts DEF RunRow
  <2>3. ASSUME f.lastRun # Absent
        PROVE  [checked |-> f.lastRun.at, first |-> Never, changed |-> Never, due |-> Never] \in CheckRow
    BY <2>2, <2>3, TimeTypes DEF CheckRow
  <2> QED
    BY <2>1, <2>2, <2>3, ConstantFacts
<1>4. new \in FileRow
  <2> DEFINE later == [f EXCEPT !.version = 11]
  <2>1. later \in FileRow
    BY <1>1 DEF FileRow, Latest
  <2>2. new = [later EXCEPT !.resultCheck = rows]
    BY <1>1 DEF ResultsLedgered, FileRow
  <2>3. rows \in [Games -> CheckRow \cup {Absent}]
    BY <1>3
  <2> HIDE DEF new, later, rows
  <2> QED
    BY <2>1, <2>2, <2>3 DEF FileRow
<1>5. \A g \in Games : rows[g] = row(g)
  OBVIOUS
<1> HIDE DEF new, row, rows
<1>6. ASSUME NEW g \in Games PROVE Coherent(new, g)
  <2>1. Coherent(f, g)
    BY <1>1 DEF Holds
  <2>2. /\ f.games[g] = Absent => rows[g] = Absent
        /\ f.games[g] # Absent =>
              /\ rows[g] # Absent /\ rows[g].first = Never
              /\ rows[g].first <= rows[g].checked /\ rows[g].changed <= rows[g].checked
    <3>1. ASSUME f.games[g] # Absent
          PROVE  /\ rows[g].first = Never /\ rows[g].changed = Never
                 /\ rows[g] # Absent /\ rows[g].checked \in Nat
      BY <1>3, <1>5, <3>1, TimeTypes
    <3>2. f.games[g] = Absent => rows[g] = Absent
      BY <1>3, <1>5
    <3> QED
      BY <3>1, <3>2 DEF Never
  <2> QED
    BY <1>2, <2>1, <2>2 DEF Coherent
<1>7. Holds(new)
  BY <1>1, <1>2, <1>6, f.version = 10 DEF Holds, Identified, SummedUp
<1>8. Continues(new)
  BY <1>1, <1>2, f.version = 10 DEF Continues
<1> QED
  BY <1>4, <1>7, <1>8 DEF Draft, new

(* Migration 12: every xG row gets its row of the xG ledger.               *)
LEMMA XGLedgeredDraft ==
    ASSUME TypeOK, version \in 0 .. Latest, NEW f, Draft(f), f.version = 11
    PROVE  Draft(XGLedgered(f))
<1> DEFINE new == XGLedgered(f)
           row(g) == IF xg[g] = Absent THEN Absent
                     ELSE [checked |-> xg[g].checked, first |-> xg[g].first,
                           changed |-> Never, due |-> Never]
           rows == [g \in Games |-> row(g)]
<1>1. f \in FileRow /\ Holds(f) /\ Continues(f) /\ version \in Nat
  BY DEF Draft, Latest
<1>2. /\ new.version = 12 /\ new.games = f.games /\ new.resultCheck = f.resultCheck
      /\ new.xgCheck = rows /\ new.scope = f.scope /\ new.venue = f.venue
      /\ new.lastRun = f.lastRun /\ new.registered = f.registered
  BY <1>1 DEF XGLedgered, FileRow
<1>3. ASSUME NEW g \in Games
      PROVE  /\ row(g) \in CheckRow \cup {Absent}
             /\ xg[g] = Absent => row(g) = Absent
             /\ xg[g] # Absent =>
                   /\ row(g) # Absent /\ row(g).first = xg[g].first
                   /\ row(g).changed = Never /\ row(g).checked = xg[g].checked
                   /\ xg[g].checked \in Nat /\ xg[g].first \in Nat
                   /\ xg[g].first # Never <=> xg[g].available
  <2>1. ASSUME xg[g] # Absent
        PROVE  /\ xg[g].checked \in Times /\ xg[g].first \in Moments
               /\ xg[g].first # Never <=> xg[g].available
    BY <2>1, CheckRowType DEF XGRow
  <2>2. ASSUME xg[g] # Absent
        PROVE  [checked |-> xg[g].checked, first |-> xg[g].first, changed |-> Never, due |-> Never]
                  \in CheckRow
    BY <2>1, <2>2, TimeTypes DEF CheckRow
  <2> QED
    BY <2>1, <2>2, ConstantFacts, TimeTypes
<1>4. new \in FileRow
  <2> DEFINE later == [f EXCEPT !.version = 12]
  <2>1. later \in FileRow
    BY <1>1 DEF FileRow, Latest
  <2>2. new = [later EXCEPT !.xgCheck = rows]
    BY <1>1 DEF XGLedgered, FileRow
  <2>3. rows \in [Games -> CheckRow \cup {Absent}]
    BY <1>3
  <2> HIDE DEF new, later, rows
  <2> QED
    BY <2>1, <2>2, <2>3 DEF FileRow
<1>5. \A g \in Games : rows[g] = row(g)
  OBVIOUS
<1> HIDE DEF new, row, rows
<1>6. ASSUME NEW g \in Games PROVE Coherent(new, g)
  <2>1. Coherent(f, g)
    BY <1>1 DEF Holds
  <2>2. /\ f.games[g] = Absent => xg[g] = Absent
        /\ xg[g] # Absent => xg[g].first <= xg[g].checked
        /\ f.version = 11
    BY <2>1 DEF Coherent
  <2>3. /\ xg[g] = Absent => rows[g] = Absent
        /\ xg[g] # Absent =>
              /\ rows[g] # Absent
              /\ xg[g].checked <= rows[g].checked
              /\ xg[g].available => rows[g].first # Never /\ rows[g].first <= xg[g].first
              /\ rows[g].first # Never => xg[g].available
              /\ rows[g].first <= rows[g].checked /\ rows[g].changed <= rows[g].checked
    BY <1>3, <1>5, <2>2 DEF Never
  <2> QED
    BY <1>2, <2>1, <2>2, <2>3 DEF Coherent, Available
<1>7. Holds(new)
  BY <1>1, <1>2, <1>6, f.version = 11 DEF Holds, Identified, SummedUp
<1>8. Continues(new)
  BY <1>1, <1>2, f.version = 11 DEF Continues
<1> QED
  BY <1>4, <1>7, <1>8 DEF Draft, new

(* Rewriting the columns of a match changes no sum: what the sums count is *)
(* part of what the rewriting leaves alone.                                *)
LEMMA SameSums ==
    ASSUME NEW table \in [Games -> GameRow \cup {Absent}],
           NEW new \in [Games -> GameRow \cup {Absent}], SameFacts(table, new)
    PROVE  /\ Cached(new) = Cached(table)
           /\ \A g \in Games : /\ FullTime(new[g]) <=> FullTime(table[g])
                               /\ Terminal(new[g]) <=> Terminal(table[g])
           /\ Results(new) = Results(table)
           /\ Rated(new, xg) = Rated(table, xg)
<1>1. \A g \in Games : /\ new[g] = Absent <=> table[g] = Absent
                       /\ table[g] # Absent => new[g].status = table[g].status
  BY DEF SameFacts
<1>2. \A g \in Games : /\ FullTime(new[g]) <=> FullTime(table[g])
                       /\ Terminal(new[g]) <=> Terminal(table[g])
  BY <1>1 DEF FullTime, Terminal
<1>3. \A g \in Games : FullTime(table[g]) => Goals[new[g].detail] = Goals[table[g].detail]
  <2> SUFFICES ASSUME NEW g \in Games, FullTime(table[g])
               PROVE  Goals[new[g].detail] = Goals[table[g].detail]
    OBVIOUS
  <2>1. table[g] \in GameRow /\ new[g] \in GameRow
    BY <1>1 DEF FullTime
  <2>2. table[g].detail \in Details /\ new[g].detail \in Details
    BY <2>1 DEF GameRow
  <2>3. new[g].detail.base = table[g].detail.base
    BY DEF SameFacts, FullTime
  <2> QED
    BY <2>2, <2>3, MigrationAssumption
<1>4. {g \in Games : FullTime(new[g])} = {g \in Games : FullTime(table[g])}
  BY <1>2
<1>5. Results(new) = Results(table)
  BY <1>3, <1>4 DEF Results
<1>6. Rated(new, xg) = Rated(table, xg)
  BY <1>2 DEF Rated
<1> QED
  BY <1>1, <1>2, <1>5, <1>6 DEF Cached

LEMMA SameFactsTwice ==
    ASSUME NEW a, NEW b, NEW c, SameFacts(a, b), SameFacts(b, c)
    PROVE  SameFacts(a, c)
BY DEF SameFacts

LEMMA ReidentifiedType ==
    ASSUME NEW run \in RunRow \cup {Absent}, NEW table \in [Games -> GameRow \cup {Absent}],
           run = Absent => Cached(table) = {}
    PROVE  /\ Reidentified(run, table) \in RunRow \cup {Absent}
           /\ SameRun(run, Reidentified(run, table))
           /\ Cached(table) # {} => Reidentified(run, table).snapshot = SnapshotID(table)
<1>1. SnapshotID(table) \in [Games -> Fixture \cup {Absent}]
  BY FixtureType DEF SnapshotID
<1>2. CASE run = Absent \/ Cached(table) = {}
  BY <1>2 DEF Reidentified, SameRun
<1>3. CASE run # Absent /\ Cached(table) # {}
  <2>1. Reidentified(run, table) = [at |-> run.at, snapshot |-> SnapshotID(table)]
    BY <1>3 DEF Reidentified
  <2>2. Reidentified(run, table) \in RunRow
    BY <1>1, <1>3, <2>1 DEF RunRow
  <2> QED
    BY <1>3, <2>1, <2>2, ConstantFacts DEF SameRun
<1> QED
  BY <1>2, <1>3

(* What is left of a draft when rows of its matches have been rewritten    *)
(* and its run was given their identity.                                   *)
LEMMA RewrittenDraft ==
    ASSUME TypeOK, version \in 0 .. Latest, NEW f, Draft(f), NEW n \in {13, 14}, f.version = n - 1,
           NEW table \in [Games -> GameRow \cup {Absent}], SameFacts(f.games, table),
           \A g \in Games : table[g] # Absent /\ n < 14 => table[g].detail.source = NoSource,
           n = 14 /\ version < 14 => \A g \in Cached(games) : Sent(table[g], legacy.payload[g]),
           NEW run \in RunRow \cup {Absent}, SameRun(f.lastRun, run),
           InOrder /\ Cached(table) # {} => run.snapshot = SnapshotID(table),
           NEW new \in FileRow,
           new.version = n, new.games = table, new.lastRun = run,
           new.resultCheck = f.resultCheck, new.xgCheck = f.xgCheck, new.scope = f.scope,
           new.venue = f.venue, new.registered = f.registered
    PROVE  Draft(new)
<1>1. f \in FileRow /\ Holds(f) /\ Continues(f) /\ version \in Nat
  BY DEF Draft, Latest
<1>2. /\ Cached(table) = Cached(f.games)
      /\ \A g \in Games : /\ FullTime(table[g]) <=> FullTime(f.games[g])
                          /\ Terminal(table[g]) <=> Terminal(f.games[g])
      /\ Results(table) = Results(f.games)
      /\ Rated(table, xg) = Rated(f.games, xg)
  <2>1. f.games \in [Games -> GameRow \cup {Absent}]
    BY <1>1, FileParts
  <2> QED
    BY <2>1, SameSums
<1>3. ASSUME NEW g \in Games PROVE Coherent(new, g)
  <2>1. Coherent(f, g)
    BY <1>1 DEF Holds
  <2>2. /\ table[g] = Absent <=> f.games[g] = Absent
        /\ f.games[g] # Absent => table[g].pair = f.games[g].pair
        /\ Terminal(table[g]) <=> Terminal(f.games[g])
    BY <1>2 DEF SameFacts
  <2>3. table[g] # Absent /\ n < 14 => table[g].detail.source = NoSource
    OBVIOUS
  <2>4. /\ f.version >= 11 /\ f.version >= 12 /\ new.version >= 11 /\ new.version >= 12
        /\ ~(f.version < 11) /\ ~(f.version < 12) /\ ~(new.version < 11) /\ ~(new.version < 12)
        /\ ~(new.version < 13)
        /\ new.version < 14 <=> n < 14
    OBVIOUS
  <2> QED
    BY <2>1, <2>2, <2>3, <2>4 DEF Coherent
<1>4. SummedUp(new)
  <2>1. ~(f.version < 8) /\ ~(new.version < 8)
    OBVIOUS
  <2>2. SummedUp(f)
    BY <1>1 DEF Holds
  <2> QED
    BY <1>2, <2>1, <2>2 DEF SummedUp
<1>5. InOrder => Identified(new)
  BY DEF Identified
<1>6. Holds(new)
  <2>1. ~(new.version < 9) /\ ~(new.version < 10)
    OBVIOUS
  <2>2. run = Absent => Cached(table) = {}
    BY <1>1, <1>2 DEF Holds, SameRun
  <2> QED
    BY <1>3, <1>4, <1>5, <2>1, <2>2 DEF Holds
<1>7. SameFacts(games, table) /\ SameRun(lastRun, run)
  BY <1>1, SameFactsTwice DEF Continues, SameRun
<1>8. Continues(new)
  <2>1. /\ f.version >= 9 /\ f.version >= 10 /\ new.version >= 9 /\ new.version >= 10
        /\ version <= new.version
        /\ new.version >= 14 <=> n = 14
    BY <1>1 DEF Continues
  <2> QED
    BY <1>1, <1>7, <2>1 DEF Continues
<1> QED
  BY <1>6, <1>8 DEF Draft

(* Migration 13 gives the current run the identity of the rewritten rows.  *)
LEMMA ColumnsFilledDraft ==
    ASSUME TypeOK, legacy \in LegacyRow, version \in 0 .. Latest,
           NEW f, Draft(f), f.version = 12
    PROVE  Draft(ColumnsFilled(f))
<1> DEFINE new == ColumnsFilled(f)
           table == Rewritten(f.games, WithColumns)
           run == Reidentified(f.lastRun, table)
<1>1. f \in FileRow /\ Holds(f)
  BY DEF Draft
<1>2. /\ new.version = 13 /\ new.games = table /\ new.lastRun = run
      /\ new.resultCheck = f.resultCheck /\ new.xgCheck = f.xgCheck /\ new.scope = f.scope
      /\ new.venue = f.venue /\ new.registered = f.registered
  BY <1>1 DEF ColumnsFilled, FileRow
<1>3. f.games \in [Games -> GameRow \cup {Absent}] /\ f.lastRun \in RunRow \cup {Absent}
  BY <1>1, FileParts
<1>4. ASSUME NEW g \in Games
      PROVE  /\ f.games[g] = Absent => table[g] = Absent
             /\ f.games[g] # Absent =>
                   /\ table[g] \in GameRow /\ table[g].status = f.games[g].status
                   /\ table[g].pair = f.games[g].pair /\ table[g].stamp = f.games[g].stamp
                   /\ table[g].detail.base = f.games[g].detail.base
                   /\ table[g].detail.source = NoSource
  <2>1. CASE f.games[g] = Absent
    BY <2>1 DEF Rewritten
  <2>2. CASE f.games[g] # Absent
    <3> DEFINE old == f.games[g].detail
               fresher == WithColumns(old, legacy.payload[g])
    <3>1. f.games[g] \in GameRow
      BY <1>3, <2>2
    <3>2. table[g] = [status |-> f.games[g].status, pair |-> f.games[g].pair,
                      detail |-> fresher, stamp |-> f.games[g].stamp]
      BY <2>2 DEF Rewritten
    <3>3. Columns(old) = NoColumns /\ old.source = NoSource
      <4>1. Coherent(f, g)
        BY <1>1 DEF Holds
      <4> QED
        BY <2>2, <4>1 DEF Coherent
    <3>4. old \in Details /\ legacy.payload[g] \in Payloads
      BY <3>1 DEF GameRow, LegacyRow
    <3>5. fresher \in Details
      BY <3>3, <3>4, MigrationAssumption
    <3>6. fresher.base = old.base /\ fresher.source = NoSource
      BY <3>3 DEF WithColumns
    <3> HIDE DEF fresher
    <3>7. table[g] \in GameRow
      BY <3>1, <3>2, <3>5 DEF GameRow
    <3> QED
      BY <2>2, <3>2, <3>6, <3>7
  <2> QED
    BY <2>1, <2>2
<1>5. table \in [Games -> GameRow \cup {Absent}]
  <2>1. \A g \in Games : table[g] \in GameRow \cup {Absent}
    BY <1>4
  <2> QED
    BY <2>1 DEF Rewritten
<1> HIDE DEF table
<1>6. SameFacts(f.games, table)
  BY <1>4, ConstantFacts DEF SameFacts
<1>7. f.lastRun = Absent => Cached(table) = {}
  BY <1>1, <1>6 DEF Holds, SameFacts, Cached
<1>8. /\ run \in RunRow \cup {Absent} /\ SameRun(f.lastRun, run)
      /\ Cached(table) # {} => run.snapshot = SnapshotID(table)
  BY <1>3, <1>5, <1>7, ReidentifiedType
<1>9. new \in FileRow
  <2> DEFINE later == [f EXCEPT !.version = 13]
             played == [later EXCEPT !.games = table]
  <2>1. later \in FileRow
    BY <1>1 DEF FileRow, Latest
  <2>2. new = [played EXCEPT !.lastRun = run]
    BY <1>1 DEF ColumnsFilled, FileRow, table
  <2> HIDE DEF later
  <2>3. played \in FileRow
    BY <1>5, <2>1 DEF FileRow
  <2> HIDE DEF new, played, run
  <2> QED
    BY <1>8, <2>2, <2>3 DEF FileRow
<1>10. \A g \in Games : table[g] # Absent => table[g].detail.source = NoSource
  BY <1>4
<1> HIDE DEF new, run
<1> QED
  BY <1>2, <1>5, <1>6, <1>8, <1>9, <1>10, RewrittenDraft, 13 \in {13, 14}, f.version = 12 DEF new

(* Migration 14 does so unless every row is as it was.                     *)
LEMMA SourceFilledDraft ==
    ASSUME TypeOK, legacy \in LegacyRow, version \in 0 .. Latest,
           NEW f, Draft(f), f.version = 13,
           \A g \in Games : f.games[g] # Absent => ~Ambiguous(legacy.payload[g])
    PROVE  Draft(SourceFilled(f))
<1> DEFINE new == SourceFilled(f)
           table == Rewritten(f.games, WithSource)
           run == IF table = f.games THEN f.lastRun ELSE Reidentified(f.lastRun, table)
<1>1. f \in FileRow /\ Holds(f) /\ Continues(f)
  BY DEF Draft
<1>2. /\ new.version = 14 /\ new.games = table /\ new.lastRun = run
      /\ new.resultCheck = f.resultCheck /\ new.xgCheck = f.xgCheck /\ new.scope = f.scope
      /\ new.venue = f.venue /\ new.registered = f.registered
  BY <1>1 DEF SourceFilled, FileRow
<1>3. f.games \in [Games -> GameRow \cup {Absent}] /\ f.lastRun \in RunRow \cup {Absent}
  BY <1>1, FileParts
<1>4. ASSUME NEW g \in Games
      PROVE  /\ f.games[g] = Absent => table[g] = Absent
             /\ f.games[g] # Absent =>
                   /\ table[g] \in GameRow /\ table[g].status = f.games[g].status
                   /\ table[g].pair = f.games[g].pair /\ table[g].stamp = f.games[g].stamp
                   /\ table[g].detail.base = f.games[g].detail.base
                   /\ Sent(table[g], legacy.payload[g])
  <2>1. CASE f.games[g] = Absent
    BY <2>1 DEF Rewritten
  <2>2. CASE f.games[g] # Absent
    <3> DEFINE old == f.games[g].detail
               fresher == WithSource(old, legacy.payload[g])
    <3>1. f.games[g] \in GameRow
      BY <1>3, <2>2
    <3>2. table[g] = [status |-> f.games[g].status, pair |-> f.games[g].pair,
                      detail |-> fresher, stamp |-> f.games[g].stamp]
      BY <2>2 DEF Rewritten
    <3>3. old.source = NoSource /\ ~Ambiguous(legacy.payload[g])
      <4>1. Coherent(f, g)
        BY <1>1 DEF Holds
      <4> QED
        BY <2>2, <4>1 DEF Coherent
    <3>4. old \in Details /\ legacy.payload[g] \in Payloads
      BY <3>1 DEF GameRow, LegacyRow
    <3>5. fresher \in Details
      BY <3>3, <3>4, MigrationAssumption
    <3>6. /\ fresher.base = old.base
          /\ legacy.payload[g] # Garbled => fresher.source = SourceOf(legacy.payload[g])
      BY DEF WithSource
    <3> HIDE DEF fresher
    <3>7. table[g] \in GameRow
      BY <3>1, <3>2, <3>5 DEF GameRow
    <3>8. Sent(table[g], legacy.payload[g])
      BY <3>2, <3>3, <3>6 DEF Sent
    <3> QED
      BY <2>2, <3>2, <3>6, <3>7, <3>8
  <2> QED
    BY <2>1, <2>2
<1>5. table \in [Games -> GameRow \cup {Absent}]
  <2>1. \A g \in Games : table[g] \in GameRow \cup {Absent}
    BY <1>4
  <2> QED
    BY <2>1 DEF Rewritten
<1> HIDE DEF table
<1>6. SameFacts(f.games, table)
  BY <1>4, ConstantFacts DEF SameFacts
<1>7. f.lastRun = Absent => Cached(table) = {}
  BY <1>1, <1>6 DEF Holds, SameFacts, Cached
<1>8. /\ run \in RunRow \cup {Absent} /\ SameRun(f.lastRun, run)
      /\ InOrder /\ Cached(table) # {} => run.snapshot = SnapshotID(table)
  <2>1. CASE table = f.games
    <3>1. InOrder => Identified(f)
      BY <1>1 DEF Holds
    <3> QED
      BY <1>3, <2>1, <3>1, f.version = 13 DEF Identified, SameRun
  <2>2. CASE table # f.games
    BY <1>3, <1>5, <1>7, <2>2, ReidentifiedType
  <2> QED
    BY <2>1, <2>2
<1>9. new \in FileRow
  <2> DEFINE later == [f EXCEPT !.version = 14]
             played == [later EXCEPT !.games = table]
  <2>1. later \in FileRow
    BY <1>1 DEF FileRow, Latest
  <2>2. new = [played EXCEPT !.lastRun = run]
    BY <1>1 DEF SourceFilled, FileRow, table
  <2> HIDE DEF later
  <2>3. played \in FileRow
    BY <1>5, <2>1 DEF FileRow
  <2> HIDE DEF new, played, run
  <2> QED
    BY <1>8, <2>2, <2>3 DEF FileRow
<1>10. \A g \in Cached(games) : Sent(table[g], legacy.payload[g])
  BY <1>1, <1>4 DEF Continues, SameFacts, Cached
<1> HIDE DEF new, run
<1> QED
  BY <1>2, <1>5, <1>6, <1>8, <1>9, <1>10, RewrittenDraft, 14 \in {13, 14}, f.version = 13 DEF new

-----------------------------------------------------------------------------
(* The invariant, one lemma per kind of action.                            *)
FileSound ==
    /\ TypeOK
    /\ File \in FileRow /\ Holds(File)
    /\ IF version = Latest THEN legacy = Absent ELSE legacy \in LegacyRow

Working ==
    /\ opener \in [Procs -> {"closed", "reading", "writing", "open"}]
    /\ fresh \in [Procs -> BOOLEAN]
    /\ \A p, q \in Procs : opener[p] = "writing" /\ opener[q] = "writing" => p = q
    /\ \A p \in Procs :
          /\ opener[p] = "open" => version = Latest
          /\ opener[p] = "reading" /\ fresh[p] => version < Latest
          /\ opener[p] = "writing" => version < Latest /\ Draft(tx)

LEMMA InvariantParts == MigrationInvariant <=> FileSound /\ Working
BY DEF MigrationInvariant, FileSound, Working

LEMMA VersionKnown == FileSound => version \in 0 .. Latest /\ (version < Latest => legacy \in LegacyRow)
BY FileTyped DEF FileSound, Latest

LEMMA FileSoundKept ==
    ASSUME FileSound, UNCHANGED <<vars, version, legacy, registered>> PROVE FileSound'
<1>1. File' = File
  BY DEF File, vars
<1>2. TypeOK'
  BY DEF TypeOK, vars, FileSound
<1>3. Holds(File)'
  BY <1>1 DEF Holds, Coherent, SummedUp, Identified, FileSound, vars
<1> QED
  BY <1>1, <1>2, <1>3 DEF FileSound

LEMMA DraftKept ==
    ASSUME NEW f, Draft(f), tx' = f, UNCHANGED <<vars, version, legacy>> PROVE Draft(tx)'
<1>1. Holds(tx)'
  BY DEF Draft, Holds, Coherent, SummedUp, Identified, vars
<1>2. Continues(tx)'
  BY DEF Draft, Continues, vars
<1> QED
  BY <1>1, <1>2 DEF Draft

LEMMA DraftOfFile == FileSound => Draft(File)
<1> SUFFICES ASSUME FileSound PROVE Draft(File)
  OBVIOUS
<1>1. version \in Nat
  BY VersionKnown DEF Latest
<1>2. Continues(File)
  BY <1>1, FileFields DEF Continues, SameFacts, SameRun
<1> QED
  BY <1>2 DEF Draft, FileSound

(* Opening, closing and waiting change no table.                           *)
LEMMA WorkingMoves ==
    ASSUME FileSound, Working, NEW p \in Procs,
           OpenCurrent(p) \/ Begin(p) \/ Refused(p) \/ Rollback(p) \/ Close(p)
    PROVE  FileSound' /\ Working'
<1>1. UNCHANGED <<vars, version, legacy, registered>>
  BY DEF OpenCurrent, Begin, Refused, Rollback, Close
<1>2. FileSound'
  BY <1>1, FileSoundKept
<1>3. \A q \in Procs : q # p => opener'[q] = opener[q] /\ fresh'[q] = fresh[q]
  BY DEF OpenCurrent, Begin, Refused, Rollback, Close, Working
<1>4. /\ opener' \in [Procs -> {"closed", "reading", "writing", "open"}]
      /\ fresh' \in [Procs -> BOOLEAN]
      /\ opener'[p] # "writing"
      /\ opener'[p] = "open" => version = Latest
      /\ opener'[p] = "reading" /\ fresh'[p] => version < Latest
  <2>1. CASE OpenCurrent(p)
    BY <2>1 DEF OpenCurrent, Working
  <2>2. CASE Begin(p)
    <3>1. version < Latest
      BY <2>2 DEF Begin, Latest
    <3> QED
      BY <2>2, <3>1 DEF Begin, Working
  <2>3. CASE Refused(p) \/ Rollback(p) \/ Close(p)
    BY <2>3 DEF Refused, Rollback, Close, Working
  <2> QED
    BY <2>1, <2>2, <2>3
<1>5. ASSUME NEW q \in Procs, opener'[q] = "writing" PROVE version < Latest /\ Draft(tx)'
  <2>1. opener[q] = "writing" /\ q # p
    BY <1>3, <1>4, <1>5
  <2>2. tx' = tx
    BY <2>1 DEF OpenCurrent, Begin, Refused, Rollback, Close, Working
  <2> QED
    BY <1>1, <2>1, <2>2, DraftKept DEF Working
<1> QED
  BY <1>1, <1>2, <1>3, <1>4, <1>5 DEF Working

LEMMA WorkingWrites ==
    ASSUME FileSound, Working, NEW p \in Procs, BeginNew(p) \/ Lock(p)
    PROVE  FileSound' /\ Working'
<1>1. Writes(p) /\ version < Latest
  BY DEF BeginNew, Lock, Working, Latest
<1>2. UNCHANGED <<vars, version, legacy, registered, fresh>> /\ tx' = File
      /\ opener' = [opener EXCEPT ![p] = "writing"]
      /\ \A q \in Procs : opener[q] # "writing"
  BY <1>1 DEF Writes, Unlocked
<1>3. FileSound'
  BY <1>2, FileSoundKept
<1>4. Draft(tx)'
  BY <1>2, DraftOfFile, DraftKept
<1> QED
  BY <1>1, <1>2, <1>3, <1>4 DEF Working

(* One step of the upgrade, whichever it is.                               *)
LEMMA WorkingSteps ==
    ASSUME FileSound, Working, NEW p \in Procs, opener[p] = "writing",
           UNCHANGED <<vars, version, legacy, registered, opener, fresh>>,
           NEW new, tx' = new, Draft(new)
    PROVE  FileSound' /\ Working'
<1>1. FileSound'
  BY FileSoundKept
<1>2. Draft(tx)'
  BY DraftKept
<1> QED
  BY <1>1, <1>2 DEF Working

LEMMA UpgradeSteps ==
    ASSUME FileSound, Working, NEW p \in Procs,
           \/ Extend(p) \/ Summarise(p) \/ Register(p) \/ ScopeStates(p)
           \/ ResultLedger(p) \/ XGLedger(p) \/ PlayoffColumns(p) \/ SourceFields(p)
    PROVE  FileSound' /\ Working'
<1>1. /\ opener[p] = "writing"
      /\ UNCHANGED <<vars, version, legacy, registered, opener, fresh>>
  BY DEF Extend, Summarise, Register, ScopeStates, ResultLedger, XGLedger, PlayoffColumns,
         SourceFields, Step
<1>2. Draft(tx) /\ TypeOK /\ version \in 0 .. Latest /\ legacy \in LegacyRow
  BY <1>1, VersionKnown DEF Working, FileSound
<1>3. CASE Extend(p)
  BY <1>1, <1>2, <1>3, ExtendedDraft, WorkingSteps DEF Extend, Step
<1>4. CASE Summarise(p)
  BY <1>1, <1>2, <1>4, SummarisedDraft, WorkingSteps DEF Summarise, Step
<1>5. CASE Register(p)
  BY <1>1, <1>2, <1>5, RegisteredDraft, WorkingSteps DEF Register, Step
<1>6. CASE ScopeStates(p)
  BY <1>1, <1>2, <1>6, ScopedDraft, WorkingSteps DEF ScopeStates, Step
<1>7. CASE ResultLedger(p)
  BY <1>1, <1>2, <1>7, ResultsLedgeredDraft, WorkingSteps DEF ResultLedger, Step
<1>8. CASE XGLedger(p)
  BY <1>1, <1>2, <1>8, XGLedgeredDraft, WorkingSteps DEF XGLedger, Step
<1>9. CASE PlayoffColumns(p)
  BY <1>1, <1>2, <1>9, ColumnsFilledDraft, WorkingSteps DEF PlayoffColumns, Step
<1>10. CASE SourceFields(p)
  BY <1>1, <1>2, <1>10, SourceFilledDraft, WorkingSteps DEF SourceFields, Step, Clear
<1> QED
  BY <1>3, <1>4, <1>5, <1>6, <1>7, <1>8, <1>9, <1>10

(* The draft becomes the file.                                             *)
LEMMA CommitHolds ==
    ASSUME FileSound, Working, NEW p \in Procs, Commit(p)
    PROVE  FileSound' /\ Working'
<1>1. /\ opener[p] = "writing" /\ tx.version = Latest /\ tx \in FileRow /\ Holds(tx)
      /\ version' = Latest /\ legacy' = Absent /\ UNCHANGED <<teams, xg>>
      /\ opener' = [opener EXCEPT ![p] = "open"] /\ fresh' = [q \in Procs |-> FALSE]
  BY DEF Commit, Publish, Working, Draft
<1>2. File' = tx
  BY <1>1 DEF Commit, Publish, File, FileRow
<1>3. Holds(File)'
  BY <1>1, <1>2 DEF Holds, Coherent, SummedUp, Identified
<1>4. TypeOK'
  BY <1>1, FileParts DEF TypeOK, FileSound, Commit, Publish
<1>5. FileSound'
  BY <1>1, <1>2, <1>3, <1>4 DEF FileSound
<1>6. \A q \in Procs : opener'[q] # "writing" /\ fresh'[q] = FALSE
  BY <1>1 DEF Working
<1> QED
  BY <1>1, <1>5, <1>6 DEF Working

LEMMA ServeSound ==
    ASSUME FileSound, Working, NEW p \in Procs, Serve(p)
    PROVE  FileSound' /\ Working'
<1>1. version = Latest /\ UNCHANGED <<version, legacy, registered, opener, fresh, tx>>
  BY DEF Serve, Working, upgradeVars
<1>2. TypeOK' /\ (File \in FileRow)' /\ Holds(File)'
  BY <1>1, ServeHolds DEF FileSound
<1>3. FileSound'
  BY <1>1, <1>2 DEF FileSound
<1>4. \A q \in Procs : opener[q] # "writing"
  BY <1>1 DEF Working, Latest
<1> QED
  BY <1>1, <1>3, <1>4 DEF Working

LEMMA InvariantStep == MigrationInvariant /\ [MigrationNext]_allVars => MigrationInvariant'
<1> SUFFICES ASSUME FileSound, Working, [MigrationNext]_allVars PROVE FileSound' /\ Working'
  BY InvariantParts, PTL
<1>1. CASE UNCHANGED allVars
  <2>1. UNCHANGED <<vars, version, legacy, registered, opener, fresh, tx>>
    BY <1>1 DEF allVars, upgradeVars
  <2>2. FileSound'
    BY <2>1, FileSoundKept
  <2>3. Draft(tx) => Draft(tx)'
    BY <2>1, DraftKept
  <2> QED
    BY <2>1, <2>2, <2>3 DEF Working
<1>2. CASE MigrationNext
  BY <1>2, WorkingMoves, WorkingWrites, UpgradeSteps, CommitHolds, ServeSound DEF MigrationNext
<1> QED
  BY <1>1, <1>2

LEMMA InvariantFirst == MigrationInit => MigrationInvariant
BY DEF MigrationInit, MigrationInvariant

(* Whatever file is opened, by however many processes, at whatever step an *)
(* upgrade is interrupted: the committed tables are of their schema and    *)
(* hold what their version promises, and so does every uncommitted draft.  *)
THEOREM MigrationCorrect == MigrationSpec => []MigrationInvariant
BY InvariantFirst, InvariantStep, PTL DEF MigrationSpec

-----------------------------------------------------------------------------
(* A venue summary announced as xG-ready covers every completed match and  *)
(* its sums are those of the tables, whatever upgrade or write ran last.   *)
THEOREM VenueStaysTrue == MigrationSpec => []VenueTrue
<1>1. MigrationInvariant => VenueTrue
  <2> SUFFICES ASSUME SummedUp(File) PROVE VenueTrue
    BY DEF MigrationInvariant, Holds
  <2>1. venue # Absent =>
           /\ venue.xgReady => \A g \in Games : FullTime(games[g]) => xg[g] # Absent
           /\ venue.fixtureReady => venue.results = Results(games)
           /\ venue.rated = Rated(games, xg)
    BY FileFields DEF SummedUp
  <2> QED
    BY <2>1 DEF VenueTrue, XGReadyCoverage, VenueSumsCurrent, Completed
<1> QED
  BY <1>1, MigrationCorrect, PTL

LEMMA ReadySound ==
    MigrationInvariant /\ version = Latest => SourceSound /\ Ordered
BY SoundHolds DEF MigrationInvariant, Ready

LEMMA OrderedReadable ==
    InOrder /\ SourceSound /\ Ordered /\ Cached(games) # {} => SeasonReadable
BY DEF SourceSound, Ordered, RunCurrent, RunKnown, ParticipantsKnown, SeasonReadable, SeasonServed

(* A file that has been opened can be served: the current run has the      *)
(* identity of the matches and every match its rows in the ledgers.        *)
THEOREM UpgradeComplete == InOrder => (MigrationSpec => []UpgradedComplete)
<1> SUFFICES ASSUME InOrder PROVE MigrationSpec => []UpgradedComplete
  OBVIOUS
<1>1. MigrationInvariant => UpgradedComplete
  <2> SUFFICES ASSUME MigrationInvariant PROVE UpgradedComplete
    OBVIOUS
  <2>1. (\E p \in Procs : opener[p] = "open") => version = Latest
    BY DEF MigrationInvariant
  <2>2. ASSUME version = Latest
        PROVE  /\ Cached(games) # {} => SeasonReadable
               /\ XGBelongsToPairing
               /\ XGLedgerAgrees
               /\ \A g \in Cached(games) :
                     /\ resultCheck[g] # Absent
                     /\ resultCheck[g].first # Never => Terminal(games[g])
    <3>1. SourceSound /\ Ordered
      BY <2>2, ReadySound
    <3>2. Cached(games) # {} => SeasonReadable
      BY <3>1, OrderedReadable
    <3>3. XGLedgerAgrees
      BY <3>1, AgreeIsLedger DEF SourceSound, XGLedgerSound
    <3>4. \A g \in Cached(games) : /\ resultCheck[g] # Absent
                                   /\ resultCheck[g].first # Never => Terminal(games[g])
      BY <3>1 DEF SourceSound, ResultsKept, ResultRow, Cached
    <3> QED
      BY <3>1, <3>2, <3>3, <3>4 DEF SourceSound
  <2> QED
    BY <2>1, <2>2 DEF UpgradedComplete
<1> QED
  BY <1>1, MigrationCorrect, PTL

LEMMA MovesKeepVersion ==
    ASSUME NEW p \in Procs,
           \/ OpenCurrent(p) \/ Begin(p) \/ BeginNew(p) \/ Lock(p) \/ Refused(p)
           \/ Extend(p) \/ Summarise(p) \/ Register(p) \/ ScopeStates(p)
           \/ ResultLedger(p) \/ XGLedger(p) \/ PlayoffColumns(p) \/ SourceFields(p)
           \/ Rollback(p) \/ Close(p)
    PROVE  UNCHANGED <<vars, version>>
BY DEF OpenCurrent, Begin, BeginNew, Lock, Writes, Refused, Extend, Summarise, Register,
       ScopeStates, ResultLedger, XGLedger, PlayoffColumns, SourceFields, Step, Rollback, Close

LEMMA CommitContinues ==
    ASSUME MigrationInvariant, NEW p \in Procs, Commit(p)
    PROVE  /\ version < Latest /\ version \in Nat /\ version' = Latest
           /\ UNCHANGED <<teams, xg>>
           /\ Continues(tx) /\ tx.version = Latest
           /\ games' = tx.games /\ lastRun' = tx.lastRun /\ registered' = tx.registered
           /\ scope' = tx.scope /\ resultCheck' = tx.resultCheck /\ xgCheck' = tx.xgCheck
BY InvariantParts, VersionKnown DEF Commit, Publish, Working, Draft, Latest

(* An upgrade is all or nothing: it happens in one step, to the latest     *)
(* version, and keeps every match, xG row, ledger row and time the older   *)
(* file had, and what was sent for a match.                                *)
THEOREM UpgradeIsWhole == MigrationSpec => UpgradeWhole
<1> DEFINE Whole ==
       /\ version' = version /\ version < Latest => UNCHANGED vars
       /\ version' # version =>
             /\ version' = Latest
             /\ UNCHANGED <<teams, xg>>
             /\ SameFacts(games, games') /\ SameRun(lastRun, lastRun')
             /\ version < 9 /\ Cached(games) # {} => registered' = "available"
             /\ version < 10 /\ lastRun # Absent => scope'["games"].success = lastRun.at
             /\ version >= 10 => UNCHANGED scope
             /\ version >= 11 => UNCHANGED resultCheck
             /\ version >= 12 => UNCHANGED xgCheck
             /\ version < 14 => \A g \in Cached(games) : Sent(games'[g], legacy.payload[g])
<1>1. MigrationInvariant /\ [MigrationNext]_allVars => [Whole]_allVars
  <2> SUFFICES ASSUME MigrationInvariant, MigrationNext PROVE Whole
    OBVIOUS
  <2>1. CASE UNCHANGED <<vars, version>>
    BY <2>1
  <2>2. ASSUME NEW p \in Procs, Commit(p) PROVE Whole
    <3>1. /\ version' = Latest /\ version < Latest /\ version \in Nat
          /\ UNCHANGED <<teams, xg>> /\ Continues(tx) /\ tx.version = Latest
      BY <2>2, CommitContinues
    <3>2. version' # version
      BY <3>1 DEF Latest
    <3>3. /\ tx.version >= 9 /\ tx.version >= 10 /\ tx.version >= 14
      BY <3>1 DEF Latest
    <3>4. /\ games' = tx.games /\ lastRun' = tx.lastRun /\ registered' = tx.registered
          /\ scope' = tx.scope /\ resultCheck' = tx.resultCheck /\ xgCheck' = tx.xgCheck
      BY <2>2, CommitContinues
    <3> QED
      BY <3>1, <3>2, <3>3, <3>4 DEF Continues
  <2>3. ASSUME NEW p \in Procs, Serve(p) PROVE Whole
    <3>1. version' = version /\ version = Latest
      BY <2>3 DEF Serve, upgradeVars, MigrationInvariant
    <3> QED
      BY <3>1 DEF Latest
  <2> HIDE DEF Whole
  <2> QED
    BY <2>1, <2>2, <2>3, MovesKeepVersion DEF MigrationNext
<1> QED
  BY <1>1, MigrationCorrect, PTL DEF MigrationSpec, UpgradeWhole

-----------------------------------------------------------------------------
(* The readers' picture over an upgrade and the writes that follow.        *)
LEMMA ShownIsPhase == InOrder /\ MigrationInvariant => Shown = Phase
<1> SUFFICES ASSUME InOrder, MigrationInvariant, version = Latest, Cached(games) # {}
             PROVE  Published = Phase
  BY FileTyped DEF Shown, MigrationInvariant, Latest
<1> QED
  BY ReadySound, OrderedReadable, PublishedIsPhase DEF SourceSound

(* Nothing that is applied leaves a scope without matches, except what     *)
(* found it so and changes neither a match nor a value.                    *)
LEMMA EmptyStays ==
    ASSUME TypeOK, Next, Cached(games') = {}
    PROVE  UNCHANGED <<Phase, Valued>>
<1>1. CASE UNCHANGED <<games, xg>>
  BY <1>1 DEF Phase, Valued
<1>2. ASSUME NEW batch, NEW at, NEW due, UpsertTeams(batch, at, due) \/ EmptyDiscovery(at, due)
      PROVE  UNCHANGED <<games, xg>>
  BY <1>2 DEF UpsertTeams, EmptyDiscovery
<1>3. ASSUME NEW resp \in Responses(GameRow), NEW at, NEW due, ReplaceGameInventory(resp, at, due)
      PROVE  FALSE
  <2>1. PICK g \in DOMAIN resp : TRUE
    BY <1>3 DEF ReplaceGameInventory, InventoryAcceptable
  <2>2. g \in Games /\ games'[g] = Inventory(resp)[g]
    BY <1>3, ResponseType DEF ReplaceGameInventory
  <2> QED
    BY <2>1, <2>2, InventoryRow DEF Cached
<1>4. ASSUME NEW req, NEW resp \in Responses(GameRow), NEW at, NEW due, NEW materialDue,
             UpsertCheckedGames(req, resp, at, due, materialDue)
      PROVE  FALSE
  <2>1. PICK g \in req : TRUE
    BY <1>4 DEF UpsertCheckedGames
  <2>2. games[g] # Absent /\ g \in Games /\ games'[g] = TargetedTable(resp)[g]
    BY <1>4, PolledRows
  <2>3. games'[g] # Absent
    BY <1>4, <2>2, PolledRows, TargetedRow
  <2> QED
    BY <2>2, <2>3 DEF Cached
<1>5. ASSUME NEW req, NEW resp, NEW at, NEW due, NEW materialDue,
             ReplaceStageXG(resp, at, due) \/ UpsertCheckedXG(req, resp, at, due, materialDue)
      PROVE  UNCHANGED <<Phase, Valued>>
  <2>1. games' = games
    BY <1>5 DEF ReplaceStageXG, UpsertCheckedXG
  <2>2. Completed = {}
    BY <2>1 DEF Completed, FullTime, Cached
  <2>3. \A g \in Games : xg'[g] = xg[g]
    BY <1>5, <2>2 DEF ReplaceStageXG, UpsertCheckedXG
  <2> QED
    BY <2>1, <2>3 DEF Phase, Valued
<1> QED
  BY <1>1, <1>2, <1>3, <1>4, <1>5 DEF Next, Finish

LEMMA ServeImplements ==
    ASSUME InOrder, MigrationInvariant, Shown' = Phase', NEW p \in Procs, Serve(p)
    PROVE  [Upgraded!LedgerNext]_<<Phase, Valued, Shown>>
<1>1. Next /\ version = Latest /\ version' = Latest
  BY ServeIsNext DEF Serve, upgradeVars, MigrationInvariant
<1>2. SourceSound /\ Shown = Phase
  BY <1>1, ReadySound, ShownIsPhase
<1>3. CASE Cached(games') = {}
  BY <1>1, <1>2, <1>3, EmptyStays DEF SourceSound
<1>4. CASE Cached(games') # {}
  <2>1. Published' = Phase'
    BY <1>1, <1>4 DEF Shown, Latest
  <2>2. Ledger!LedgerNext \/ UNCHANGED <<Phase, Valued, Published>>
    BY <1>1, <1>2, <2>1, StepImplements DEF SourceSound
  <2>3. CASE UNCHANGED <<Phase, Valued, Published>>
    BY <1>2, <2>3
  <2>4. CASE Ledger!Reconcile
    BY <2>4 DEF Ledger!Reconcile, Ledger!Phases, Ledger!NoneReopened, Upgraded!LedgerNext,
                Upgraded!Reconcile, Upgraded!Phases, Upgraded!NoneReopened
  <2>5. CASE Ledger!Report
    BY <2>5 DEF Ledger!Report, Upgraded!LedgerNext, Upgraded!Report
  <2>6. CASE Ledger!Value
    BY <1>2, <2>6 DEF Ledger!Value, Ledger!Over, Upgraded!LedgerNext, Upgraded!Value,
                      Upgraded!Over
  <2> QED
    BY <2>2, <2>3, <2>4, <2>5, <2>6 DEF Ledger!LedgerNext
<1> QED
  BY <1>3, <1>4

LEMMA MigrationImplements ==
    ASSUME InOrder, MigrationInvariant, Shown' = Phase', [MigrationNext]_allVars
    PROVE  [Upgraded!LedgerNext]_<<Phase, Valued, Shown>>
<1>0. Shown = Phase
  BY ShownIsPhase
<1>1. CASE UNCHANGED <<games, xg>>
  <2>1. UNCHANGED <<Phase, Valued>>
    BY <1>1 DEF Phase, Valued
  <2> QED
    BY <1>0, <2>1
<1>2. UNCHANGED allVars => UNCHANGED <<games, xg>>
  BY DEF allVars, vars
<1>3. UNCHANGED <<vars, version>> => UNCHANGED <<games, xg>>
  BY DEF vars
<1>4. ASSUME NEW p \in Procs, Commit(p)
      PROVE  UNCHANGED <<Phase, Valued, Shown>>
  <2>1. SameFacts(games, games') /\ xg' = xg
    BY <1>4, CommitContinues DEF Continues
  <2>2. \A g \in Games : PhaseOf(games'[g]) = PhaseOf(games[g])
    BY <2>1 DEF SameFacts, PhaseOf, Terminal
  <2>3. UNCHANGED <<Phase, Valued>>
    BY <2>1, <2>2 DEF Phase, Valued
  <2> QED
    BY <1>0, <2>3
<1> QED
  BY <1>1, <1>2, <1>3, <1>4, MovesKeepVersion, ServeImplements DEF MigrationNext

(* The upgraded tables, and the writes that follow, implement StageLedger  *)
(* from the matches the older file held: a result stays, a value is of a   *)
(* match that is over, and readers see every change in its own step.       *)
THEOREM UpgradeImplements == InOrder => (MigrationSpec => LedgerKept)
<1> SUFFICES ASSUME InOrder PROVE MigrationSpec => LedgerKept
  OBVIOUS
<1>1. MigrationInit => Upgraded!LedgerInit
  <2> SUFFICES ASSUME MigrationInit PROVE Upgraded!LedgerInit
    OBVIOUS
  <2>1. MigrationInvariant /\ Shown = Phase
    BY InvariantFirst, ShownIsPhase
  <2>2. \A g \in Games : Available(xg[g]) => Phase[g] = "over"
    <3> SUFFICES ASSUME NEW g \in Games, Available(xg[g]) PROVE Terminal(games[g])
      BY PhaseFacts
    <3>1. Coherent(File, g)
      BY <2>1 DEF MigrationInvariant, Holds
    <3> QED
      BY <3>1, FileFields DEF Coherent, Available
  <2>3. Phase \in Upgraded!Phases
    BY PhaseFacts DEF Upgraded!Phases
  <2> QED
    BY <2>1, <2>2, <2>3 DEF Upgraded!LedgerInit, Upgraded!Over
<1>2. MigrationInvariant /\ (Shown = Phase)' /\ [MigrationNext]_allVars
      => [Upgraded!LedgerNext]_(Upgraded!ledgerVars)
  BY MigrationImplements DEF Upgraded!ledgerVars, Valued
<1>3. MigrationInvariant => Shown = Phase
  BY ShownIsPhase
<1> QED
  BY <1>1, <1>2, <1>3, MigrationCorrect, PTL
  DEF MigrationSpec, LedgerKept, Upgraded!LedgerSpec
=============================================================================
